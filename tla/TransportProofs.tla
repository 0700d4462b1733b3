---------------------------- MODULE TransportProofs ----------------------------
(* What Transport guarantees for any number of calls and of faults. *)
EXTENDS Transport, TLAPS

---------------------------------------------------------------------------------
(* The inductive invariant. *)

Served == {"conn"} \cup OnWire

\* Types, but for the connection.
TypesOK ==
  /\ policy \in Policies /\ authenticated \in BOOLEAN
  /\ ready \in {"connecting", "ready", "failed"}
  /\ outer \in Calls \cup {None} /\ connection \in Calls \cup {None}
  /\ challenge \in Challenges \cup {None}
  /\ pc \in [Calls -> {"idle"} \cup Waiting \cup OnWire \cup Done]
  /\ attempt \in [Calls -> 0 .. 1]
  /\ got \in [Calls -> Calls \cup {None}]
  /\ issued \in Nat /\ faults \in Nat
  /\ executed \in [Calls -> Nat]
  /\ sent \in SUBSET (Nat \X Nat) /\ excused \in SUBSET Calls

\* The mutexes are held by exactly the calls that are past them.
LocksOK ==
  /\ \A c \in Calls : pc[c] \in Served <=> outer = c
  /\ \A c \in Calls : connection = c <=> authenticated /\ pc[c] \in OnWire
  /\ \A c \in Calls : ~authenticated => pc[c] \notin {"conn", "challenge"}

\* A nonce no answer has used and no cached challenge has.
FreshNonce(n) ==
  /\ n \in 1 .. issued
  /\ \A p \in sent : p[1] # n
  /\ challenge # None => challenge.nonce # n

\* At most one request or reply is on the connection: that of the call awaiting a reply, or of one
\* which was dropped. A reply with a challenge brings a nonce nobody has used.
Clear(l) == l.requests = <<>> /\ l.replies = <<>>
Asked(l, c) == \E r \in Requests : r.call = c /\ l.requests = <<r>> /\ l.replies = <<>>
Replied(l, c) ==
  \E r \in Replies : /\ r.call = c /\ l.requests = <<>> /\ l.replies = <<r>>
                     /\ r.header # "none" => FreshNonce(r.nonce)
Dropped(l) ==
  /\ l.state = "left"
  /\ \/ \E c \in Calls : pc[c] = "err" /\ Asked(l, c)
     \/ \E r \in Replies : l.requests = <<>> /\ l.replies = <<r>>
LinkOK ==
  /\ link \in Links
  /\ \/ Clear(link) \/ Dropped(link)
     \/ /\ link.state = "live"
        /\ \E c \in Calls : /\ pc[c] \in {"challenge", "response"}
                            /\ Asked(link, c) \/ Replied(link, c)

\* The answers sent to the cached challenge are those its counter has passed.
NoncesOK ==
  /\ \A p \in sent : p[1] \in 1 .. issued
  /\ challenge # None =>
       /\ challenge.nonce \in 1 .. issued
       /\ \A p \in sent : p[1] = challenge.nonce => p[2] <= challenge.cnonce

Inv == TypesOK /\ LocksOK /\ LinkOK /\ NoncesOK /\ OwnResponse

\* The transport starts with nothing locked, sent or answered.
LEMMA InitInv == Init => Inv
<1> SUFFICES ASSUME Init PROVE Inv
  OBVIOUS
<1> USE NoneAssumption DEF Init
<1>1. TypesOK
  BY DEF TypesOK, Policies
<1>2. LocksOK
  BY DEF LocksOK, Served, OnWire
<1>3. LinkOK
  <2>1. NoLink \in Links
    BY DEF NoLink, EmptyLink, Links
  <2> QED BY <2>1 DEF LinkOK, Clear, NoLink, EmptyLink
<1>4. NoncesOK /\ OwnResponse
  BY DEF NoncesOK, OwnResponse
<1> QED BY <1>1, <1>2, <1>3, <1>4 DEF Inv

\* The empty connections.
LEMMA EmptyLinks ==
  /\ NoLink \in Links /\ Clear(NoLink)
  /\ NewLink \in Links /\ Clear(NewLink)
  /\ DeadLink \in Links /\ Clear(DeadLink)
  BY DEF NoLink, NewLink, DeadLink, EmptyLink, Links, Clear

\* Sending on a clear connection leaves the request alone on it, or loses it.
LEMMA SentAlone ==
  ASSUME NEW l \in Links, Clear(l), NEW r \in Requests
  PROVE  /\ Sent(l, r) \in Links
         /\ \/ Clear(Sent(l, r))
            \/ Sent(l, r).state = "live" /\ Asked(Sent(l, r), r.call)
<1> USE DEF Links
<1>1. CASE l.state = "none"
  <2>1. Sent(l, r) = [NewLink EXCEPT !.requests = <<r>>]
    BY <1>1 DEF Sent
  <2>2. Sent(l, r) = [state |-> "live", requests |-> <<r>>, replies |-> <<>>, nonce |-> 0, used |-> {}]
    BY <2>1 DEF NewLink, EmptyLink
  <2>3. <<r>> \in Seq(Requests)
    OBVIOUS
  <2> QED BY <2>2, <2>3 DEF Asked
<1>2. CASE l.state = "live"
  <2>1. Append(l.requests, r) = <<r>> /\ <<r>> \in Seq(Requests)
    BY DEF Clear
  <2>2. Sent(l, r) = [l EXCEPT !.requests = <<r>>]
    BY <1>2, <2>1 DEF Sent
  <2>3. Sent(l, r) \in Links /\ Sent(l, r).state = "live"
    BY <1>2, <2>1, <2>2
  <2>4. Sent(l, r).requests = <<r>> /\ Sent(l, r).replies = <<>>
    BY <2>2 DEF Clear
  <2> QED BY <2>3, <2>4 DEF Asked
<1>3. CASE l.state \in {"left", "dead"}
  BY <1>3 DEF Sent
<1> QED BY <1>1, <1>2, <1>3

\* On a connection with a dropped call's exchange nothing is sent.
LEMMA NotSent ==
  ASSUME NEW l, Dropped(l), NEW r
  PROVE  Sent(l, r) = l
  BY DEF Dropped, Sent

\* A dropped call stays dropped.
LEMMA DroppedStays ==
  ASSUME Dropped(link), link' = link, \A c \in Calls : pc[c] = "err" => pc'[c] = "err"
  PROVE  Dropped(link)'
  BY DEF Dropped, Asked

\* The head of the replies is the only one: what is left is clear.
LEMMA TakenClear ==
  ASSUME LinkOK, link.state = "live", link.replies # <<>>
  PROVE  /\ Taken \in Links /\ Clear(Taken) /\ Taken.state = link.state
         /\ \E c \in Calls : /\ pc[c] \in {"challenge", "response"}
                             /\ Head(link.replies) \in Replies /\ Head(link.replies).call = c
                             /\ Head(link.replies).header # "none" => FreshNonce(Head(link.replies).nonce)
<1>1. PICK c \in Calls : pc[c] \in {"challenge", "response"} /\ Replied(link, c)
  BY DEF LinkOK, Clear, Dropped, Asked
<1>2. PICK r \in Replies : /\ r.call = c /\ link.requests = <<>> /\ link.replies = <<r>>
                           /\ r.header # "none" => FreshNonce(r.nonce)
  BY <1>1 DEF Replied
<1>3. Head(link.replies) = r /\ Tail(link.replies) = <<>>
  BY <1>2
<1>4. Taken \in Links /\ Clear(Taken) /\ Taken.state = link.state
  BY <1>2, <1>3 DEF Taken, Links, LinkOK, Clear
<1> QED BY <1>1, <1>2, <1>3, <1>4

---------------------------------------------------------------------------------
(* What the steps have in common. *)

\* The connection is untouched and so are the calls that use it.
LEMMA LinkStays ==
  ASSUME TypesOK, LinkOK, UNCHANGED <<link, challenge, sent>>, issued' \in Nat, issued' >= issued,
         \A c \in Calls : pc[c] \in {"challenge", "response", "err"} => pc'[c] = pc[c]
  PROVE  LinkOK'
<1>1. ASSUME NEW n, FreshNonce(n) PROVE FreshNonce(n)'
  BY <1>1 DEF FreshNonce, TypesOK
<1>2. CASE Clear(link)
  BY <1>2 DEF LinkOK, Clear
<1>4. CASE Dropped(link)
  BY <1>4, DroppedStays DEF LinkOK
<1>3. CASE ~Clear(link) /\ ~Dropped(link)
  <2>1. PICK c \in Calls : pc[c] \in {"challenge", "response"} /\ (Asked(link, c) \/ Replied(link, c))
    BY <1>3 DEF LinkOK
  <2>2. pc'[c] \in {"challenge", "response"}
    BY <2>1
  <2>3. Asked(link, c)' \/ Replied(link, c)'
    BY <1>1, <2>1 DEF Asked, Replied
  <2> QED BY <1>3, <2>2, <2>3 DEF LinkOK
<1> QED BY <1>2, <1>3, <1>4

\* A call ends and its guards are dropped.
LEMMA FinishLocks ==
  ASSUME TypesOK, LocksOK, NEW c \in Calls, NEW result \in Done, Finish(c, result),
         UNCHANGED authenticated
  PROVE  /\ LocksOK'
         /\ outer' \in Calls \cup {None} /\ connection' \in Calls \cup {None}
         /\ pc' \in [Calls -> {"idle"} \cup Waiting \cup OnWire \cup Done]
         /\ pc' = [pc EXCEPT ![c] = result]
<1> USE NoneAssumption
<1>1. /\ outer' = IF outer = c THEN None ELSE outer
      /\ connection' = IF connection = c THEN None ELSE connection
      /\ pc' = [pc EXCEPT ![c] = result]
  BY DEF Finish, Freed
<1>2. result \notin Served /\ result \notin OnWire /\ result \notin {"conn", "challenge"}
  BY DEF Done, Served, OnWire
<1>3. pc' \in [Calls -> {"idle"} \cup Waiting \cup OnWire \cup Done]
  BY <1>1 DEF TypesOK
<1>4. LocksOK'
  BY <1>1, <1>2 DEF LocksOK, TypesOK
<1> QED BY <1>1, <1>3, <1>4 DEF TypesOK

\* A call awaits the daemon, holding both mutexes.
LEMMA AwaitLocks ==
  ASSUME TypesOK, LocksOK, NEW c \in Calls, pc[c] \in {"conn", "challenge"},
         NEW place \in {"challenge", "response"}, Await(c, place), UNCHANGED authenticated
  PROVE  /\ LocksOK'
         /\ outer' \in Calls \cup {None} /\ connection' \in Calls \cup {None}
         /\ pc' \in [Calls -> {"idle"} \cup Waiting \cup OnWire \cup Done]
         /\ pc' = [pc EXCEPT ![c] = place]
<1> USE NoneAssumption
<1>1. outer' = c /\ connection' = c /\ pc' = [pc EXCEPT ![c] = place]
  BY DEF Await
<1>2. place \in Served /\ place \in OnWire /\ place # "conn"
  BY DEF Served, OnWire
<1>3. pc' \in [Calls -> {"idle"} \cup Waiting \cup OnWire \cup Done]
  BY <1>1, <1>2 DEF TypesOK
<1>4. outer = c /\ authenticated
  BY DEF LocksOK, Served, OnWire, TypesOK
<1>5. LocksOK'
  BY <1>1, <1>2, <1>4 DEF LocksOK, TypesOK, OnWire, Served
<1> QED BY <1>1, <1>3, <1>5

\* No other call awaits a reply.
LEMMA OthersNotAsking ==
  ASSUME LocksOK, NEW c \in Calls, pc[c] \in Served, NEW d \in Calls, pc[d] \in {"challenge", "response"}
  PROVE  d = c
  BY DEF LocksOK, Served, OnWire

\* A call past the mutex that awaits no reply finds nothing on the connection but what was dropped.
LEMMA OwnLink ==
  ASSUME LocksOK, LinkOK, NEW c \in Calls, pc[c] \in Served, pc[c] \notin {"challenge", "response"}
  PROVE  Clear(link) \/ Dropped(link)
  BY OthersNotAsking DEF LinkOK

\* A request is sent on a clear connection, or not sent on one with a dropped call's exchange.
LEMMA SendLink ==
  ASSUME NEW l \in Links, Clear(l) \/ (l = link /\ Dropped(link)), NEW r \in Requests, link' = Sent(l, r),
         pc'[r.call] \in {"challenge", "response"}, \A c \in Calls : pc[c] = "err" => pc'[c] = "err"
  PROVE  LinkOK'
<1>0. CASE l = link /\ Dropped(link)
  BY <1>0, NotSent, DroppedStays DEF LinkOK
<1> SUFFICES ASSUME Clear(l) PROVE LinkOK'
  BY <1>0
<1>1. /\ Sent(l, r) \in Links
      /\ Clear(Sent(l, r)) \/ (Sent(l, r).state = "live" /\ Asked(Sent(l, r), r.call))
  BY SentAlone
<1>2. r.call \in Calls
  BY DEF Requests
<1>3. CASE Clear(Sent(l, r))
  BY <1>1, <1>3 DEF LinkOK, Clear
<1>4. CASE Sent(l, r).state = "live" /\ Asked(Sent(l, r), r.call)
  BY <1>1, <1>2, <1>4 DEF LinkOK, Asked
<1> QED BY <1>1, <1>3, <1>4

---------------------------------------------------------------------------------
(* Every step keeps the invariant. *)

\* The constructor's request leaves at most a challenge nobody has answered.
LEMMA WithCustomTimeoutInv ==
  ASSUME Inv, WithCustomTimeout, \A c \in Calls : pc[c] = "idle"
  PROVE  Inv'
<1> USE DEF lockVars, historyVars
<1>1. UNCHANGED <<policy, authenticated, pc, attempt, got, executed, outer, connection, sent, excused>>
  BY DEF WithCustomTimeout
<1>2. issued \in Nat /\ issued' \in Nat /\ issued' >= issued /\ faults' \in Nat
  BY DEF WithCustomTimeout, Fault, Inv, TypesOK
<1>3. LocksOK' /\ OwnResponse'
  BY <1>1 DEF Inv, LocksOK, OwnResponse
<1>5. link' \in Links /\ (Clear(link') \/ link' = link)
  <2>1. ASSUME NEW l \in Links, Clear(l), NEW n \in Nat
        PROVE  [l EXCEPT !.nonce = n] \in Links /\ Clear([l EXCEPT !.nonce = n])
    BY <2>1 DEF Links, Clear
  <2>2. [NewLink EXCEPT !.nonce = issued + 1] \in Links
        /\ Clear([NewLink EXCEPT !.nonce = issued + 1])
    <3>1. issued + 1 \in Nat
      BY <1>2
    <3> QED BY <2>1, <3>1, EmptyLinks
  <2> QED BY <2>2, EmptyLinks DEF WithCustomTimeout, Inv, LinkOK
<1>6. LinkOK'
  <2>1. CASE Clear(link')
    BY <1>5, <2>1 DEF LinkOK, Clear
  <2>2. CASE link' = link
    <3>1. Clear(link) \/ Dropped(link)
      BY DEF Inv, LinkOK
    <3> QED BY <1>1, <1>5, <2>2, <3>1, DroppedStays DEF LinkOK, Clear
  <2> QED BY <1>5, <2>1, <2>2
<1>7. /\ challenge' \in Challenges \cup {None}
      /\ \/ challenge' = challenge /\ issued' = issued
         \/ /\ challenge' # None => challenge'.nonce = issued + 1
            /\ issued' = issued + 1
  <2>1. ASSUME NEW u \in BOOLEAN
        PROVE  /\ [nonce |-> issued + 1, cnonce |-> 0, usable |-> u] \in Challenges
               /\ [nonce |-> issued + 1, cnonce |-> 0, usable |-> u].nonce = issued + 1
    BY <1>2 DEF Challenges
  <2>2. CASE issued' = issued + 1 /\ \E u \in BOOLEAN :
               challenge' = [nonce |-> issued + 1, cnonce |-> 0, usable |-> u]
    BY <2>1, <2>2
  <2>3. CASE UNCHANGED <<challenge, issued>>
    BY <2>3 DEF Inv, TypesOK
  <2> QED BY <2>2, <2>3 DEF WithCustomTimeout
<1>8. TypesOK'
  BY <1>1, <1>2, <1>7 DEF WithCustomTimeout, Inv, TypesOK
<1>9. NoncesOK'
  BY <1>1, <1>2, <1>7 DEF Inv, NoncesOK, TypesOK
<1> QED BY <1>3, <1>6, <1>8, <1>9 DEF Inv

\* The daemon's reply takes the place of the request; a challenge it brings is a new one.
LEMMA DaemonAnswersInv ==
  ASSUME Inv, DaemonAnswers
  PROVE  Inv'
<1> USE DEF lockVars
<1> DEFINE request == Head(link.requests)
<1>1. /\ UNCHANGED <<policy, authenticated, ready, challenge, pc, attempt, got, sent, outer, connection>>
      /\ link.state \in {"live", "left"} /\ link.requests # <<>>
      /\ DaemonRuns(request) \/ DaemonRefuses(request)
  BY DEF DaemonAnswers
<1>2. PICK c \in Calls :
        /\ \/ link.state = "live" /\ pc[c] \in {"challenge", "response"}
           \/ link.state = "left" /\ pc[c] = "err"
        /\ Asked(link, c)
  BY <1>1 DEF Inv, LinkOK, Clear, Dropped, Replied
<1>3. PICK r \in Requests : r.call = c /\ link.requests = <<r>> /\ link.replies = <<>>
  BY <1>2 DEF Asked
<1>4. request = r /\ Tail(link.requests) = <<>>
  BY <1>3
<1> HIDE DEF request
<1>5. issued \in Nat /\ issued' \in Nat /\ issued' >= issued
  BY <1>1 DEF DaemonRuns, DaemonRefuses, Inv, TypesOK
<1>6. PICK reply \in Replies :
        /\ reply.call = c
        /\ Serve(request, reply)
        /\ reply.header # "none" => reply.nonce = issued + 1 /\ issued' = issued + 1
  <2>1. CASE DaemonRuns(request)
    <3> DEFINE reply == Answer(request, "ok", "none", 0)
    <3>1. reply \in Replies /\ reply.call = c /\ reply.header = "none"
      BY <1>3, <1>4 DEF Answer, Replies, Headers, Requests
    <3> QED BY <2>1, <3>1 DEF DaemonRuns
  <2>2. CASE DaemonRefuses(request)
    <3>1. PICK header \in Headers :
            Serve(request, Answer(request, "unauthorized", header, issued + 1))
      BY <2>2 DEF DaemonRefuses, Headers
    <3> DEFINE reply == Answer(request, "unauthorized", header, issued + 1)
    <3>2. reply \in Replies /\ reply.call = c /\ reply.nonce = issued + 1
      BY <1>3, <1>4, <1>5 DEF Answer, Replies, Requests
    <3> QED BY <2>2, <3>1, <3>2 DEF DaemonRefuses
  <2> QED BY <1>1, <2>1, <2>2
<1>7. /\ link' \in Links /\ link'.state = link.state /\ link'.requests = <<>> /\ link'.replies = <<reply>>
  <2>1. Append(link.replies, reply) = <<reply>> /\ <<reply>> \in Seq(Replies)
    BY <1>3, <1>6
  <2>2. request.cnonce \in Nat /\ reply.nonce \in Nat
    BY <1>3, <1>4, <1>6 DEF Requests, Replies
  <2> DEFINE nonce == IF reply.nonce = 0 THEN link.nonce ELSE reply.nonce
             used == IF reply.nonce = 0 THEN link.used \cup {request.cnonce} ELSE {}
  <2>3. link \in Links /\ nonce \in Nat /\ used \in SUBSET Nat
    BY <2>2 DEF Inv, LinkOK, Links
  <2>4. link' = [link EXCEPT !.requests = <<>>, !.replies = <<reply>>, !.nonce = nonce, !.used = used]
    BY <1>4, <1>6, <2>1 DEF Serve
  <2> HIDE DEF nonce, used
  <2>5. link' = [state |-> link.state, requests |-> <<>>, replies |-> <<reply>>,
                 nonce |-> nonce, used |-> used]
    BY <2>3, <2>4 DEF Links
  <2>6. link.state \in {"none", "live", "left", "dead"} /\ <<>> \in Seq(Requests)
    BY <2>3 DEF Links
  <2> QED BY <1>1, <2>1, <2>3, <2>5, <2>6 DEF Links
<1>8. reply.header # "none" => FreshNonce(reply.nonce)'
  BY <1>1, <1>5, <1>6 DEF FreshNonce, Inv, NoncesOK, TypesOK
<1>9. LinkOK'
  <2>1. CASE link.state = "live"
    <3>1. Replied(link, c)'
      BY <1>6, <1>7, <1>8 DEF Replied
    <3> QED BY <1>1, <1>2, <1>7, <2>1, <3>1 DEF LinkOK
  <2>2. CASE link.state = "left"
    <3>1. Dropped(link)'
      BY <1>6, <1>7, <2>2 DEF Dropped
    <3> QED BY <1>7, <3>1 DEF LinkOK
  <2> QED BY <1>1, <2>1, <2>2
<1>10. TypesOK'
  <2>1. executed' \in [Calls -> Nat] /\ faults' \in Nat /\ excused' \in SUBSET Calls
    <3>1. executed \in [Calls -> Nat] /\ faults \in Nat /\ excused \in SUBSET Calls /\ request.call \in Calls
      BY <1>3, <1>4 DEF Inv, TypesOK, Requests
    <3>2. CASE DaemonRuns(request)
      <4>1. executed' = [executed EXCEPT ![request.call] = @ + 1] /\ UNCHANGED <<faults, excused>>
        BY <3>2, Zenon DEF DaemonRuns
      <4> QED BY <3>1, <4>1
    <3>3. CASE DaemonRefuses(request)
      <4>1. /\ executed' = executed
            /\ faults' \in {faults, faults + 1}
            /\ excused' \in {excused, excused \cup {request.call}}
        BY <3>3 DEF DaemonRefuses, Fault
      <4> QED BY <3>1, <4>1
    <3> QED BY <1>1, <3>2, <3>3
  <2> QED BY <1>1, <1>5, <2>1 DEF Inv, TypesOK
<1>11. LocksOK' /\ NoncesOK' /\ OwnResponse'
  BY <1>1, <1>5 DEF Inv, TypesOK, LocksOK, NoncesOK, OwnResponse
<1> QED BY <1>9, <1>10, <1>11 DEF Inv

\* A connection that dies takes what is on it along.
LEMMA ConnectionDiesInv ==
  ASSUME Inv, ConnectionDies
  PROVE  Inv'
<1> USE DEF lockVars, daemonVars
<1>1. TypesOK'
  BY DEF ConnectionDies, Fault, Exchanging, Inv, TypesOK
<1>2. LinkOK'
  BY EmptyLinks DEF ConnectionDies, LinkOK, Clear
<1>3. LocksOK' /\ NoncesOK' /\ OwnResponse'
  BY DEF ConnectionDies, Inv, LocksOK, NoncesOK, OwnResponse
<1> QED BY <1>1, <1>2, <1>3 DEF Inv

\* A response nobody waits for is taken off the connection.
LEMMA DiscardReplyInv ==
  ASSUME Inv, DiscardReply
  PROVE  Inv' /\ Clear(link')
<1> USE DEF lockVars, daemonVars, historyVars
<1>1. /\ link.state = "left" /\ link.replies # <<>> /\ link' = [Taken EXCEPT !.state = "live"]
      /\ UNCHANGED <<policy, authenticated, ready, outer, connection, challenge, pc, attempt, got,
                     issued, faults, executed, sent, excused>>
  BY DEF DiscardReply
<1>2. PICK r \in Replies : link.requests = <<>> /\ link.replies = <<r>>
  BY <1>1 DEF Inv, LinkOK, Clear, Dropped, Asked
<1>3. Tail(link.replies) = <<>> /\ link \in Links
  BY <1>2 DEF Inv, LinkOK
<1>4. link' \in Links /\ Clear(link')
  <2>1. <<>> \in Seq(Requests) /\ <<>> \in Seq(Replies)
    OBVIOUS
  <2>2. link' = [state |-> "live", requests |-> <<>>, replies |-> <<>>, nonce |-> link.nonce, used |-> link.used]
    BY <1>1, <1>2, <1>3 DEF Taken, Links
  <2> QED BY <1>3, <2>1, <2>2 DEF Links, Clear
<1>5. LinkOK'
  BY <1>4 DEF LinkOK, Clear
<1>6. TypesOK' /\ LocksOK' /\ NoncesOK' /\ OwnResponse'
  BY <1>1 DEF Inv, TypesOK, LocksOK, NoncesOK, OwnResponse
<1> QED BY <1>4, <1>5, <1>6 DEF Inv

\* A new call waits for the first mutex.
LEMMA PostInv ==
  ASSUME Inv, NEW c \in Calls, Post(c)
  PROVE  Inv'
<1> USE DEF lockVars, daemonVars, historyVars
<1>1. TypesOK'
  BY DEF Post, Inv, TypesOK, Waiting
<1>2. LocksOK'
  BY DEF Post, Inv, LocksOK, TypesOK, Served, OnWire
<1>3. LinkOK'
  <2>1. UNCHANGED <<link, challenge, sent, issued>> /\ issued \in Nat
    BY DEF Post, Inv, TypesOK
  <2>2. \A d \in Calls : pc[d] \in {"challenge", "response", "err"} => pc'[d] = pc[d]
    BY DEF Post, Inv, TypesOK
  <2> QED BY <2>1, <2>2, LinkStays DEF Inv
<1>4. NoncesOK' /\ OwnResponse'
  BY DEF Post, Inv, NoncesOK, OwnResponse
<1> QED BY <1>1, <1>2, <1>3, <1>4 DEF Inv

\* The mutex was free: no call was past it.
LEMMA LockOuterInv ==
  ASSUME Inv, NEW c \in Calls, LockOuter(c)
  PROVE  Inv'
<1> USE NoneAssumption DEF daemonVars, historyVars
<1>1. /\ pc[c] = "lock" /\ outer = None /\ outer' = c
      /\ UNCHANGED <<authenticated, connection, challenge, issued, sent, got>>
  BY DEF LockOuter, OuterUnlocked
<1>2. pc' = [pc EXCEPT ![c] = IF authenticated THEN "conn" ELSE "response"]
  BY DEF LockOuter
<1>3. TypesOK'
  BY <1>1, <1>2 DEF LockOuter, Inv, TypesOK, Waiting, OnWire
<1>4. \A d \in Calls : pc[d] \notin Served
  BY <1>1 DEF Inv, LocksOK
<1>5. LocksOK'
  <2>1. \A d \in Calls : d # c => pc'[d] = pc[d]
    BY <1>2 DEF Inv, TypesOK
  <2>2. pc'[c] = IF authenticated THEN "conn" ELSE "response"
    BY <1>2 DEF Inv, TypesOK
  <2>3. connection # c
    BY <1>1 DEF Inv, LocksOK, OnWire
  <2> QED BY <1>1, <1>4, <2>1, <2>2, <2>3 DEF Inv, TypesOK, LocksOK, Served, OnWire
<1>6. LinkOK'
  <2>1. (Clear(link) \/ Dropped(link)) /\ link \in Links
    BY <1>4 DEF Inv, LinkOK, Served, OnWire
  <2>4. \A d \in Calls : pc[d] = "err" => pc'[d] = "err"
    BY <1>1, <1>2 DEF Inv, TypesOK
  <2>2. CASE authenticated
    <3>1. link' = link
      BY <2>2 DEF LockOuter
    <3> QED BY <2>1, <2>4, <3>1, DroppedStays DEF LinkOK, Clear
  <2>3. CASE ~authenticated
    <3> DEFINE r == Request(c, 0, 0)
    <3>1. r \in Requests /\ r.call = c
      BY DEF Request, Requests
    <3>2. link' = Sent(link, r) /\ pc'[c] = "response"
      BY <1>2, <2>3 DEF LockOuter, Inv, TypesOK
    <3> HIDE DEF r
    <3> QED BY <2>1, <2>4, <3>1, <3>2, SendLink
  <2> QED BY <2>2, <2>3 DEF Inv, TypesOK
<1>7. NoncesOK' /\ OwnResponse'
  BY <1>1 DEF Inv, NoncesOK, OwnResponse
<1> QED BY <1>3, <1>5, <1>6, <1>7 DEF Inv

\* A request is sent on a connection l which is free, with an answer to the challenge ch if there is one:
\* one the counter of ch had not reached.
LEMMA SendRequestInv ==
  ASSUME Inv, NEW c \in Calls, pc[c] \in {"conn", "challenge"},
         NEW l \in Links, Clear(l) \/ (l = link /\ Dropped(link)),
         NEW ch \in Challenges \cup {None}, SendRequest(c, l, ch),
         ch # None => /\ ch.nonce \in 1 .. issued
                      /\ \A p \in sent : p[1] = ch.nonce => p[2] <= ch.cnonce,
         UNCHANGED <<policy, authenticated, ready, attempt, got, issued, faults, executed>>,
         excused' \in SUBSET Calls
  PROVE  /\ Inv'
         /\ challenge' # None /\ pc'[c] = "response" => <<challenge'.nonce, challenge'.cnonce>> \notin sent
<1> USE NoneAssumption
<1>1. TypesOK /\ LocksOK /\ sent \in SUBSET (Nat \X Nat) /\ issued \in Nat
  BY DEF Inv, TypesOK
<1>2. OwnResponse'
  BY DEF Inv, OwnResponse
<1>3. CASE ch = None
  <2>1. /\ challenge' = None /\ UNCHANGED sent /\ Await(c, "response")
        /\ link' = Sent(l, Request(c, 0, 0))
    BY <1>3 DEF SendRequest
  <2>2. Request(c, 0, 0) \in Requests /\ Request(c, 0, 0).call = c
    BY DEF Request, Requests
  <2>3. /\ LocksOK' /\ pc' = [pc EXCEPT ![c] = "response"]
        /\ outer' \in Calls \cup {None} /\ connection' \in Calls \cup {None}
        /\ pc' \in [Calls -> {"idle"} \cup Waiting \cup OnWire \cup Done]
    BY <1>1, <2>1, AwaitLocks
  <2>4. pc'[c] = "response" /\ \A d \in Calls : pc[d] = "err" => pc'[d] = "err"
    BY <1>1, <2>3 DEF TypesOK
  <2>5. LinkOK'
    BY <2>1, <2>2, <2>4, SendLink
  <2>6. TypesOK'
    BY <1>1, <2>1, <2>3 DEF TypesOK
  <2>7. NoncesOK'
    BY <2>1 DEF Inv, NoncesOK
  <2> QED BY <1>2, <2>1, <2>3, <2>5, <2>6, <2>7 DEF Inv
<1>4. CASE ch # None
  <2> DEFINE nonce == ch.nonce
             cnonce == ch.cnonce
             next == cnonce + 1
  <2>1. nonce \in Nat /\ cnonce \in Nat /\ next \in Nat /\ next > cnonce
    BY <1>4 DEF Challenges
  <2>2. NextCnonce(ch) \in Challenges /\ NextCnonce(ch).nonce = nonce /\ NextCnonce(ch).cnonce = next
    <3>1. ASSUME NEW n \in Nat
          PROVE  [ch EXCEPT !.cnonce = n] \in Challenges /\ [ch EXCEPT !.cnonce = n].nonce = nonce
                 /\ [ch EXCEPT !.cnonce = n].cnonce = n
      BY <1>4 DEF Challenges
    <3>2. NextCnonce(ch) = [ch EXCEPT !.cnonce = next]
      BY DEF NextCnonce
    <3> HIDE DEF next
    <3> QED BY <2>1, <3>1, <3>2
  <2>3. nonce \in 1 .. issued /\ \A p \in sent : p[1] = nonce => p[2] <= cnonce
    BY <1>4
  <2>4. challenge' = NextCnonce(ch)
    BY <1>4 DEF SendRequest
  <2>5. ch.usable \/ ~ch.usable
    OBVIOUS
  <2>6. CASE ch.usable
    <3> DEFINE r == Request(c, nonce, next)
    <3>1. /\ link' = Sent(l, r) /\ sent' = sent \cup {<<nonce, next>>} /\ Await(c, "response")
      BY <1>4, <2>2, <2>6 DEF SendRequest
    <3> HIDE DEF next, nonce, cnonce
    <3>2. r \in Requests /\ r.call = c
      BY <2>1 DEF Request, Requests
    <3>3. /\ LocksOK' /\ pc' = [pc EXCEPT ![c] = "response"]
          /\ outer' \in Calls \cup {None} /\ connection' \in Calls \cup {None}
          /\ pc' \in [Calls -> {"idle"} \cup Waiting \cup OnWire \cup Done]
      BY <1>1, <3>1, AwaitLocks
    <3>4. pc'[c] = "response" /\ \A d \in Calls : pc[d] = "err" => pc'[d] = "err"
      BY <1>1, <3>3 DEF TypesOK
    <3>5. LinkOK'
      <4> HIDE DEF r
      <4> QED BY <3>1, <3>2, <3>4, SendLink
    <3>6. TypesOK'
      <4>1. challenge' \in Challenges \cup {None} /\ sent' \in SUBSET (Nat \X Nat)
        BY <1>1, <2>1, <2>2, <2>4, <3>1
      <4> QED BY <1>1, <3>3, <4>1 DEF TypesOK
    <3>7. <<nonce, next>> \notin sent
      BY <1>1, <2>1, <2>3
    <3>8. NoncesOK'
      <4>1. \A p \in sent' : p[1] \in 1 .. issued'
        BY <2>3, <3>1 DEF Inv, NoncesOK
      <4>2. \A p \in sent' : p[1] = nonce => p[2] <= next
        BY <1>1, <2>1, <2>3, <3>1
      <4> QED BY <2>2, <2>3, <2>4, <4>1, <4>2 DEF NoncesOK
    <3> QED BY <1>2, <2>2, <2>4, <3>3, <3>5, <3>6, <3>7, <3>8 DEF Inv
  <2>7. CASE ~ch.usable
    <3>1. link' = l /\ UNCHANGED sent /\ Finish(c, "err")
      BY <1>4, <2>7 DEF SendRequest
    <3> HIDE DEF next, nonce, cnonce
    <3>2. "err" \in Done
      BY DEF Done
    <3>3. /\ LocksOK' /\ pc' = [pc EXCEPT ![c] = "err"]
          /\ outer' \in Calls \cup {None} /\ connection' \in Calls \cup {None}
          /\ pc' \in [Calls -> {"idle"} \cup Waiting \cup OnWire \cup Done]
      BY <1>1, <3>1, <3>2, FinishLocks
    <3>4. pc'[c] # "response" /\ \A d \in Calls : pc[d] = "err" => pc'[d] = "err"
      BY <1>1, <3>3 DEF TypesOK
    <3>5. LinkOK'
      BY <3>1, <3>4, DroppedStays DEF LinkOK, Clear
    <3>6. TypesOK'
      BY <1>1, <2>2, <2>4, <3>1, <3>3 DEF TypesOK
    <3>7. NoncesOK'
      <4>1. \A p \in sent : p[1] = nonce => p[2] <= next
        BY <1>1, <2>1, <2>3
      <4> QED BY <2>2, <2>3, <2>4, <3>1, <4>1 DEF Inv, NoncesOK
    <3> QED BY <1>2, <3>3, <3>4, <3>5, <3>6, <3>7 DEF Inv
  <2> QED BY <2>5, <2>6, <2>7
<1> QED BY <1>3, <1>4
\* The challenge in a reply is None or brings a nonce nobody has used.
LEMMA ReplyChallenge ==
  ASSUME Inv, NEW reply \in Replies, reply.header # "none" => FreshNonce(reply.nonce)
  PROVE  /\ DigestAuthChallenge(reply) \in Challenges \cup {None}
         /\ DigestAuthChallenge(reply) # None =>
              /\ DigestAuthChallenge(reply).nonce \in 1 .. issued
              /\ \A p \in sent : p[1] = DigestAuthChallenge(reply).nonce => p[2] <= DigestAuthChallenge(reply).cnonce
<1>1. CASE reply.header = "none"
  BY <1>1 DEF DigestAuthChallenge
<1>2. CASE reply.header # "none"
  <2> DEFINE ch == [nonce |-> reply.nonce, cnonce |-> 0, usable |-> reply.header # "unusable"]
  <2>1. DigestAuthChallenge(reply) = ch
    BY <1>2 DEF DigestAuthChallenge
  <2>2. ch \in Challenges
    BY DEF Challenges, Replies
  <2>3. ch.nonce = reply.nonce
    OBVIOUS
  <2> HIDE DEF ch
  <2> QED BY <1>2, <2>1, <2>2, <2>3 DEF FreshNonce
<1> QED BY <1>1, <1>2

\* The second mutex is taken by the call that holds the first.
LEMMA LockConnectionInv ==
  ASSUME Inv, NEW c \in Calls, LockConnection(c)
  PROVE  /\ Inv'
         /\ challenge' # None /\ pc'[c] = "response" => <<challenge'.nonce, challenge'.cnonce>> \notin sent
<1> USE DEF daemonVars
<1>1. /\ pc[c] = "conn" /\ connection = None
      /\ UNCHANGED <<policy, authenticated, ready, attempt, got, issued, faults, executed>>
  BY DEF LockConnection
<1>2. (Clear(link) \/ Dropped(link)) /\ link \in Links
  BY <1>1, OwnLink DEF Inv, LinkOK, Served
<1>3. CASE challenge = None /\ ~SendRequest(c, link, challenge)
  <2>1. /\ link' = Sent(link, Request(c, 0, 0)) /\ Await(c, "challenge") /\ UNCHANGED <<challenge, sent>>
    BY <1>3 DEF LockConnection
  <2>2. Request(c, 0, 0) \in Requests /\ Request(c, 0, 0).call = c
    BY DEF Request, Requests
  <2>3. /\ LocksOK' /\ pc' = [pc EXCEPT ![c] = "challenge"]
        /\ outer' \in Calls \cup {None} /\ connection' \in Calls \cup {None}
        /\ pc' \in [Calls -> {"idle"} \cup Waiting \cup OnWire \cup Done]
    BY <1>1, <2>1, AwaitLocks DEF Inv
  <2>4. pc'[c] = "challenge" /\ \A d \in Calls : pc[d] = "err" => pc'[d] = "err"
    BY <1>1, <2>3 DEF Inv, TypesOK
  <2>5. LinkOK'
    BY <1>2, <2>1, <2>2, <2>4, SendLink
  <2>6. excused' \in SUBSET Calls
    BY DEF LockConnection, Inv, TypesOK
  <2>7. TypesOK' /\ NoncesOK' /\ OwnResponse'
    BY <1>1, <2>1, <2>3, <2>6 DEF Inv, TypesOK, NoncesOK, OwnResponse
  <2> QED BY <2>3, <2>4, <2>5, <2>7 DEF Inv
<1>4. CASE SendRequest(c, link, challenge)
  <2>1. excused' \in SUBSET Calls
    BY DEF LockConnection, Inv, TypesOK
  <2>2. challenge # None => /\ challenge.nonce \in 1 .. issued
                            /\ \A p \in sent : p[1] = challenge.nonce => p[2] <= challenge.cnonce
    BY DEF Inv, NoncesOK
  <2>3. challenge \in Challenges \cup {None}
    BY DEF Inv, TypesOK
  <2> QED BY <1>1, <1>2, <1>4, <2>1, <2>2, <2>3, SendRequestInv
<1> QED BY <1>3, <1>4 DEF LockConnection

\* What a call hears is the only reply there is: its own.
LEMMA HeardReply ==
  ASSUME Inv, NEW c \in Calls, NEW place \in {"challenge", "response"}, Hears(c, place)
  PROVE  /\ Head(link.replies) \in Replies /\ Head(link.replies).call = c
         /\ Head(link.replies).header # "none" => FreshNonce(Head(link.replies).nonce)
         /\ Taken \in Links /\ Clear(Taken)
         /\ \A l \in AfterDrop(Head(link.replies)) : l \in Links /\ Clear(l)
<1>1. link.state = "live" /\ link.replies # <<>> /\ pc[c] = place /\ pc[c] \in Served
  BY DEF Hears, Served, OnWire
<1>2. PICK d \in Calls : /\ pc[d] \in {"challenge", "response"}
                         /\ Head(link.replies) \in Replies /\ Head(link.replies).call = d
                         /\ Head(link.replies).header # "none" => FreshNonce(Head(link.replies).nonce)
  BY <1>1, TakenClear DEF Inv
<1>3. d = c
  BY <1>1, <1>2, OthersNotAsking DEF Inv
<1>4. Taken \in Links /\ Clear(Taken)
  BY <1>1, TakenClear DEF Inv
<1> QED BY <1>2, <1>3, <1>4, EmptyLinks DEF AfterDrop

\* A call ends with its share of the connection cleared away.
LEMMA FinishInv ==
  ASSUME Inv, NEW c \in Calls, NEW result \in Done, Finish(c, result), link' \in Links, Clear(link'),
         UNCHANGED <<policy, authenticated, ready, attempt, got, issued, executed, challenge, sent>>,
         faults' \in Nat, excused' \in SUBSET Calls
  PROVE  Inv' /\ pc' = [pc EXCEPT ![c] = result]
<1>1. /\ LocksOK' /\ pc' = [pc EXCEPT ![c] = result]
      /\ outer' \in Calls \cup {None} /\ connection' \in Calls \cup {None}
      /\ pc' \in [Calls -> {"idle"} \cup Waiting \cup OnWire \cup Done]
  BY FinishLocks DEF Inv
<1>2. LinkOK'
  BY DEF LinkOK, Clear
<1>3. TypesOK' /\ NoncesOK' /\ OwnResponse'
  BY <1>1 DEF Inv, TypesOK, NoncesOK, OwnResponse
<1> QED BY <1>1, <1>2, <1>3 DEF Inv

\* The response to the request for a challenge: the nonce it brings was never answered.
LEMMA ChallengeReplyInv ==
  ASSUME Inv, NEW c \in Calls, ChallengeReply(c)
  PROVE  /\ Inv'
         /\ challenge' # None /\ pc'[c] = "response" => <<challenge'.nonce, challenge'.cnonce>> \notin sent
<1> USE DEF daemonVars
<1> DEFINE reply == Head(link.replies)
<1>1. /\ Hears(c, "challenge") /\ pc[c] = "challenge"
      /\ UNCHANGED <<policy, authenticated, ready, attempt, got, issued, faults, executed, excused>>
      /\ faults \in Nat /\ excused \in SUBSET Calls
  BY DEF ChallengeReply, Hears, Inv, TypesOK
<1>2. /\ reply \in Replies /\ (reply.header # "none" => FreshNonce(reply.nonce))
      /\ \A l \in AfterDrop(reply) : l \in Links /\ Clear(l)
  BY <1>1, HeardReply
<1>3. PICK l \in AfterDrop(reply) :
        \/ reply.header = "garbled" /\ link' = l /\ Finish(c, "err") /\ UNCHANGED <<challenge, sent>>
        \/ SendRequest(c, l, DigestAuthChallenge(reply))
  BY DEF ChallengeReply
<1> HIDE DEF reply
<1>4. CASE link' = l /\ Finish(c, "err") /\ UNCHANGED <<challenge, sent>>
  <2>1. "err" \in Done
    BY DEF Done
  <2>2. Inv' /\ pc' = [pc EXCEPT ![c] = "err"]
    BY <1>1, <1>2, <1>3, <1>4, <2>1, FinishInv
  <2> QED BY <2>2 DEF Inv, TypesOK
<1>5. CASE SendRequest(c, l, DigestAuthChallenge(reply))
  <2>1. /\ DigestAuthChallenge(reply) \in Challenges \cup {None}
        /\ DigestAuthChallenge(reply) # None =>
             /\ DigestAuthChallenge(reply).nonce \in 1 .. issued
             /\ \A p \in sent : p[1] = DigestAuthChallenge(reply).nonce => p[2] <= DigestAuthChallenge(reply).cnonce
    BY <1>2, ReplyChallenge
  <2> QED BY <1>1, <1>2, <1>3, <1>5, <2>1, SendRequestInv
<1> QED BY <1>3, <1>4, <1>5
\* An attempt failed: the challenge is gone, and the call is back at the connection's mutex or done.
LEMMA DropInv ==
  ASSUME Inv, NEW c \in Calls, pc[c] = "response", authenticated, DropChallengeAndRetry(c),
         link' \in Links, Clear(link'),
         UNCHANGED <<policy, authenticated, ready, got, issued, faults, executed, sent, excused>>
  PROVE  Inv' /\ (pc' = [pc EXCEPT ![c] = "conn"] \/ pc' = [pc EXCEPT ![c] = "err"])
<1> USE NoneAssumption
<1>1. LinkOK'
  BY DEF LinkOK, Clear
<1>2. challenge' = None
  BY DEF DropChallengeAndRetry, DroppedChallenge
<1>3. NoncesOK' /\ OwnResponse'
  BY <1>2 DEF Inv, NoncesOK, OwnResponse
<1>4. CASE Retries(c)
  <2>1. /\ attempt[c] = 0 /\ attempt' = [attempt EXCEPT ![c] = @ + 1]
        /\ pc' = [pc EXCEPT ![c] = "conn"] /\ connection' = None /\ UNCHANGED outer
    BY <1>4 DEF DropChallengeAndRetry, Retries, AttemptGuard
  <2>2. attempt' \in [Calls -> 0 .. 1]
    BY <2>1 DEF Inv, TypesOK
  <2>3. pc' \in [Calls -> {"idle"} \cup Waiting \cup OnWire \cup Done]
    BY <2>1 DEF Inv, TypesOK, Waiting
  <2>4. TypesOK'
    BY <1>2, <2>1, <2>2, <2>3 DEF Inv, TypesOK
  <2>5. LocksOK'
    <3>1. outer = c
      BY DEF Inv, LocksOK, Served, OnWire
    <3>2. \A d \in Calls : d # c => pc[d] \notin Served
      BY <3>1 DEF Inv, LocksOK
    <3>3. pc'[c] = "conn" /\ \A d \in Calls : d # c => pc'[d] = pc[d]
      BY <2>1 DEF Inv, TypesOK
    <3> QED BY <2>1, <3>1, <3>2, <3>3 DEF LocksOK, Served, OnWire
  <2> QED BY <1>1, <1>3, <2>1, <2>4, <2>5 DEF Inv
<1>5. CASE ~Retries(c)
  <2>1. Finish(c, "err") /\ UNCHANGED attempt
    BY <1>5 DEF DropChallengeAndRetry
  <2>2. "err" \in Done
    BY DEF Done
  <2>3. /\ LocksOK' /\ pc' = [pc EXCEPT ![c] = "err"]
        /\ outer' \in Calls \cup {None} /\ connection' \in Calls \cup {None}
        /\ pc' \in [Calls -> {"idle"} \cup Waiting \cup OnWire \cup Done]
    BY <2>1, <2>2, FinishLocks DEF Inv
  <2>4. TypesOK'
    BY <1>2, <2>1, <2>3 DEF Inv, TypesOK
  <2> QED BY <1>1, <1>3, <2>3, <2>4 DEF Inv
<1> QED BY <1>4, <1>5

\* The headers of a response: it is kept, or the challenge is dropped for another attempt.
LEMMA ResponseHeadersInv ==
  ASSUME Inv, NEW c \in Calls, ResponseHeaders(c)
  PROVE  Inv' /\ \E x \in {"conn", "err", "body"} : pc' = [pc EXCEPT ![c] = x]
<1> USE DEF daemonVars, historyVars
<1> DEFINE reply == Head(link.replies)
<1>1. /\ Hears(c, "response") /\ pc[c] = "response"
      /\ UNCHANGED <<policy, authenticated, ready, issued, faults, executed, sent, excused>>
      /\ faults \in Nat /\ excused \in SUBSET Calls
  BY DEF ResponseHeaders, Hears, Inv, TypesOK
<1>2. /\ reply \in Replies /\ reply.call = c /\ Taken \in Links /\ Clear(Taken)
      /\ \A l \in AfterDrop(reply) : l \in Links /\ Clear(l)
  BY <1>1, HeardReply
<1>3. \/ /\ link' \in AfterDrop(reply) /\ Finish(c, "err") /\ UNCHANGED <<challenge, attempt, got>>
      \/ /\ authenticated /\ link' \in AfterDrop(reply) /\ DropChallengeAndRetry(c) /\ UNCHANGED got
      \/ /\ link' = Taken /\ pc' = [pc EXCEPT ![c] = "body"] /\ got' = [got EXCEPT ![c] = reply.call]
         /\ UNCHANGED <<outer, connection, challenge, attempt>>
  BY DEF ResponseHeaders
<1> HIDE DEF reply
<1>4. CASE link' \in AfterDrop(reply) /\ Finish(c, "err") /\ UNCHANGED <<challenge, attempt, got>>
  <2>1. "err" \in Done
    BY DEF Done
  <2> QED BY <1>1, <1>2, <1>4, <2>1, FinishInv
<1>5. CASE authenticated /\ link' \in AfterDrop(reply) /\ DropChallengeAndRetry(c) /\ UNCHANGED got
  BY <1>1, <1>2, <1>5, DropInv
<1>6. CASE /\ link' = Taken /\ pc' = [pc EXCEPT ![c] = "body"] /\ got' = [got EXCEPT ![c] = reply.call]
           /\ UNCHANGED <<outer, connection, challenge, attempt>>
  <2>1. LinkOK'
    BY <1>2, <1>6 DEF LinkOK, Clear
  <2>2. TypesOK'
    BY <1>1, <1>2, <1>6 DEF Inv, TypesOK, OnWire
  <2>3. LocksOK'
    <3>1. pc'[c] = "body" /\ \A d \in Calls : d # c => pc'[d] = pc[d]
      BY <1>6 DEF Inv, TypesOK
    <3> QED BY <1>1, <1>6, <3>1 DEF Inv, LocksOK, Served, OnWire
  <2>4. NoncesOK' /\ OwnResponse'
    BY <1>1, <1>2, <1>6 DEF Inv, TypesOK, NoncesOK, OwnResponse
  <2> QED BY <1>6, <2>1, <2>2, <2>3, <2>4 DEF Inv
<1> QED BY <1>3, <1>4, <1>5, <1>6

\* A call whose body is read ends, and releases what it holds.
LEMMA ReadBodyInv ==
  ASSUME Inv, NEW c \in Calls, ReadBody(c)
  PROVE  Inv' /\ pc[c] = "body" /\ pc' = [pc EXCEPT ![c] = "ok"]
<1> USE DEF daemonVars, historyVars
<1>1. /\ pc[c] = "body" /\ Finish(c, "ok") /\ link' = link /\ link.state = "live"
      /\ UNCHANGED <<policy, authenticated, ready, attempt, got, issued, executed, challenge, sent>>
      /\ faults' \in Nat /\ excused' \in SUBSET Calls
  BY DEF ReadBody, Inv, TypesOK
<1>2. Clear(link) /\ link \in Links
  BY <1>1, OwnLink DEF Inv, LinkOK, Dropped, Served, OnWire
<1>3. "ok" \in Done
  BY DEF Done
<1> QED BY <1>1, <1>2, <1>3, FinishInv

\* A failed request leaves nothing on the connection, and is retried or ends the call.
LEMMA RequestFailsInv ==
  ASSUME Inv, NEW c \in Calls, RequestFails(c)
  PROVE  Inv' /\ \E x \in {"conn", "err"} : pc' = [pc EXCEPT ![c] = x]
<1> USE DEF daemonVars, historyVars
<1>1. /\ link' = NoLink
      /\ UNCHANGED <<policy, authenticated, ready, got, issued, faults, executed, sent, excused>>
      /\ faults \in Nat /\ excused \in SUBSET Calls
  BY DEF RequestFails, Inv, TypesOK
<1>2. link' \in Links /\ Clear(link')
  BY <1>1, EmptyLinks
<1>3. CASE authenticated /\ pc[c] = "response" /\ DropChallengeAndRetry(c)
  BY <1>1, <1>2, <1>3, DropInv
<1>4. CASE Finish(c, "err") /\ UNCHANGED <<challenge, attempt>>
  <2>1. "err" \in Done
    BY DEF Done
  <2> QED BY <1>1, <1>2, <1>4, <2>1, FinishInv
<1> QED BY <1>3, <1>4 DEF RequestFails

\* A timeout drops the call wherever it stands, with what it had sent.
LEMMA TimeoutInv ==
  ASSUME Inv, NEW c \in Calls, Timeout(c)
  PROVE  Inv' /\ pc' = [pc EXCEPT ![c] = "err"]
<1> USE DEF daemonVars
<1>1. /\ pc[c] \in Waiting \cup OnWire /\ Finish(c, "err")
      /\ UNCHANGED <<policy, authenticated, ready, attempt, got, issued, executed, challenge, sent>>
      /\ faults' \in Nat /\ excused' \in SUBSET Calls
  BY DEF Timeout, Inv, TypesOK
<1>2. "err" \in Done
  BY DEF Done
<1>3. CASE pc[c] \in Waiting
  <2>1. link' = link
    BY <1>3 DEF Timeout, Waiting
  <2>2. /\ LocksOK' /\ pc' = [pc EXCEPT ![c] = "err"]
        /\ outer' \in Calls \cup {None} /\ connection' \in Calls \cup {None}
        /\ pc' \in [Calls -> {"idle"} \cup Waiting \cup OnWire \cup Done]
    BY <1>1, <1>2, FinishLocks DEF Inv
  <2>3. \A d \in Calls : pc[d] \in {"challenge", "response", "err"} => pc'[d] = pc[d]
    BY <1>3, <2>2 DEF Inv, TypesOK, Waiting
  <2>4. issued' \in Nat /\ issued' >= issued
    BY <1>1 DEF Inv, TypesOK
  <2>5. LinkOK'
    BY <1>1, <2>1, <2>3, <2>4, LinkStays DEF Inv
  <2>6. TypesOK' /\ NoncesOK' /\ OwnResponse'
    BY <1>1, <2>2 DEF Inv, TypesOK, NoncesOK, OwnResponse
  <2> QED BY <2>2, <2>5, <2>6 DEF Inv
<1>4. CASE pc[c] \in OnWire
  <2>1. \/ link' = DeadLink
        \/ pc[c] = "body" /\ link' = link
        \/ link.state = "live" /\ link' = [link EXCEPT !.state = "left"]
        \/ link.state # "live" /\ link' = link
    BY <1>4 DEF Timeout, Abandoned, OnWire, Waiting
  <2>2. /\ LocksOK' /\ pc' = [pc EXCEPT ![c] = "err"]
        /\ outer' \in Calls \cup {None} /\ connection' \in Calls \cup {None}
        /\ pc' \in [Calls -> {"idle"} \cup Waiting \cup OnWire \cup Done]
    BY <1>1, <1>2, FinishLocks DEF Inv
  <2>3. pc'[c] = "err" /\ \A d \in Calls : pc[d] = "err" => pc'[d] = "err"
    BY <2>2 DEF Inv, TypesOK
  <2>4. LinkOK'
    <3>1. CASE link' = DeadLink
      BY <3>1, EmptyLinks DEF LinkOK, Clear
    <3>2. CASE link' = link /\ (Clear(link) \/ Dropped(link))
      BY <2>3, <3>2, DroppedStays DEF Inv, LinkOK, Clear
    <3>3. CASE link.state = "live" /\ link' = [link EXCEPT !.state = "left"]
      <4>1. /\ link' \in Links /\ link'.state = "left"
            /\ link'.requests = link.requests /\ link'.replies = link.replies
        BY <3>3 DEF Inv, LinkOK, Links
      <4>2. CASE Clear(link)
        BY <4>1, <4>2 DEF LinkOK, Clear
      <4>3. CASE ~Clear(link)
        <5>1. PICK d \in Calls : /\ pc[d] \in {"challenge", "response"}
                                 /\ Asked(link, d) \/ Replied(link, d)
          BY <3>3, <4>3 DEF Inv, LinkOK, Dropped
        <5>2. d = c
          BY <1>4, <5>1, OthersNotAsking DEF Inv, Served
        <5>3. Dropped(link)'
          BY <2>3, <4>1, <5>1, <5>2 DEF Dropped, Asked, Replied
        <5> QED BY <4>1, <5>3 DEF LinkOK
      <4> QED BY <4>2, <4>3
    <3>4. pc[c] = "body" => Clear(link) \/ Dropped(link)
      BY <1>4, OwnLink DEF Inv, Served
    <3>5. link.state # "live" => Clear(link) \/ Dropped(link)
      BY DEF Inv, LinkOK
    <3> QED BY <2>1, <3>1, <3>2, <3>3, <3>4, <3>5
  <2>5. TypesOK' /\ NoncesOK' /\ OwnResponse'
    BY <1>1, <2>2 DEF Inv, TypesOK, NoncesOK, OwnResponse
  <2> QED BY <2>2, <2>4, <2>5 DEF Inv
<1> QED BY <1>1, <1>3, <1>4

\* No call is made on a transport that is not there.
NotYet == ready # "ready" => \A c \in Calls : pc[c] = "idle"

\* Calls are made once the constructor has returned.
LEMMA NotYetHolds ==
  ASSUME TypesOK, NotYet, [Next]_vars
  PROVE  NotYet'
<1>1. CASE WithCustomTimeout
  BY <1>1 DEF WithCustomTimeout, NotYet
<1>2. CASE DaemonAnswers
  BY <1>2 DEF DaemonAnswers, NotYet
<1>3. CASE ConnectionDies \/ DiscardReply
  BY <1>3 DEF ConnectionDies, DiscardReply, NotYet
<1>4. ASSUME NEW c \in Calls, Post(c) \/ CallStep(c) \/ Timeout(c)
      PROVE  NotYet'
  <2>1. UNCHANGED ready /\ (ready = "ready" \/ pc[c] # "idle")
    BY <1>4 DEF Post, CallStep, LockOuter, LockConnection, ChallengeReply, ResponseHeaders,
                ReadBody, RequestFails, Timeout, Hears, Waiting, OnWire
  <2> QED BY <2>1 DEF NotYet
<1>5. CASE UNCHANGED vars
  BY <1>5 DEF NotYet, vars
<1> QED BY <1>1, <1>2, <1>3, <1>4, <1>5 DEF Next, Terminated

\* What is about the variables alone holds while they are unchanged.
LEMMA StutterInv ==
  ASSUME Inv, UNCHANGED vars
  PROVE  Inv'
<1> USE DEF vars
<1>1. TypesOK' /\ LocksOK' /\ NoncesOK' /\ OwnResponse'
  BY DEF Inv, TypesOK, LocksOK, NoncesOK, OwnResponse
<1>2. LinkOK'
  <2>1. issued' \in Nat /\ issued' >= issued
    BY DEF Inv, TypesOK
  <2> QED BY <2>1, LinkStays DEF Inv
<1> QED BY <1>1, <1>2 DEF Inv

\* Every step of the calls, the daemon and the network keeps the invariant.
LEMMA NextInv ==
  ASSUME Inv, NotYet, [Next]_vars
  PROVE  Inv'
<1>1. CASE WithCustomTimeout
  BY <1>1, WithCustomTimeoutInv DEF WithCustomTimeout, NotYet
<1>2. CASE DaemonAnswers
  BY <1>2, DaemonAnswersInv
<1>3. CASE ConnectionDies \/ DiscardReply
  BY <1>3, ConnectionDiesInv, DiscardReplyInv
<1>4. ASSUME NEW c \in Calls, Post(c) \/ CallStep(c) \/ Timeout(c)
      PROVE  Inv'
  BY <1>4, PostInv, LockOuterInv, LockConnectionInv, ChallengeReplyInv, ResponseHeadersInv,
     ReadBodyInv, RequestFailsInv, TimeoutInv DEF CallStep
<1>5. CASE UNCHANGED vars
  BY <1>5, StutterInv
<1> QED BY <1>1, <1>2, <1>3, <1>4, <1>5 DEF Next, Terminated
\* Inv and NotYet are inductive.
LEMMA Invariance == Spec => [](Inv /\ NotYet)
<1>1. Init => Inv /\ NotYet
  BY InitInv DEF Init, NotYet
<1>2. Inv /\ NotYet /\ [Next]_vars => (Inv /\ NotYet)'
  BY NextInv, NotYetHolds DEF Inv
<1> QED BY <1>1, <1>2, PTL DEF Spec

---------------------------------------------------------------------------------
(* The theorems. *)

\* Every variable keeps its type: the loop never makes a third attempt, and the connection's queues
\* hold requests and replies of calls.
THEOREM TypeCorrect == Spec => []TypeOK
<1>1. Inv => TypeOK
  BY DEF Inv, TypesOK, LinkOK, TypeOK
<1> QED BY <1>1, Invariance, PTL

\* For any number of calls, read_response_before_next_request keeps all but one out, through
\* timeouts, retries and failures, and the connection's mutex is held by the call it let in.
THEOREM OneCallAtATimeHolds == Spec => []OneCallAtATime
<1>1. Inv => OneCallAtATime
  BY DEF Inv, TypesOK, LocksOK, OneCallAtATime, Served, OnWire
<1> QED BY <1>1, Invariance, PTL

\* For any number of calls and faults, inner_post's two mutexes deadlock no one: while calls wait, one
\* of them can go on or the holder is with the daemon, its first attempt having let go of the second
\* mutex before it waits for it again.
THEOREM NeverDeadlockedHolds == Spec => []NeverDeadlocked
<1>1. Inv => NeverDeadlocked
  <2> SUFFICES ASSUME Inv, NEW c \in Calls, pc[c] \in Waiting
               PROVE  \E d \in Calls : \/ pc[d] = "lock" /\ outer = None
                                       \/ pc[d] = "conn" /\ connection = None
                                       \/ pc[d] \in OnWire
    BY DEF NeverDeadlocked
  <2>1. CASE outer = None
    <3>1. pc[c] = "lock"
      BY <2>1, NoneAssumption DEF Inv, LocksOK, Served, Waiting
    <3> QED BY <2>1, <3>1
  <2>2. CASE outer # None
    <3>1. PICK d \in Calls : outer = d /\ pc[d] \in Served
      BY <2>2 DEF Inv, TypesOK, LocksOK
    <3>2. CASE pc[d] \in OnWire
      BY <3>2
    <3>3. CASE pc[d] = "conn"
      <4>1. \A e \in Calls : pc[e] \notin OnWire
        BY <3>1, <3>3 DEF Inv, LocksOK, Served, OnWire
      <4>2. connection = None
        BY <4>1 DEF Inv, TypesOK, LocksOK
      <4> QED BY <3>3, <4>2
    <3> QED BY <3>1, <3>2, <3>3 DEF Served
  <2> QED BY <2>1, <2>2
<1> QED BY <1>1, Invariance, PTL

\* For any number of calls and faults, no call is handed the response to another call's request.
THEOREM OwnResponseHolds == Spec => []OwnResponse
<1>1. Inv => OwnResponse
  BY DEF Inv
<1> QED BY <1>1, Invariance, PTL

\* For any number of calls and faults, inner_post never sends the same answer to a challenge twice.
THEOREM NoReplayHolds == Spec => NoReplay
<1> DEFINE Fresh == \A c \in Calls :
                      /\ pc[c] \in {"conn", "challenge"} /\ pc'[c] = "response"
                      /\ challenge' # None
                      => <<challenge'.nonce, challenge'.cnonce>> \notin sent
<1>1. Inv /\ NotYet /\ [Next]_vars => [Fresh]_vars
  <2> SUFFICES ASSUME Inv, [Next]_vars, NEW c \in Calls,
                      pc[c] \in {"conn", "challenge"}, pc'[c] = "response", challenge' # None
               PROVE  <<challenge'.nonce, challenge'.cnonce>> \notin sent
    OBVIOUS
  <2>1. pc \in [Calls -> {"idle"} \cup Waiting \cup OnWire \cup Done]
    BY DEF Inv, TypesOK
  <2>2. ASSUME NEW d \in Calls, NEW x, pc' = [pc EXCEPT ![d] = x]
        PROVE  d = c /\ x = "response"
    BY <2>1, <2>2
  <2>3. ASSUME NEW d \in Calls, Post(d) \/ CallStep(d) \/ Timeout(d)
        PROVE  <<challenge'.nonce, challenge'.cnonce>> \notin sent
    <3>1. CASE Post(d)
      BY <2>2, <3>1 DEF Post
    <3>2. CASE LockOuter(d)
      BY <2>2, <3>2 DEF LockOuter
    <3>3. CASE LockConnection(d) \/ ChallengeReply(d)
      <4>1. d = c
        <5>1. (pc[d] \in {"conn", "challenge"} /\ d = c) \/ pc'[c] = pc[c]
          BY <2>1, <3>3 DEF LockConnection, ChallengeReply, SendRequest, Await, Finish, Hears
        <5> QED BY <5>1
      <4> QED BY <3>3, <4>1, LockConnectionInv, ChallengeReplyInv
    <3>4. CASE ResponseHeaders(d)
      BY <2>2, <3>4, ResponseHeadersInv
    <3>5. CASE ReadBody(d)
      BY <2>2, <3>5, ReadBodyInv
    <3>6. CASE RequestFails(d)
      BY <2>2, <3>6, RequestFailsInv
    <3>7. CASE Timeout(d)
      BY <2>2, <3>7, TimeoutInv
    <3> QED BY <2>3, <3>1, <3>2, <3>3, <3>4, <3>5, <3>6, <3>7 DEF CallStep
  <2>4. CASE WithCustomTimeout \/ DaemonAnswers \/ ConnectionDies \/ DiscardReply \/ UNCHANGED vars
    <3>1. pc' = pc
      BY <2>4 DEF WithCustomTimeout, DaemonAnswers, ConnectionDies, DiscardReply, vars
    <3> QED BY <3>1
  <2> QED BY <2>3, <2>4 DEF Next, Terminated
<1>2. Spec => [][Fresh]_vars
  BY <1>1, Invariance, PTL DEF Spec
<1> QED BY <1>2 DEF NoReplay

---------------------------------------------------------------------------------
(* Refinement: the transport serves its calls one at a time. *)

Phase == [c \in Calls |-> PhaseOf(c)]

\* A step of one call moves its phase and no other.
LEMMA PhaseMoves ==
  ASSUME TypesOK, NEW c \in Calls, NEW x, pc' = [pc EXCEPT ![c] = x]
  PROVE  Phase' = [Phase EXCEPT ![c] = CASE x = "lock" -> "waiting"
                                         [] x \in {"conn"} \cup OnWire -> "serving"
                                         [] OTHER -> x]
<1>1. pc'[c] = x /\ \A d \in Calls : d # c => pc'[d] = pc[d]
  BY DEF TypesOK
<1>2. \A d \in Calls : d # c => PhaseOf(d)' = PhaseOf(d)
  BY <1>1 DEF PhaseOf
<1>3. PhaseOf(c)' = CASE x = "lock" -> "waiting"
                      [] x \in {"conn"} \cup OnWire -> "serving"
                      [] OTHER -> x
  BY <1>1 DEF PhaseOf
<1> QED BY <1>2, <1>3 DEF Phase

\* To its caller, a call is served while it is the one past the mutex.
LEMMA PhaseServing ==
  ASSUME TypesOK, LocksOK, NEW c \in Calls
  PROVE  /\ Phase[c] = "serving" <=> pc[c] \in Served
         /\ pc[c] \in Served <=> outer = c
         /\ pc[c] = "lock" => Phase[c] = "waiting"
         /\ pc[c] = "idle" => Phase[c] = "idle"
<1>1. pc[c] \in {"idle"} \cup Waiting \cup OnWire \cup Done
  BY DEF TypesOK
<1> QED BY <1>1 DEF Phase, PhaseOf, Served, LocksOK, Waiting, OnWire, Done

\* Every step is one of SerialCalls, or none to the callers.
LEMMA StepRefines ==
  ASSUME Inv, [Next]_vars
  PROVE  [Abstract!Next]_Phase
<1> USE DEF Abstract!Next, Abstract!Call, Abstract!Serve, Abstract!Answer, Abstract!Fail, Abstract!Move
<1>0. TypesOK /\ LocksOK
  BY DEF Inv
<1>1. ASSUME NEW c \in Calls, pc[c] \in Served, NEW x \in Served, pc' = [pc EXCEPT ![c] = x]
      PROVE  Phase' = Phase
  <2>1. Phase' = [Phase EXCEPT ![c] = "serving"]
    BY <1>0, <1>1, PhaseMoves DEF Served, OnWire
  <2>2. Phase[c] = "serving"
    BY <1>0, <1>1, PhaseServing
  <2> QED BY <2>1, <2>2 DEF Phase
<1>2. ASSUME NEW c \in Calls, pc[c] \in Served \cup {"lock"}, pc' = [pc EXCEPT ![c] = "err"]
      PROVE  Phase' = [Phase EXCEPT ![c] = "err"] /\ Phase[c] \in {"waiting", "serving"}
  BY <1>0, <1>2, PhaseMoves, PhaseServing DEF OnWire
<1>3. CASE UNCHANGED pc
  <2>1. \A c \in Calls : PhaseOf(c)' = PhaseOf(c)
    BY <1>3 DEF PhaseOf
  <2> QED BY <2>1 DEF Phase
<1>4. ASSUME NEW c \in Calls, Post(c) \/ CallStep(c) \/ Timeout(c)
      PROVE  [Abstract!Next]_Phase
  <2>1. CASE Post(c)
    <3>1. pc[c] = "idle" /\ pc' = [pc EXCEPT ![c] = "lock"]
      BY <2>1 DEF Post
    <3>2. Phase' = [Phase EXCEPT ![c] = "waiting"] /\ Phase[c] = "idle"
      BY <1>0, <3>1, PhaseMoves, PhaseServing DEF OnWire
    <3> QED BY <3>2 DEF Phase
  <2>2. CASE LockOuter(c)
    <3>1. pc[c] = "lock" /\ outer = None /\ \E x \in Served : pc' = [pc EXCEPT ![c] = x]
      BY <2>2 DEF LockOuter, OuterUnlocked, Served, OnWire
    <3>2. Phase' = [Phase EXCEPT ![c] = "serving"] /\ Phase[c] = "waiting"
      BY <1>0, <3>1, PhaseMoves, PhaseServing DEF Served, OnWire
    <3>3. \A d \in Calls : Phase[d] # "serving"
      BY <1>0, <3>1, PhaseServing, NoneAssumption
    <3> QED BY <3>2, <3>3 DEF Phase
  <2>3. CASE LockConnection(c) \/ ChallengeReply(c)
    <3>1. pc[c] \in Served
      BY <2>3 DEF LockConnection, ChallengeReply, Hears, Served, OnWire
    <3>2. \E x \in {"challenge", "response", "err"} : pc' = [pc EXCEPT ![c] = x]
      BY <2>3 DEF LockConnection, ChallengeReply, SendRequest, Await, Finish
    <3> QED BY <1>1, <1>2, <3>1, <3>2 DEF Phase, Served, OnWire
  <2>4. CASE ResponseHeaders(c) \/ RequestFails(c)
    <3>1. pc[c] \in Served
      BY <2>4 DEF ResponseHeaders, RequestFails, Hears, Served, OnWire
    <3>2. \E x \in {"conn", "body", "err"} : pc' = [pc EXCEPT ![c] = x]
      BY <2>4, ResponseHeadersInv, RequestFailsInv
    <3> QED BY <1>1, <1>2, <3>1, <3>2 DEF Phase, Served, OnWire
  <2>5. CASE ReadBody(c)
    <3>1. pc[c] = "body" /\ pc' = [pc EXCEPT ![c] = "ok"]
      BY <2>5, ReadBodyInv
    <3>2. Phase' = [Phase EXCEPT ![c] = "ok"] /\ Phase[c] = "serving"
      BY <1>0, <3>1, PhaseMoves, PhaseServing DEF Served, OnWire
    <3> QED BY <3>2 DEF Phase
  <2>6. CASE Timeout(c)
    <3>1. pc[c] \in Served \cup {"lock"} /\ pc' = [pc EXCEPT ![c] = "err"]
      BY <2>6, TimeoutInv DEF Timeout, Waiting, Served
    <3> QED BY <1>2, <3>1 DEF Phase
  <2> QED BY <1>4, <2>1, <2>2, <2>3, <2>4, <2>5, <2>6 DEF CallStep
<1>5. CASE WithCustomTimeout \/ DaemonAnswers \/ ConnectionDies \/ DiscardReply \/ UNCHANGED vars
  BY <1>3, <1>5 DEF WithCustomTimeout, DaemonAnswers, ConnectionDies, DiscardReply, vars
<1> QED BY <1>4, <1>5 DEF Next, Terminated

\* The transport implements SerialCalls: to their callers, the calls of all its clones are served
\* one at a time and end once, however the daemon and the network behave.
THEOREM Refinement == Spec => ServesCallsSerially
<1>1. Init => Abstract!Init
  BY DEF Init, Abstract!Init, PhaseOf, OnWire
<1>2. Inv /\ [Next]_vars => [Abstract!Next]_Phase
  BY StepRefines
<1>3. Spec => [][Abstract!Next]_Phase
  BY <1>2, Invariance, PTL DEF Spec
<1>4. Spec => Abstract!Init
  BY <1>1 DEF Spec
<1> QED BY <1>3, <1>4, PTL DEF ServesCallsSerially, Abstract!Spec, Phase

---------------------------------------------------------------------------------
(* How often the daemon runs a request. *)

\* How often the daemon may have run what a call has sent so far: an attempt sends a request for a
\* challenge, which only a daemon without authentication runs, and the request itself.
Allowed(c) ==
  IF policy = "deny" \/ pc[c] \in {"idle", "lock"} THEN 0
  ELSE IF ~authenticated THEN IF policy = "auth" THEN 0 ELSE 1
  ELSE IF policy = "auth" THEN attempt[c] + (IF pc[c] \in {"conn", "challenge"} THEN 0 ELSE 1)
  ELSE 2 * attempt[c] + (IF pc[c] = "conn" THEN 0 ELSE IF pc[c] = "challenge" THEN 1 ELSE 2)

\* A request of the call is on the connection, which the daemon may still run.
MayRun(c) ==
  /\ policy # "deny" /\ link.requests # <<>>
  /\ Head(link.requests).call = c /\ (policy = "auth" => Head(link.requests).nonce # 0)

RunsOK == \A c \in Calls : executed[c] <= Allowed(c) /\ (MayRun(c) => executed[c] < Allowed(c))

\* The connection after sending on a clear one: the request is on it, unless the peer had closed it.
LEMMA SentOn ==
  ASSUME NEW l \in Links, Clear(l), NEW r \in Requests
  PROVE  /\ Sent(l, r).replies = <<>>
         /\ Sent(l, r).requests # <<>> => Sent(l, r).requests = <<r>>
         /\ l.state \in {"none", "live"} => Sent(l, r).state = "live"
         /\ l.state = "live" => Sent(l, r).nonce = l.nonce /\ Sent(l, r).used = l.used
<1> USE DEF Links
<1>1. CASE l.state = "none"
  <2>1. Sent(l, r) = [state |-> "live", requests |-> <<r>>, replies |-> <<>>, nonce |-> 0, used |-> {}]
    BY <1>1 DEF Sent, NewLink, EmptyLink
  <2> QED BY <1>1, <2>1
<1>2. CASE l.state = "live"
  <2>1. Append(l.requests, r) = <<r>>
    BY DEF Clear
  <2>2. Sent(l, r) = [l EXCEPT !.requests = <<r>>]
    BY <1>2, <2>1 DEF Sent
  <2> QED BY <1>2, <2>2 DEF Clear
<1>3. CASE l.state \in {"left", "dead"}
  <2>1. Sent(l, r) = l
    BY <1>3 DEF Sent
  <2> QED BY <1>3, <2>1 DEF Clear
<1> QED BY <1>1, <1>2, <1>3

\* What the daemon answers: the one request on the connection, whose reply takes its place.
LEMMA DaemonServes ==
  ASSUME Inv, DaemonAnswers
  PROVE  \E r \in Requests :
           /\ r = Head(link.requests) /\ link.requests = <<r>> /\ link.replies = <<>>
           /\ r.call \in Calls
           /\ \/ link.state = "live" /\ pc[r.call] \in {"challenge", "response"}
              \/ link.state = "left" /\ pc[r.call] = "err"
           /\ DaemonRuns(r) \/ DaemonRefuses(r)
           /\ \A reply \in Replies : Serve(r, reply) =>
                /\ link'.state = link.state /\ link'.requests = <<>> /\ link'.replies = <<reply>>
                /\ reply.nonce # 0 => link'.nonce = reply.nonce /\ link'.used = {}
<1>1. /\ link.state \in {"live", "left"} /\ link.requests # <<>>
      /\ DaemonRuns(Head(link.requests)) \/ DaemonRefuses(Head(link.requests))
  BY DEF DaemonAnswers
<1>2. PICK c \in Calls :
        /\ \/ link.state = "live" /\ pc[c] \in {"challenge", "response"}
           \/ link.state = "left" /\ pc[c] = "err"
        /\ Asked(link, c)
  BY <1>1 DEF Inv, LinkOK, Clear, Dropped, Replied
<1>3. PICK r \in Requests : r.call = c /\ link.requests = <<r>> /\ link.replies = <<>>
  BY <1>2 DEF Asked
<1>4. Head(link.requests) = r /\ Tail(link.requests) = <<>>
  BY <1>3
<1>5. ASSUME NEW reply \in Replies, Serve(r, reply)
      PROVE  /\ link'.state = link.state /\ link'.requests = <<>> /\ link'.replies = <<reply>>
             /\ reply.nonce # 0 => link'.nonce = reply.nonce /\ link'.used = {}
  <2>1. Append(link.replies, reply) = <<reply>>
    BY <1>3, <1>5
  <2> DEFINE nonce == IF reply.nonce = 0 THEN link.nonce ELSE reply.nonce
             used == IF reply.nonce = 0 THEN link.used \cup {r.cnonce} ELSE {}
  <2>2. link' = [link EXCEPT !.requests = <<>>, !.replies = <<reply>>, !.nonce = nonce, !.used = used]
    BY <1>4, <1>5, <2>1 DEF Serve
  <2>3. reply.nonce # 0 => nonce = reply.nonce /\ used = {}
    OBVIOUS
  <2> HIDE DEF nonce, used
  <2>4. link \in Links
    BY DEF Inv, LinkOK
  <2> QED BY <1>1, <2>2, <2>3, <2>4 DEF Links
<1> QED BY <1>1, <1>2, <1>3, <1>4, <1>5

\* Where a call goes within an attempt.
Onward(c, x) ==
  \/ x \in {"response", "body", "ok", "err"}
  \/ pc[c] = "conn" /\ x = "challenge"
  \/ pc[c] \in {"idle", "lock"}

\* A call moves on, or goes back for its second attempt: its allowance never shrinks.
LEMMA AllowedGrows ==
  ASSUME TypesOK, TypesOK', NEW c \in Calls, NEW x, pc' = [pc EXCEPT ![c] = x],
         UNCHANGED <<policy, authenticated>>,
         \/ UNCHANGED attempt /\ Onward(c, x)
         \/ /\ pc[c] = "response" /\ x = "conn" /\ authenticated
            /\ attempt[c] = 0 /\ attempt' = [attempt EXCEPT ![c] = @ + 1],
         NEW d \in Calls
  PROVE  Allowed(d)' >= Allowed(d) /\ Allowed(d)' \in Nat /\ Allowed(d) \in Nat
<1>1. /\ attempt[d] \in 0 .. 1 /\ attempt'[d] \in 0 .. 1
      /\ pc[d] \in {"idle", "lock", "conn", "challenge", "response", "body", "ok", "err"}
  BY DEF TypesOK, Waiting, OnWire, Done
<1>2. CASE d # c
  <2>1. pc'[d] = pc[d] /\ attempt'[d] = attempt[d]
    BY <1>2 DEF TypesOK
  <2> QED BY <1>1, <2>1 DEF Allowed
<1>3. CASE d = c
  <2>1. pc'[d] = x
    BY <1>3 DEF TypesOK
  <2>2. CASE UNCHANGED attempt /\ Onward(c, x)
    <3>1. attempt'[d] = attempt[d] /\ attempt[d] \in 0 .. 1
      BY <1>1, <2>2
    <3>2. CASE pc[d] \in {"idle", "lock"}
      <4>1. Allowed(d) = 0 /\ Allowed(d)' \in Nat
        BY <3>1, <3>2 DEF Allowed
      <4> QED BY <4>1
    <3>3. CASE x \in {"response", "body", "ok", "err"} /\ pc[d] \notin {"idle", "lock"}
      <4>1. PICK a \in 0 .. 1 : attempt[d] = a /\ attempt'[d] = a
        BY <3>1
      <4>2. pc'[d] \notin {"idle", "lock", "conn", "challenge"}
        BY <2>1, <3>3
      <4>3. CASE policy = "deny" \/ ~authenticated
        BY <3>3, <4>2, <4>3 DEF Allowed
      <4>4. CASE policy = "auth" /\ authenticated
        BY <3>3, <4>1, <4>2, <4>4 DEF Allowed
      <4>5. CASE policy \notin {"deny", "auth"} /\ authenticated
        BY <3>3, <4>1, <4>2, <4>5 DEF Allowed
      <4> QED BY <4>3, <4>4, <4>5
    <3>4. CASE pc[d] = "conn" /\ x = "challenge"
      BY <2>1, <3>1, <3>4 DEF Allowed
    <3> QED BY <1>3, <2>2, <3>2, <3>3, <3>4 DEF Onward
  <2>3. CASE /\ pc[c] = "response" /\ x = "conn" /\ authenticated
             /\ attempt[c] = 0 /\ attempt' = [attempt EXCEPT ![c] = @ + 1]
    <3>1. attempt[d] = 0 /\ attempt'[d] = 1
      BY <1>3, <2>3 DEF TypesOK
    <3> QED BY <1>3, <2>1, <2>3, <3>1 DEF Allowed
  <2> QED BY <2>2, <2>3
<1> QED BY <1>2, <1>3

\* A call moves on, and what it may have on the connection is still allowed.
LEMMA RunsMove ==
  ASSUME Inv, Inv', RunsOK, NEW c \in Calls, NEW x, pc' = [pc EXCEPT ![c] = x],
         UNCHANGED <<policy, authenticated, executed>>,
         \/ UNCHANGED attempt /\ Onward(c, x)
         \/ /\ pc[c] = "response" /\ x = "conn" /\ authenticated
            /\ attempt[c] = 0 /\ attempt' = [attempt EXCEPT ![c] = @ + 1],
         \A d \in Calls : MayRun(d)' => MayRun(d) \/ (d = c /\ Allowed(c)' > Allowed(c))
  PROVE  RunsOK'
<1>1. ASSUME NEW d \in Calls
      PROVE  executed[d] <= Allowed(d)' /\ (MayRun(d)' => executed[d] < Allowed(d)')
  <2>1. Allowed(d)' >= Allowed(d) /\ Allowed(d)' \in Nat /\ Allowed(d) \in Nat
    BY AllowedGrows DEF Inv
  <2>2. executed[d] \in Nat /\ executed[d] <= Allowed(d) /\ (MayRun(d) => executed[d] < Allowed(d))
    BY DEF RunsOK, Inv, TypesOK
  <2> QED BY <2>1, <2>2
<1> QED BY <1>1 DEF RunsOK

\* Nothing on the connection may be run.
LEMMA ClearMayNotRun ==
  ASSUME Clear(link'), NEW d
  PROVE  ~MayRun(d)'
  BY DEF Clear, MayRun

\* A call sends a request on a free connection: one which its allowance has grown for, or which the
\* daemon will not run. What a dropped call left there stays.
LEMMA SentMayRun ==
  ASSUME NEW l \in Links, Clear(l) \/ (l = link /\ Dropped(link)), NEW r \in Requests, link' = Sent(l, r),
         NEW d, MayRun(d)', UNCHANGED policy
  PROVE  MayRun(d) \/ (d = r.call /\ policy' # "deny" /\ (policy' = "auth" => r.nonce # 0))
<1>0. CASE l = link /\ Dropped(link)
  BY <1>0, NotSent DEF MayRun
<1> SUFFICES ASSUME Clear(l)
             PROVE  d = r.call /\ policy' # "deny" /\ (policy' = "auth" => r.nonce # 0)
  BY <1>0
<1>1. link'.requests = <<r>>
  BY SentOn DEF MayRun
<1>2. Head(link'.requests) = r
  BY <1>1
<1> QED BY <1>2 DEF MayRun

\* With its first request the daemon may run more than before it; likewise with that for a challenge,
\* if it asks for none.
LEMMA AllowedMore ==
  ASSUME TypesOK, TypesOK', NEW c \in Calls, NEW x, pc' = [pc EXCEPT ![c] = x],
         UNCHANGED <<policy, authenticated, attempt>>, policy # "deny",
         \/ pc[c] = "lock" /\ x = "response" /\ (authenticated \/ policy # "auth")
         \/ authenticated /\ pc[c] \in {"conn", "challenge"} /\ x = "response"
         \/ authenticated /\ pc[c] = "conn" /\ x = "challenge" /\ policy # "auth"
  PROVE  Allowed(c)' > Allowed(c)
<1>1. PICK a \in 0 .. 1 : attempt[c] = a /\ attempt'[c] = a
  BY DEF TypesOK
<1>2. pc'[c] = x
  BY DEF TypesOK
<1>3. CASE policy = "auth"
  BY <1>1, <1>2, <1>3 DEF Allowed
<1>4. CASE policy # "auth"
  BY <1>1, <1>2, <1>4 DEF Allowed
<1> QED BY <1>3, <1>4

\* A request is sent for a challenge ch, or the call ends for want of a usable one.
LEMMA SendRequestRuns ==
  ASSUME Inv, Inv', RunsOK, NEW c \in Calls, pc[c] \in {"conn", "challenge"}, authenticated,
         NEW l \in Links, Clear(l) \/ (l = link /\ Dropped(link)),
         NEW ch \in Challenges \cup {None}, SendRequest(c, l, ch),
         UNCHANGED <<policy, authenticated, attempt, executed>>
  PROVE  RunsOK'
<1>1. CASE ch # None /\ ~ch.usable
  <2>1. pc' = [pc EXCEPT ![c] = "err"] /\ link' = l
    BY <1>1 DEF SendRequest, Finish
  <2>2. \A d \in Calls : MayRun(d)' => MayRun(d)
    BY <2>1, ClearMayNotRun DEF MayRun
  <2> QED BY <2>1, <2>2, RunsMove DEF Onward
<1>2. CASE ~(ch # None /\ ~ch.usable)
  <2>1. PICK r \in Requests : r.call = c /\ link' = Sent(l, r) /\ pc' = [pc EXCEPT ![c] = "response"]
    <3>1. CASE ch = None
      <4>1. Request(c, 0, 0) \in Requests /\ Request(c, 0, 0).call = c
        BY DEF Request, Requests
      <4> QED BY <3>1, <4>1 DEF SendRequest, Await
    <3>2. CASE ch # None
      <4> DEFINE n == NextCnonce(ch).cnonce
      <4>1. ch \in Challenges /\ n \in Nat
        BY <3>2 DEF Challenges, NextCnonce
      <4>2. link' = Sent(l, Request(c, ch.nonce, n)) /\ pc' = [pc EXCEPT ![c] = "response"]
        BY <1>2, <3>2 DEF SendRequest, Await
      <4> HIDE DEF n
      <4>3. Request(c, ch.nonce, n) \in Requests /\ Request(c, ch.nonce, n).call = c
        BY <4>1 DEF Request, Requests, Challenges
      <4> QED BY <4>2, <4>3
    <3> QED BY <3>1, <3>2
  <2>2. ASSUME NEW d \in Calls, MayRun(d)' PROVE MayRun(d) \/ (d = c /\ Allowed(c)' > Allowed(c))
    <3>1. MayRun(d) \/ (d = c /\ policy # "deny")
      BY <2>1, <2>2, SentMayRun
    <3> QED BY <2>1, <3>1, AllowedMore DEF Inv
  <2> QED BY <2>1, <2>2, RunsMove DEF Onward
<1> QED BY <1>1, <1>2

\* The daemon runs what it was allowed to, and the request is gone.
LEMMA DaemonAnswersRuns ==
  ASSUME Inv, RunsOK, DaemonAnswers
  PROVE  RunsOK'
<1>1. PICK r \in Requests :
        /\ r = Head(link.requests) /\ link.requests = <<r>> /\ r.call \in Calls
        /\ DaemonRuns(r) \/ DaemonRefuses(r)
        /\ \A reply \in Replies : Serve(r, reply) => link'.requests = <<>>
  BY DaemonServes
<1>2. UNCHANGED <<policy, authenticated, pc, attempt>>
  BY DEF DaemonAnswers
<1>3. \A d \in Calls : Allowed(d)' = Allowed(d)
  BY <1>2 DEF Allowed
<1>4. link'.requests = <<>>
  <2>1. CASE DaemonRuns(r)
    <3>1. Answer(r, "ok", "none", 0) \in Replies
      BY <1>1 DEF Answer, Replies, Headers
    <3> QED BY <1>1, <2>1, <3>1 DEF DaemonRuns
  <2>2. CASE DaemonRefuses(r)
    <3>1. PICK header \in Headers : Serve(r, Answer(r, "unauthorized", header, issued + 1))
      BY <2>2 DEF DaemonRefuses, Headers
    <3>2. Answer(r, "unauthorized", header, issued + 1) \in Replies
      BY <1>1 DEF Answer, Replies, Inv, TypesOK
    <3> QED BY <1>1, <3>1, <3>2
  <2> QED BY <1>1, <2>1, <2>2
<1>5. \A d \in Calls : ~MayRun(d)'
  BY <1>4 DEF MayRun
<1>6. ASSUME NEW d \in Calls PROVE executed'[d] <= Allowed(d)
  <2>1. executed[d] \in Nat /\ executed[d] <= Allowed(d) /\ (MayRun(d) => executed[d] < Allowed(d))
    BY DEF RunsOK, Inv, TypesOK
  <2>2. Allowed(d) \in Nat
    BY DEF Allowed, Inv, TypesOK
  <2>3. CASE DaemonRuns(r) /\ d = r.call
    <3>1. MayRun(d)
      BY <1>1, <2>3 DEF DaemonRuns, Accepts, MayRun
    <3>2. executed'[d] = executed[d] + 1
      BY <2>3 DEF DaemonRuns, Inv, TypesOK
    <3> QED BY <2>1, <2>2, <3>1, <3>2
  <2>4. CASE ~(DaemonRuns(r) /\ d = r.call)
    <3>1. executed'[d] = executed[d]
      BY <1>1, <2>4 DEF DaemonRuns, DaemonRefuses, Inv, TypesOK
    <3> QED BY <2>1, <3>1
  <2> QED BY <2>3, <2>4
<1> QED BY <1>2, <1>3, <1>5, <1>6 DEF RunsOK

\* Every step stays within what a call is allowed.
LEMMA NextRuns ==
  ASSUME Inv, Inv', NotYet, RunsOK, [Next]_vars
  PROVE  RunsOK'
<1> USE DEF lockVars, daemonVars, historyVars
<1>0. TypesOK /\ TypesOK'
  BY DEF Inv
<1>1. ASSUME UNCHANGED <<policy, authenticated, pc, attempt, executed>>,
             \A d \in Calls : MayRun(d)' => MayRun(d)
      PROVE  RunsOK'
  <2>1. \A d \in Calls : Allowed(d)' = Allowed(d)
    BY <1>1 DEF Allowed
  <2> QED BY <1>1, <2>1 DEF RunsOK
<1>2. CASE WithCustomTimeout
  <2>1. UNCHANGED <<policy, authenticated, pc, attempt, executed>> /\ \A c \in Calls : pc[c] = "idle"
    BY <1>2 DEF WithCustomTimeout, NotYet
  <2>2. CASE link' = link
    BY <1>1, <2>1, <2>2 DEF MayRun
  <2>3. CASE link' # link
    <3>1. link'.requests = <<>>
      BY <1>2, <2>3 DEF WithCustomTimeout, NoLink, NewLink, DeadLink, EmptyLink
    <3> QED BY <1>1, <2>1, <3>1 DEF MayRun
  <2> QED BY <2>2, <2>3
<1>3. CASE DaemonAnswers
  BY <1>3, DaemonAnswersRuns
<1>4. CASE ConnectionDies \/ DiscardReply
  <2>1. UNCHANGED <<policy, authenticated, pc, attempt, executed>> /\ Clear(link')
    BY <1>4, EmptyLinks, DiscardReplyInv DEF ConnectionDies, DiscardReply
  <2> QED BY <1>1, <2>1, ClearMayNotRun
<1>5. ASSUME NEW c \in Calls, Post(c) \/ CallStep(c) \/ Timeout(c)
      PROVE  RunsOK'
  <2>0. UNCHANGED <<policy, authenticated, executed>>
    BY <1>5 DEF Post, CallStep, LockOuter, LockConnection, ChallengeReply, ResponseHeaders,
                ReadBody, RequestFails, Timeout
  <2>1. CASE Post(c)
    <3>1. pc[c] = "idle" /\ pc' = [pc EXCEPT ![c] = "lock"] /\ UNCHANGED <<attempt, link>>
      BY <2>1 DEF Post
    <3>2. \A d \in Calls : MayRun(d)' => MayRun(d)
      BY <2>0, <3>1 DEF MayRun
    <3> QED BY <2>0, <3>1, <3>2, RunsMove DEF Onward
  <2>2. CASE LockOuter(c)
    <3>1. pc[c] = "lock" /\ outer = None /\ UNCHANGED attempt
      BY <2>2 DEF LockOuter, OuterUnlocked
    <3>2. (Clear(link) \/ Dropped(link)) /\ link \in Links
      BY <3>1, NoneAssumption DEF Inv, LocksOK, LinkOK, Served, OnWire
    <3>3. CASE authenticated
      <4>1. pc' = [pc EXCEPT ![c] = "conn"] /\ UNCHANGED link
        BY <2>2, <3>3 DEF LockOuter
      <4>2. \A d \in Calls : MayRun(d)' => MayRun(d)
        BY <2>0, <4>1 DEF MayRun
      <4> QED BY <2>0, <3>1, <4>1, <4>2, RunsMove DEF Onward
    <3>4. CASE ~authenticated
      <4>1. pc' = [pc EXCEPT ![c] = "response"] /\ link' = Sent(link, Request(c, 0, 0))
        BY <2>2, <3>4 DEF LockOuter
      <4>2. Request(c, 0, 0) \in Requests /\ Request(c, 0, 0).call = c /\ Request(c, 0, 0).nonce = 0
        BY DEF Request, Requests
      <4>3. ASSUME NEW d \in Calls, MayRun(d)' PROVE MayRun(d) \/ (d = c /\ Allowed(c)' > Allowed(c))
        <5>1. MayRun(d) \/ (d = c /\ policy # "deny" /\ policy # "auth")
          BY <2>0, <3>2, <4>1, <4>2, <4>3, SentMayRun
        <5> QED BY <1>0, <2>0, <3>1, <4>1, <5>1, AllowedMore
      <4> QED BY <2>0, <3>1, <4>1, <4>3, RunsMove DEF Onward
    <3> QED BY <1>0, <3>3, <3>4 DEF TypesOK
  <2>3. CASE LockConnection(c)
    <3>1. pc[c] = "conn" /\ UNCHANGED attempt
      BY <2>3 DEF LockConnection
    <3>2. (Clear(link) \/ Dropped(link)) /\ link \in Links /\ authenticated
      BY <3>1, OwnLink DEF Inv, LinkOK, LocksOK, Served
    <3>3. CASE SendRequest(c, link, challenge)
      BY <1>0, <2>0, <3>1, <3>2, <3>3, SendRequestRuns DEF TypesOK
    <3>4. CASE ~SendRequest(c, link, challenge)
      <4>1. pc' = [pc EXCEPT ![c] = "challenge"] /\ link' = Sent(link, Request(c, 0, 0))
        BY <2>3, <3>4 DEF LockConnection, Await
      <4>2. Request(c, 0, 0) \in Requests /\ Request(c, 0, 0).call = c /\ Request(c, 0, 0).nonce = 0
        BY DEF Request, Requests
      <4>3. ASSUME NEW d \in Calls, MayRun(d)' PROVE MayRun(d) \/ (d = c /\ Allowed(c)' > Allowed(c))
        <5>1. MayRun(d) \/ (d = c /\ policy # "deny" /\ policy # "auth")
          BY <2>0, <3>2, <4>1, <4>2, <4>3, SentMayRun
        <5> QED BY <1>0, <2>0, <3>1, <3>2, <4>1, <5>1, AllowedMore
      <4> QED BY <2>0, <3>1, <4>1, <4>3, RunsMove DEF Onward
    <3> QED BY <3>3, <3>4
  <2>4. CASE ChallengeReply(c)
    <3> DEFINE reply == Head(link.replies)
    <3>1. Hears(c, "challenge") /\ pc[c] = "challenge" /\ UNCHANGED attempt
      BY <2>4 DEF ChallengeReply, Hears
    <3>2. /\ reply \in Replies /\ (reply.header # "none" => FreshNonce(reply.nonce))
          /\ \A l \in AfterDrop(reply) : l \in Links /\ Clear(l)
      BY <3>1, HeardReply
    <3>3. PICK l \in AfterDrop(reply) :
            \/ link' = l /\ Finish(c, "err")
            \/ SendRequest(c, l, DigestAuthChallenge(reply))
      BY <2>4 DEF ChallengeReply
    <3> HIDE DEF reply
    <3>4. CASE link' = l /\ Finish(c, "err")
      <4>1. pc' = [pc EXCEPT ![c] = "err"]
        BY <3>4 DEF Finish
      <4>2. \A d \in Calls : ~MayRun(d)'
        BY <3>2, <3>3, <3>4, ClearMayNotRun
      <4> QED BY <2>0, <3>1, <4>1, <4>2, RunsMove DEF Onward
    <3>5. CASE SendRequest(c, l, DigestAuthChallenge(reply))
      <4>1. DigestAuthChallenge(reply) \in Challenges \cup {None}
        BY <3>2, ReplyChallenge
      <4>2. authenticated
        BY <3>1 DEF Inv, LocksOK
      <4> QED BY <2>0, <3>1, <3>2, <3>3, <3>5, <4>1, <4>2, SendRequestRuns
    <3> QED BY <3>3, <3>4, <3>5
  <2>5. CASE ResponseHeaders(c) \/ ReadBody(c) \/ RequestFails(c)
    <3>1. Clear(link')
      <4>1. CASE ResponseHeaders(c)
        <5>1. Hears(c, "response") /\ link' \in AfterDrop(Head(link.replies)) \cup {Taken}
          BY <4>1 DEF ResponseHeaders
        <5> QED BY <5>1, HeardReply
      <4>2. CASE ReadBody(c)
        BY <4>2, OwnLink DEF ReadBody, Inv, Served, OnWire, Clear, Dropped
      <4>3. CASE RequestFails(c)
        BY <4>3, EmptyLinks DEF RequestFails
      <4> QED BY <2>5, <4>1, <4>2, <4>3
    <3>2. \A d \in Calls : ~MayRun(d)'
      BY <3>1, ClearMayNotRun
    <3>3. PICK x : /\ pc' = [pc EXCEPT ![c] = x]
                   /\ \/ UNCHANGED attempt /\ Onward(c, x)
                      \/ /\ pc[c] = "response" /\ x = "conn" /\ authenticated
                         /\ attempt[c] = 0 /\ attempt' = [attempt EXCEPT ![c] = @ + 1]
      BY <2>5 DEF ResponseHeaders, ReadBody, RequestFails, DropChallengeAndRetry, Finish, Retries,
                  Onward, Hears
    <3> QED BY <2>0, <3>2, <3>3, RunsMove
  <2>6. CASE Timeout(c)
    <3>1. pc' = [pc EXCEPT ![c] = "err"] /\ UNCHANGED attempt
      BY <2>6 DEF Timeout, Finish
    <3>2. Clear(link') \/ link'.requests = link.requests
      <4>1. link' \in {link, DeadLink, [link EXCEPT !.state = "left"]}
        BY <2>6 DEF Timeout, Abandoned
      <4>2. link \in Links
        BY DEF Inv, LinkOK
      <4> QED BY <4>1, <4>2, EmptyLinks DEF Links
    <3>3. \A d \in Calls : MayRun(d)' => MayRun(d)
      BY <2>0, <3>2, ClearMayNotRun DEF MayRun
    <3> QED BY <2>0, <3>1, <3>3, RunsMove DEF Onward
  <2> QED BY <1>5, <2>1, <2>2, <2>3, <2>4, <2>5, <2>6 DEF CallStep
<1>6. CASE UNCHANGED vars
  BY <1>1, <1>6 DEF vars, MayRun
<1> QED BY <1>2, <1>3, <1>4, <1>5, <1>6 DEF Next, Terminated

\* How often the daemon runs a request, for any number of calls and faults: once without
\* authentication, once for each of two attempts with it, and never with the wrong credentials.
LEMMA RunsBound ==
  ASSUME Inv, RunsOK, NEW c \in Calls
  PROVE  /\ ~authenticated => executed[c] <= 1
         /\ policy = "auth" => executed[c] <= 2
         /\ policy = "open" => executed[c] <= 4
         /\ policy = "deny" => executed[c] = 0
<1>1. executed[c] \in Nat /\ executed[c] <= Allowed(c)
  BY DEF RunsOK, Inv, TypesOK
<1>2. PICK a \in 0 .. 1 : attempt[c] = a
  BY DEF Inv, TypesOK
<1>3. CASE policy = "deny"
  BY <1>1, <1>3 DEF Allowed
<1>4. CASE policy = "auth"
  <2>1. Allowed(c) \in 0 .. 2 /\ (~authenticated => Allowed(c) = 0)
    BY <1>1, <1>2, <1>4 DEF Allowed
  <2> QED BY <1>1, <1>4, <2>1
<1>5. CASE policy = "open" /\ ~authenticated
  <2>1. Allowed(c) \in 0 .. 1
    BY <1>5 DEF Allowed
  <2> QED BY <1>1, <1>5, <2>1
<1>6. CASE policy = "open" /\ authenticated
  <2>1. Allowed(c) \in 0 .. 4
    BY <1>2, <1>6 DEF Allowed
  <2> QED BY <1>1, <1>6, <2>1
<1> QED BY <1>1, <1>3, <1>4, <1>5, <1>6 DEF Inv, TypesOK, Policies

---------------------------------------------------------------------------------
(* Calls without a fault of their own. *)

\* The reply to such a call: a challenge it can answer, its response, or in its first attempt that its
\* challenge is stale, without its request having been run.
RepliedWell(c, r) ==
  IF pc[c] = "challenge"
  THEN r.header = "fresh" /\ r.status = "unauthorized" /\ r.nonce = link.nonce /\ link.used = {}
  ELSE \/ r.header \in {"none", "fresh"}
       \/ r.header = "stale" /\ r.status = "unauthorized" /\ executed[c] = 0 /\ attempt[c] = 0

\* Such a call wherever it stands: it has not failed, and its request was run at most once. Its second
\* attempt is made on a connection which lives, and answers the challenge this one has just given.
Innocent(c) ==
  /\ pc[c] # "err" /\ executed[c] <= 1
  /\ pc[c] \in {"idle", "lock", "conn", "challenge"} => executed[c] = 0
  /\ pc[c] \in {"idle", "lock"} => attempt[c] = 0
  /\ pc[c] = "conn" /\ attempt[c] = 1 => challenge = None /\ link.state \in {"none", "live"}
  /\ pc[c] = "challenge" => attempt[c] = 1
  /\ pc[c] \in {"challenge", "body"} \/ (pc[c] = "response" /\ (attempt[c] = 1 \/ executed[c] = 1))
       => link.state = "live"
  /\ link.state = "live" =>
       /\ pc[c] = "challenge" /\ link.requests # <<>> => Head(link.requests).nonce = 0
       /\ pc[c] = "response" /\ link.requests # <<>> =>
            executed[c] = 0 /\ (attempt[c] = 1 => Accepts(Head(link.requests)))
       /\ pc[c] \in {"challenge", "response"} /\ link.replies # <<>> => RepliedWell(c, Head(link.replies))

InnocentOK == authenticated /\ policy = "auth" => \A c \in Calls \ excused : Innocent(c)

\* A call which is not the one past the mutex has nothing on the connection.
LEMMA OthersInnocent ==
  ASSUME TypesOK, NEW d \in Calls, pc[d] \notin Served, Innocent(d),
         pc'[d] = pc[d], attempt'[d] = attempt[d], executed'[d] = executed[d]
  PROVE  Innocent(d)'
<1>1. pc[d] \notin {"conn", "challenge", "response", "body"}
  BY DEF Served, OnWire
<1> QED BY <1>1 DEF Innocent

\* Two calls are not both past the mutex.
LEMMA OthersOutside ==
  ASSUME Inv, NEW c \in Calls, pc[c] \in Served \/ outer = None, NEW d \in Calls, d # c
  PROVE  pc[d] \notin Served
  BY NoneAssumption DEF Inv, LocksOK

\* A step of the call past the mutex, or which takes it: it is enough to show it for that call.
LEMMA OneInnocent ==
  ASSUME Inv, InnocentOK, NEW c \in Calls, pc[c] \in Served \/ outer = None, NEW x,
         pc' = [pc EXCEPT ![c] = x], excused \subseteq excused',
         UNCHANGED <<policy, authenticated, executed>>,
         \A d \in Calls : d # c => attempt'[d] = attempt[d],
         authenticated /\ policy = "auth" /\ c \notin excused' => Innocent(c)'
  PROVE  InnocentOK'
<1> SUFFICES ASSUME authenticated, policy = "auth", NEW d \in Calls, d \notin excused'
             PROVE  Innocent(d)'
  BY DEF InnocentOK
<1>1. CASE d = c
  BY <1>1
<1>2. CASE d # c
  <2>1. Innocent(d) /\ pc'[d] = pc[d] /\ TypesOK
    BY <1>2 DEF InnocentOK, Inv, TypesOK
  <2>2. pc[d] \notin Served
    BY <1>2, OthersOutside
  <2> QED BY <1>2, <2>1, <2>2, OthersInnocent
<1> QED BY <1>1, <1>2

\* While the connection and the challenge stay, so does what is said of a call which does.
LEMMA SameInnocent ==
  ASSUME NEW d \in Calls, Innocent(d), pc'[d] = pc[d], attempt'[d] = attempt[d],
         executed'[d] = executed[d], UNCHANGED <<link, challenge, policy>>
  PROVE  Innocent(d)'
  BY DEF Innocent, RepliedWell, Accepts

\* A request sent with the cached challenge in the first attempt, or in the second with the one the
\* connection has just given.
LEMMA RequestInnocent ==
  ASSUME Inv, NEW c \in Calls, executed[c] = 0, executed' = executed, policy' = "auth",
         NEW l \in Links, Clear(l) \/ Dropped(l), NEW r \in Requests, link' = Sent(l, r), pc'[c] = "response",
         attempt'[c] \in 0 .. 1,
         attempt'[c] = 1 => /\ l.state = "live"
                            /\ r.nonce # 0 /\ r.nonce = l.nonce /\ r.cnonce \notin l.used
  PROVE  Innocent(c)'
<1>0. CASE Dropped(l)
  <2>1. link'.state = "left" /\ attempt'[c] # 1
    BY <1>0, NotSent DEF Dropped
  <2> QED BY <2>1 DEF Innocent
<1> SUFFICES ASSUME Clear(l) PROVE Innocent(c)'
  BY <1>0
<1>1. /\ link'.replies = <<>>
      /\ link'.requests # <<>> => link'.requests = <<r>>
      /\ l.state \in {"none", "live"} => link'.state = "live"
      /\ l.state = "live" => link'.nonce = l.nonce /\ link'.used = l.used
  BY SentOn
<1>2. link'.requests # <<>> => Head(link'.requests) = r
  BY <1>1
<1>3. attempt'[c] = 1 => /\ link'.state = "live" /\ r.nonce = link'.nonce /\ r.cnonce \notin link'.used
                         /\ r.nonce # 0
  BY <1>1
<1>4. ASSUME link'.requests # <<>>, attempt'[c] = 1
      PROVE  Accepts(Head(link.requests))'
  BY <1>2, <1>3, <1>4 DEF Accepts
<1> QED BY <1>1, <1>3, <1>4 DEF Innocent

\* The daemon gives a challenge, runs the request, or in a first attempt finds its challenge stale.
LEMMA DaemonAnswersInnocent ==
  ASSUME Inv, InnocentOK, DaemonAnswers
  PROVE  InnocentOK'
<1>1. PICK r \in Requests :
        /\ r = Head(link.requests) /\ link.requests = <<r>> /\ r.call \in Calls
        /\ \/ link.state = "live" /\ pc[r.call] \in {"challenge", "response"}
           \/ link.state = "left" /\ pc[r.call] = "err"
        /\ DaemonRuns(r) \/ DaemonRefuses(r)
        /\ \A reply \in Replies : Serve(r, reply) =>
             /\ link'.state = link.state /\ link'.requests = <<>> /\ link'.replies = <<reply>>
             /\ reply.nonce # 0 => link'.nonce = reply.nonce /\ link'.used = {}
  BY DaemonServes
<1>2. UNCHANGED <<policy, authenticated, pc, attempt>>
  BY DEF DaemonAnswers
<1>3. excused \subseteq excused' /\ issued + 1 \in Nat /\ issued + 1 # 0 /\ executed \in [Calls -> Nat]
  BY <1>1 DEF DaemonRuns, DaemonRefuses, Inv, TypesOK
<1> SUFFICES ASSUME authenticated, policy = "auth", NEW d \in Calls, d \notin excused'
             PROVE  Innocent(d)'
  BY <1>2 DEF InnocentOK
<1>4. Innocent(d)
  BY <1>3 DEF InnocentOK
<1>7. link'.state = link.state
  <2>1. link' = [link EXCEPT !.requests = link'.requests, !.replies = link'.replies,
                             !.nonce = link'.nonce, !.used = link'.used]
    BY <1>1 DEF DaemonRuns, DaemonRefuses, Serve, Inv, LinkOK, Links
  <2> QED BY <2>1 DEF Inv, LinkOK, Links
<1>5. CASE d # r.call
  <2>1. executed'[d] = executed[d]
    BY <1>1, <1>3, <1>5 DEF DaemonRuns, DaemonRefuses
  <2>2. CASE link.state = "live"
    <3>1. pc[d] \notin Served
      BY <1>1, <1>5, <2>2, OthersOutside DEF Served, OnWire
    <3> QED BY <1>2, <1>4, <2>1, <3>1, OthersInnocent DEF Inv
  <2>3. CASE link.state = "left"
    <3>1. link'.state = "left" /\ challenge' = challenge
      BY <1>7, <2>3 DEF DaemonAnswers
    <3> QED BY <1>2, <1>4, <2>1, <2>3, <3>1 DEF Innocent
  <2> QED BY <1>1, <2>2, <2>3
<1>6. CASE d = r.call
  <2>0. link.state = "live"
    BY <1>1, <1>4, <1>6 DEF Innocent
  <2>1. link.requests # <<>> /\ pc[d] \in {"challenge", "response"} /\ pc'[d] = pc[d] /\ attempt'[d] = attempt[d]
    BY <1>1, <1>2, <1>6, <2>0
  <2>2. executed[d] = 0
    BY <1>4, <2>0, <2>1 DEF Innocent
  <2>3. ASSUME NEW reply \in Replies, Serve(r, reply), executed'[d] \in 0 .. 1,
               executed'[d] = 1 => pc[d] = "response", RepliedWell(d, reply)'
        PROVE  Innocent(d)'
    <3>1. link'.state = "live" /\ link'.requests = <<>> /\ link'.replies = <<reply>>
      BY <1>1, <2>0, <2>3
    <3>2. Head(link'.replies) = reply
      BY <3>1
    <3>3. pc[d] = "challenge" => attempt[d] = 1
      BY <1>4 DEF Innocent
    <3> QED BY <2>1, <2>3, <3>1, <3>2, <3>3 DEF Innocent
  <2>4. CASE DaemonRuns(r)
    <3> DEFINE reply == Answer(r, "ok", "none", 0)
    <3>1. reply \in Replies /\ reply.header = "none"
      BY <1>1 DEF Answer, Replies, Headers
    <3>2. Serve(r, reply) /\ executed'[d] = 1
      BY <1>3, <1>6, <2>2, <2>4 DEF DaemonRuns
    <3>3. pc[d] = "response"
      <4>1. r.nonce # 0
        BY <2>4 DEF DaemonRuns, Accepts
      <4> QED BY <1>1, <1>4, <2>0, <2>1, <4>1 DEF Innocent
    <3> HIDE DEF reply
    <3>4. RepliedWell(d, reply)'
      BY <2>1, <3>1, <3>3 DEF RepliedWell
    <3> QED BY <2>3, <3>1, <3>2, <3>3, <3>4
  <2>5. CASE DaemonRefuses(r)
    <3>1. ~(excused' = excused \cup {r.call})
      BY <1>6
    <3>2. PICK header \in {"fresh", "stale"} :
            /\ r.nonce = 0 => header = "fresh"
            /\ ~Accepts(r) /\ executed' = executed
            /\ Serve(r, Answer(r, "unauthorized", header, issued + 1))
      BY <2>5, <3>1 DEF DaemonRefuses
    <3> DEFINE given(n) == Answer(r, "unauthorized", header, n)
    <3>a. ASSUME NEW n \in Nat
          PROVE  /\ given(n) \in Replies
                 /\ given(n).header = header /\ given(n).status = "unauthorized" /\ given(n).nonce = n
      BY <1>1 DEF Answer, Replies, Headers
    <3> HIDE DEF given
    <3>3. PICK reply \in Replies :
            /\ reply = given(issued + 1)
            /\ reply.header = header /\ reply.status = "unauthorized" /\ reply.nonce = issued + 1
      BY <1>3, <3>a, Zenon
    <3>4. Serve(r, reply)
      BY <3>2, <3>3 DEF given
    <3>5. link'.nonce = reply.nonce /\ link'.used = {}
      BY <1>1, <1>3, <3>3, <3>4
    <3>6. RepliedWell(d, reply)'
      <4>1. CASE pc[d] = "challenge"
        <5>1. header = "fresh"
          BY <1>1, <1>4, <2>0, <2>1, <3>2, <4>1 DEF Innocent
        <5> QED BY <2>1, <3>3, <3>5, <4>1, <5>1 DEF RepliedWell
      <4>2. CASE pc[d] = "response"
        <5>1. attempt[d] # 1
          BY <1>1, <1>4, <2>0, <2>1, <3>2, <4>2 DEF Innocent
        <5>2. attempt[d] = 0
          BY <5>1 DEF Inv, TypesOK
        <5> QED BY <2>1, <2>2, <3>2, <3>3, <4>2, <5>2 DEF RepliedWell
      <4> QED BY <2>1, <4>1, <4>2
    <3> QED BY <2>2, <2>3, <3>2, <3>3, <3>4, <3>6
  <2> QED BY <1>1, <2>4, <2>5
<1> QED BY <1>5, <1>6

\* The mutex is taken, and the cached challenge used; the second attempt asks for one of its own.
LEMMA LockConnectionInnocent ==
  ASSUME Inv, InnocentOK, NEW c \in Calls, LockConnection(c)
  PROVE  InnocentOK'
<1>1. /\ pc[c] = "conn" /\ pc[c] \in Served /\ UNCHANGED <<policy, authenticated, executed, attempt>>
      /\ excused \subseteq excused'
  BY DEF LockConnection, daemonVars, Served
<1>2. (Clear(link) \/ Dropped(link)) /\ link \in Links /\ challenge \in Challenges \cup {None} /\ attempt[c] \in 0 .. 1
      /\ pc \in [Calls -> {"idle"} \cup Waiting \cup OnWire \cup Done]
  BY <1>1, OwnLink DEF Inv, LinkOK, TypesOK
<1>3. PICK x \in {"challenge", "response", "err"} : pc' = [pc EXCEPT ![c] = x]
  BY DEF LockConnection, SendRequest, Await, Finish
<1>4. pc'[c] = x
  BY <1>2, <1>3
<1>5. ASSUME authenticated, policy = "auth", c \notin excused' PROVE Innocent(c)'
  <2>1. Innocent(c) /\ executed[c] = 0
    BY <1>1, <1>5 DEF InnocentOK, Innocent
  <2>2. CASE challenge = None
    <3>1. /\ link' = Sent(link, Request(c, 0, 0)) /\ pc' = [pc EXCEPT ![c] = "challenge"]
          /\ attempt[c] # 0
      BY <1>5, <2>2 DEF LockConnection, Await
    <3>2. attempt'[c] = 1 /\ pc'[c] = "challenge" /\ link.state \in {"none", "live"} /\ Clear(link)
      BY <1>1, <1>2, <2>1, <3>1 DEF Innocent, Dropped
    <3> DEFINE r == Request(c, 0, 0)
    <3>3. r \in Requests /\ r.nonce = 0
      BY DEF Request, Requests
    <3> HIDE DEF r
    <3>4. link'.replies = <<>> /\ link'.state = "live" /\ (link'.requests # <<>> => link'.requests = <<r>>)
      BY <1>2, <3>1, <3>2, <3>3, SentOn DEF r
    <3>5. link'.requests # <<>> => Head(link'.requests).nonce = 0
      BY <3>3, <3>4
    <3> QED BY <1>1, <2>1, <3>2, <3>4, <3>5 DEF Innocent
  <2>3. CASE challenge # None
    <3>1. challenge.usable /\ SendRequest(c, link, challenge)
      BY <1>5, <2>3 DEF LockConnection
    <3> DEFINE n == NextCnonce(challenge).cnonce
    <3>2. link' = Sent(link, Request(c, challenge.nonce, n)) /\ pc'[c] = "response"
      BY <1>2, <2>3, <3>1 DEF SendRequest, Await
    <3>3. attempt'[c] # 1
      BY <1>1, <2>1, <2>3 DEF Innocent
    <3>4. challenge \in Challenges /\ n \in Nat
      BY <1>2, <2>3 DEF Challenges, NextCnonce
    <3> HIDE DEF n
    <3>5. Request(c, challenge.nonce, n) \in Requests
      BY <3>4 DEF Request, Requests, Challenges
    <3> QED BY <1>1, <1>2, <1>5, <2>1, <3>2, <3>3, <3>5, RequestInnocent
  <2> QED BY <2>2, <2>3
<1> QED BY <1>1, <1>3, <1>5, OneInnocent

\* The challenge which was asked for is answered, on the connection which gave it.
LEMMA ChallengeReplyInnocent ==
  ASSUME Inv, InnocentOK, NEW c \in Calls, ChallengeReply(c)
  PROVE  InnocentOK'
<1> DEFINE reply == Head(link.replies)
<1>1. /\ Hears(c, "challenge") /\ pc[c] = "challenge" /\ pc[c] \in Served /\ link.replies # <<>>
      /\ UNCHANGED <<policy, authenticated, executed, attempt, excused>>
  BY DEF ChallengeReply, Hears, daemonVars, Served, OnWire
<1>2. /\ reply \in Replies /\ (reply.header # "none" => FreshNonce(reply.nonce))
      /\ Taken \in Links /\ Clear(Taken)
  BY <1>1, HeardReply
<1>3. PICK x \in {"response", "err"} : pc' = [pc EXCEPT ![c] = x]
  BY DEF ChallengeReply, SendRequest, Await, Finish
<1>4. link \in Links /\ pc \in [Calls -> {"idle"} \cup Waiting \cup OnWire \cup Done]
  BY DEF Inv, LinkOK, TypesOK
<1>5. ASSUME authenticated, policy = "auth", c \notin excused' PROVE Innocent(c)'
  <2>1. Innocent(c) /\ executed[c] = 0 /\ attempt[c] = 1 /\ link.state = "live"
    BY <1>1, <1>5 DEF InnocentOK, Innocent
  <2>2. reply.header = "fresh" /\ reply.status = "unauthorized" /\ reply.nonce = link.nonce /\ link.used = {}
    BY <1>1, <2>1 DEF Innocent, RepliedWell
  <2>3. SendRequest(c, Taken, DigestAuthChallenge(reply))
    <3>1. AfterDrop(reply) = {Taken}
      BY <2>2 DEF AfterDrop
    <3> QED BY <2>2, <3>1 DEF ChallengeReply
  <2> DEFINE ch == [nonce |-> reply.nonce, cnonce |-> 0, usable |-> reply.header # "unusable"]
  <2>4. DigestAuthChallenge(reply) = ch
    BY <2>2 DEF DigestAuthChallenge
  <2> HIDE DEF reply
  <2>5. ch.usable /\ ch.nonce = reply.nonce /\ ch.cnonce = 0 /\ ch \in Challenges
    BY <1>2, <2>2 DEF Challenges, Replies
  <2>6. ch # None
    BY <2>5, ChallengesAssumption
  <2>7. NextCnonce(ch).cnonce = 1
    BY <2>5 DEF NextCnonce, Challenges
  <2> HIDE DEF ch
  <2>8. link' = Sent(Taken, Request(c, reply.nonce, 1)) /\ pc' = [pc EXCEPT ![c] = "response"]
    BY <2>3, <2>4, <2>5, <2>6, <2>7 DEF SendRequest, Await
  <2> DEFINE r == Request(c, reply.nonce, 1)
  <2>9. /\ r \in Requests /\ r.nonce = reply.nonce /\ r.cnonce = 1
    BY <1>2 DEF Request, Requests, Replies
  <2>10. reply.nonce # 0
    BY <1>2, <2>2 DEF FreshNonce, Inv, TypesOK
  <2>11. Taken.state = "live" /\ Taken.nonce = link.nonce /\ Taken.used = link.used
    BY <1>4, <2>1 DEF Taken, Links
  <2>12. pc'[c] = "response"
    BY <1>4, <2>8
  <2> HIDE DEF r
  <2>13. link' = Sent(Taken, r) /\ 1 \notin {} /\ r.nonce = Taken.nonce /\ r.cnonce \notin Taken.used
    BY <2>2, <2>8, <2>9, <2>11 DEF r
  <2> QED BY <1>1, <1>2, <1>5, <2>1, <2>9, <2>10, <2>11, <2>12, <2>13, RequestInnocent
<1> QED BY <1>1, <1>3, <1>5, OneInnocent

\* The headers of the response arrive, or in the first attempt that the challenge is stale: the second
\* attempt then has a connection which lives, and no challenge.
LEMMA ResponseHeadersInnocent ==
  ASSUME Inv, Inv', InnocentOK, NEW c \in Calls, ResponseHeaders(c)
  PROVE  InnocentOK'
<1> DEFINE reply == Head(link.replies)
<1>1. /\ Hears(c, "response") /\ pc[c] = "response" /\ pc[c] \in Served /\ link.replies # <<>>
      /\ link.state = "live" /\ UNCHANGED <<policy, authenticated, executed, excused>>
  BY DEF ResponseHeaders, Hears, daemonVars, historyVars, Served, OnWire
<1>2. Taken \in Links /\ Clear(Taken) /\ Taken.state = "live"
  BY <1>1, HeardReply, TakenClear DEF Inv
<1>3. PICK x \in {"body", "conn", "err"} : pc' = [pc EXCEPT ![c] = x]
  BY DEF ResponseHeaders, DropChallengeAndRetry, Finish
<1>4. /\ pc \in [Calls -> {"idle"} \cup Waiting \cup OnWire \cup Done]
      /\ attempt \in [Calls -> 0 .. 1] /\ executed \in [Calls -> Nat]
  BY DEF Inv, TypesOK
<1>5. \A d \in Calls : d # c => attempt'[d] = attempt[d]
  BY <1>4 DEF ResponseHeaders, DropChallengeAndRetry
<1>6. ASSUME authenticated, policy = "auth", c \notin excused' PROVE Innocent(c)'
  <2>1. Innocent(c) /\ executed[c] <= 1 /\ RepliedWell(c, reply)
    BY <1>1, <1>6 DEF InnocentOK, Innocent
  <2>2. CASE reply.header \in {"none", "fresh"}
    <3>1. link' = Taken /\ pc' = [pc EXCEPT ![c] = "body"]
      BY <2>2 DEF ResponseHeaders
    <3>2. pc'[c] = "body" /\ link'.state = "live" /\ executed'[c] <= 1
      BY <1>1, <1>2, <1>4, <2>1, <3>1
    <3> QED BY <3>2 DEF Innocent
  <2>3. CASE /\ reply.header = "stale" /\ reply.status = "unauthorized"
             /\ executed[c] = 0 /\ attempt[c] = 0
    <3>1. link' = Taken /\ DropChallengeAndRetry(c)
      BY <1>6, <2>3 DEF ResponseHeaders, AfterDrop
    <3>2. challenge' = None /\ pc' = [pc EXCEPT ![c] = "conn"]
      BY <2>3, <3>1 DEF DropChallengeAndRetry, Retries, DroppedChallenge
    <3>3. pc'[c] = "conn" /\ link'.state = "live" /\ executed'[c] = 0
      BY <1>1, <1>2, <1>4, <2>3, <3>1, <3>2
    <3> QED BY <3>2, <3>3 DEF Innocent
  <2> QED BY <1>1, <2>1, <2>2, <2>3 DEF RepliedWell
<1> QED BY <1>1, <1>3, <1>5, <1>6, OneInnocent

\* The connection turns out to have been closed: only in a first attempt, whose request it lost. The
\* second attempt makes a new one.
LEMMA RequestFailsInnocent ==
  ASSUME Inv, InnocentOK, NEW c \in Calls, RequestFails(c)
  PROVE  InnocentOK'
<1>1. /\ pc[c] \in OnWire /\ pc[c] \in Served /\ link.state # "live" /\ link' = NoLink
      /\ UNCHANGED <<policy, authenticated, executed, excused>>
  BY DEF RequestFails, daemonVars, historyVars, Served
<1>2. PICK x \in {"conn", "err"} : pc' = [pc EXCEPT ![c] = x]
  BY DEF RequestFails, DropChallengeAndRetry, Finish
<1>3. /\ pc \in [Calls -> {"idle"} \cup Waiting \cup OnWire \cup Done]
      /\ attempt \in [Calls -> 0 .. 1] /\ executed \in [Calls -> Nat]
  BY DEF Inv, TypesOK
<1>4. \A d \in Calls : d # c => attempt'[d] = attempt[d]
  BY <1>3 DEF RequestFails, DropChallengeAndRetry
<1>5. ASSUME authenticated, policy = "auth", c \notin excused' PROVE Innocent(c)'
  <2>1. Innocent(c)
    BY <1>1, <1>5 DEF InnocentOK
  <2>2. pc[c] = "response" /\ attempt[c] # 1 /\ executed[c] # 1 /\ executed[c] <= 1
    BY <1>1, <2>1 DEF Innocent, OnWire
  <2>3. attempt[c] = 0 /\ executed[c] = 0
    BY <1>3, <2>2
  <2>4. challenge' = None /\ pc' = [pc EXCEPT ![c] = "conn"]
    BY <1>5, <2>2, <2>3 DEF RequestFails, DropChallengeAndRetry, Retries, DroppedChallenge
  <2>5. pc'[c] = "conn" /\ executed'[c] = 0 /\ link'.state = "none"
    BY <1>1, <1>3, <2>3, <2>4 DEF NoLink, EmptyLink
  <2> QED BY <2>4, <2>5 DEF Innocent
<1> QED BY <1>1, <1>2, <1>4, <1>5, OneInnocent

\* The steps which give such a call nothing to fear: its body is read, it is posted or takes the mutex.
LEMMA PlainStepsInnocent ==
  ASSUME Inv, InnocentOK, NEW c \in Calls, Post(c) \/ LockOuter(c) \/ ReadBody(c)
  PROVE  InnocentOK'
<1>1. UNCHANGED <<policy, authenticated, executed, excused, challenge, attempt>>
  BY DEF Post, LockOuter, ReadBody, daemonVars, historyVars
<1>2. /\ pc \in [Calls -> {"idle"} \cup Waiting \cup OnWire \cup Done]
      /\ attempt \in [Calls -> 0 .. 1] /\ executed \in [Calls -> Nat]
  BY DEF Inv, TypesOK
<1>3. CASE Post(c)
  <2>1. pc[c] = "idle" /\ pc' = [pc EXCEPT ![c] = "lock"] /\ UNCHANGED link
    BY <1>3 DEF Post
  <2> SUFFICES ASSUME authenticated, policy = "auth", NEW d \in Calls, d \notin excused'
               PROVE  Innocent(d)'
    BY <1>1 DEF InnocentOK
  <2>2. Innocent(d)
    BY <1>1 DEF InnocentOK
  <2>3. CASE d = c
    <3>1. pc'[d] = "lock" /\ pc[d] = "idle"
      BY <1>2, <2>1, <2>3
    <3> QED BY <1>1, <2>2, <3>1 DEF Innocent
  <2>4. CASE d # c
    <3>1. pc'[d] = pc[d]
      BY <1>2, <2>1, <2>4
    <3> QED BY <1>1, <2>1, <2>2, <3>1, SameInnocent
  <2> QED BY <2>3, <2>4
<1>4. CASE LockOuter(c)
  <2>1. pc[c] = "lock" /\ outer = None
    BY <1>4 DEF LockOuter, OuterUnlocked
  <2>2. PICK x \in {"conn", "response"} : /\ pc' = [pc EXCEPT ![c] = x] /\ (authenticated => x = "conn")
    BY <1>4 DEF LockOuter
  <2>3. ASSUME authenticated, policy = "auth", c \notin excused' PROVE Innocent(c)'
    <3>1. Innocent(c) /\ pc'[c] = "conn"
      BY <1>1, <1>2, <2>2, <2>3 DEF InnocentOK
    <3> QED BY <1>1, <2>1, <3>1 DEF Innocent
  <2> QED BY <1>1, <2>1, <2>2, <2>3, OneInnocent
<1>5. CASE ReadBody(c)
  <2>1. pc[c] = "body" /\ pc[c] \in Served /\ pc' = [pc EXCEPT ![c] = "ok"]
    BY <1>5 DEF ReadBody, Finish, Served, OnWire
  <2>2. ASSUME authenticated, policy = "auth", c \notin excused' PROVE Innocent(c)'
    <3>1. Innocent(c) /\ pc'[c] = "ok"
      BY <1>1, <1>2, <2>1, <2>2 DEF InnocentOK
    <3> QED BY <1>1, <3>1 DEF Innocent
  <2> QED BY <1>1, <2>1, <2>2, OneInnocent
<1> QED BY <1>3, <1>4, <1>5

\* A timeout excuses its own call, and is of no consequence to another: the one past the mutex keeps
\* its connection when a call queued for it gives up.
LEMMA TimeoutInnocent ==
  ASSUME Inv, InnocentOK, NEW c \in Calls, Timeout(c)
  PROVE  InnocentOK'
<1>1. /\ UNCHANGED <<policy, authenticated, executed, challenge, attempt>>
      /\ excused' = excused \cup {c} /\ pc' = [pc EXCEPT ![c] = "err"]
  BY DEF Timeout, Finish, daemonVars
<1>2. pc \in [Calls -> {"idle"} \cup Waiting \cup OnWire \cup Done]
  BY DEF Inv, TypesOK
<1>3. CASE pc[c] \in Served
  BY <1>1, <1>3, OneInnocent
<1>4. CASE pc[c] \notin Served
  <2>1. UNCHANGED link
    BY <1>4 DEF Timeout, Waiting, Served
  <2> SUFFICES ASSUME authenticated, policy = "auth", NEW d \in Calls, d \notin excused'
               PROVE  Innocent(d)'
    BY <1>1 DEF InnocentOK
  <2>2. Innocent(d) /\ d # c
    BY <1>1 DEF InnocentOK
  <2>3. pc'[d] = pc[d]
    BY <1>1, <1>2, <2>2
  <2> QED BY <1>1, <2>1, <2>2, <2>3, SameInnocent
<1> QED BY <1>3, <1>4

\* The connection is lost under the calls which it excuses; the others have yet to use it.
LEMMA ConnectionDiesInnocent ==
  ASSUME Inv, InnocentOK, ConnectionDies
  PROVE  InnocentOK'
<1>1. /\ UNCHANGED <<policy, authenticated, executed, challenge, attempt, pc>>
      /\ excused' = excused \cup Exchanging
  BY DEF ConnectionDies, daemonVars
<1> SUFFICES ASSUME authenticated, policy = "auth", NEW d \in Calls, d \notin excused'
             PROVE  Innocent(d)'
  BY <1>1 DEF InnocentOK
<1>2. Innocent(d)
  BY <1>1 DEF InnocentOK
<1>3. pc[d] \notin {"challenge", "response", "body"} /\ ~(pc[d] = "conn" /\ attempt[d] = 1)
  BY <1>1 DEF Exchanging, OnWire
<1> QED BY <1>1, <1>2, <1>3 DEF Innocent

\* A discarded response was of a dropped call.
LEMMA DiscardReplyInnocent ==
  ASSUME Inv, InnocentOK, DiscardReply
  PROVE  InnocentOK'
<1>1. /\ UNCHANGED <<policy, authenticated, executed, challenge, attempt, pc, excused>>
      /\ \A c \in Calls : pc[c] \notin OnWire
      /\ link'.state = "live"
  <2>1. link \in Links /\ link' = [[link EXCEPT !.replies = Tail(@)] EXCEPT !.state = "live"]
    BY DEF DiscardReply, Taken, Inv, LinkOK
  <2>2. link'.state = "live"
    BY <2>1 DEF Links
  <2> QED BY <2>2 DEF DiscardReply, daemonVars, historyVars
<1> SUFFICES ASSUME authenticated, policy = "auth", NEW d \in Calls, d \notin excused'
             PROVE  Innocent(d)'
  BY <1>1 DEF InnocentOK
<1>2. Innocent(d) /\ pc[d] \notin {"challenge", "response", "body"}
  BY <1>1 DEF InnocentOK, OnWire
<1> QED BY <1>1, <1>2 DEF Innocent

\* No step fails such a call, or has its request run twice.
LEMMA NextInnocent ==
  ASSUME Inv, Inv', NotYet, InnocentOK, [Next]_vars
  PROVE  InnocentOK'
<1>1. CASE WithCustomTimeout
  <2>1. /\ UNCHANGED <<policy, authenticated, executed, attempt, pc, excused>>
        /\ \A c \in Calls : pc[c] = "idle"
    BY <1>1 DEF WithCustomTimeout, NotYet, historyVars
  <2> SUFFICES ASSUME authenticated, policy = "auth", NEW d \in Calls, d \notin excused'
               PROVE  Innocent(d)'
    BY <2>1 DEF InnocentOK
  <2>2. Innocent(d) /\ pc[d] \notin Served
    BY <2>1 DEF InnocentOK, Served, OnWire
  <2> QED BY <2>1, <2>2, OthersInnocent DEF Inv
<1>2. CASE UNCHANGED vars
  <2> SUFFICES ASSUME authenticated, policy = "auth", NEW d \in Calls, d \notin excused'
               PROVE  Innocent(d)'
    BY <1>2 DEF InnocentOK, vars
  <2>1. Innocent(d)
    BY <1>2 DEF InnocentOK, vars
  <2> QED BY <1>2, <2>1, SameInnocent DEF vars
<1>3. CASE DaemonAnswers \/ ConnectionDies \/ DiscardReply
  BY <1>3, DaemonAnswersInnocent, ConnectionDiesInnocent, DiscardReplyInnocent
<1>4. ASSUME NEW c \in Calls, Post(c) \/ CallStep(c) \/ Timeout(c)
      PROVE  InnocentOK'
  <2>1. CASE Post(c) \/ LockOuter(c) \/ ReadBody(c)
    BY <2>1, PlainStepsInnocent
  <2>2. CASE LockConnection(c)
    BY <2>2, LockConnectionInnocent
  <2>3. CASE ChallengeReply(c)
    BY <2>3, ChallengeReplyInnocent
  <2>4. CASE ResponseHeaders(c)
    BY <2>4, ResponseHeadersInnocent
  <2>5. CASE RequestFails(c)
    BY <2>5, RequestFailsInnocent
  <2>6. CASE Timeout(c)
    BY <2>6, TimeoutInnocent
  <2> QED BY <1>4, <2>1, <2>2, <2>3, <2>4, <2>5, <2>6 DEF CallStep
<1> QED BY <1>1, <1>2, <1>3, <1>4 DEF Next, Terminated

\* Both, together with the invariant they rest on.
LEMMA RunsInvariance == Spec => [](Inv /\ RunsOK /\ InnocentOK)
<1>1. Init => RunsOK /\ InnocentOK
  <2> SUFFICES ASSUME Init PROVE RunsOK /\ InnocentOK
    OBVIOUS
  <2>2. ASSUME NEW c \in Calls PROVE pc[c] = "idle" /\ executed[c] = 0 /\ attempt[c] = 0
    BY DEF Init
  <2>1. RunsOK
    <3>1. ASSUME NEW c \in Calls PROVE Allowed(c) = 0 /\ ~MayRun(c)
      BY <2>2 DEF Init, Allowed, MayRun, NoLink, EmptyLink
    <3>2. ASSUME NEW c \in Calls PROVE executed[c] <= Allowed(c) /\ (MayRun(c) => executed[c] < Allowed(c))
      <4>1. executed[c] = 0 /\ Allowed(c) = 0 /\ ~MayRun(c)
        BY <2>2, <3>1
      <4> QED BY <4>1
    <3> QED BY <3>2 DEF RunsOK
  <2>3. ASSUME NEW c \in Calls PROVE Innocent(c)
    BY <2>2 DEF Innocent
  <2>4. InnocentOK
    BY <2>3 DEF InnocentOK
  <2> QED BY <2>1, <2>4
<1>2. Inv /\ NotYet /\ Inv' /\ RunsOK /\ [Next]_vars => RunsOK'
  BY NextRuns
<1>3. Inv /\ NotYet /\ Inv' /\ InnocentOK /\ [Next]_vars => InnocentOK'
  BY NextInnocent
<1> QED BY <1>1, <1>2, <1>3, Invariance, PTL DEF Spec

\* For any number of calls and faults, the daemon runs a call's request as often as ExecutionBound says
\* and no more: inner_post's two attempts, and its requests for a challenge, bound it; and a call which
\* retried for no fault of its own has not had its request run before.
THEOREM ExecutionBoundHolds == Spec => []ExecutionBound
<1>1. Inv /\ RunsOK /\ InnocentOK => ExecutionBound
  <2> SUFFICES ASSUME Inv, RunsOK, InnocentOK, NEW c \in Calls
               PROVE  /\ ~authenticated => executed[c] <= 1
                      /\ policy = "auth" => executed[c] <= 2 /\ (c \notin excused => executed[c] <= 1)
                      /\ policy = "open" => executed[c] <= 4
                      /\ policy = "deny" => executed[c] = 0
    BY DEF ExecutionBound
  <2>1. ASSUME policy = "auth", c \notin excused PROVE executed[c] <= 1
    <3>1. CASE authenticated
      BY <2>1, <3>1 DEF InnocentOK, Innocent
    <3>2. CASE ~authenticated
      BY <3>2, RunsBound
    <3> QED BY <3>1, <3>2
  <2> QED BY <2>1, RunsBound
<1> QED BY <1>1, RunsInvariance, PTL

\* For any number of calls and faults, a call with a cached challenge and no fault of its own does not
\* fail: a challenge gone stale, or a connection closed, since the last call costs it its first attempt
\* only, and the second is made with a challenge of its own on a connection which lives.
THEOREM InnocentCallSucceedsHolds == Spec => []InnocentCallSucceeds
<1>1. InnocentOK => InnocentCallSucceeds
  BY DEF InnocentOK, Innocent, InnocentCallSucceeds
<1> QED BY <1>1, RunsInvariance, PTL
================================================================================
