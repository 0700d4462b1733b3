------------------------------- MODULE Transport -------------------------------
(***************************************************************************)
(* SimpleRequestTransport (interface/daemon/simple-request/src/lib.rs):    *)
(* the HTTP transport every request to a Monero daemon goes through.       *)
(*                                                                         *)
(* All the clones of a transport share one client, the mutex               *)
(* read_response_before_next_request and, when the URL holds credentials,  *)
(* a second mutex around the cached digest-auth challenge and its counter. *)
(* `post` runs `inner_post` under a timeout, which drops the future at     *)
(* whichever await it stands at: the guards it holds are released and the  *)
(* shared state stays as it was left.                                      *)
(*                                                                         *)
(* A step of a call takes it from one await to the next. The HTTP client   *)
(* (simple-request over hyper) and the daemon are not in this repository:  *)
(* `link` and the actions on it model them from how this code uses them.   *)
(* "Challenges are per-connection", a request on a connection the peer     *)
(* closed fails, and the next request after a failure opens a new one. A   *)
(* call dropped by its timeout may leave its request, or the response to   *)
(* it, on the connection, which the daemon may still serve: the client     *)
(* hands such a response to no one, and uses the connection again only     *)
(* once it has discarded it.                                               *)
(***************************************************************************)
EXTENDS Naturals, Sequences

CONSTANTS
  Calls,        \* the calls to `post`, whichever clone of the transport they use
  MaxFaults,    \* bound: how often the network or the daemon misbehaves
  None          \* no call, no challenge

ASSUME NoneAssumption == None \notin Calls
ASSUME FaultsAssumption == MaxFaults \in Nat

VARIABLES
  policy,       \* the daemon: "open" (no authentication), "auth", or "deny" (wrong credentials)
  authenticated,\* Authentication::Authenticated (the URL holds credentials)
  ready,        \* "connecting", "ready" or "failed": with_custom_timeout
  outer,        \* holder of read_response_before_next_request
  connection,   \* holder of the mutex around the cached challenge
  challenge,    \* the cached challenge and its cnonce, or None
  pc,           \* where each call stands: the await it is at, or how it ended
  attempt,      \* the loop variable of inner_post
  got,          \* got[c] : the call whose response c was handed
  link,         \* the client's connection, requests and replies under way on it
  issued,       \* how many nonces the daemon has made
  faults,       \* faults so far
  executed,     \* executed[c] : how often the daemon ran c's request
  sent,         \* history: the <<nonce, cnonce>> pairs sent
  excused       \* history: calls hit by a fault of their own, or that had no usable challenge

lockVars == <<outer, connection>>
daemonVars == <<policy, issued, executed>>
historyVars == <<sent, excused>>
vars == <<policy, authenticated, ready, outer, connection, challenge, pc, attempt, got,
          link, issued, faults, executed, sent, excused>>

Policies == {"open", "auth", "deny"}
Waiting == {"lock", "conn"}                      \* awaiting a mutex
OnWire == {"challenge", "response", "body"}      \* awaiting the daemon
Done == {"ok", "err"}
Headers == {"none", "fresh", "unusable", "stale", "garbled"}

Challenges == [nonce : Nat, cnonce : Nat, usable : BOOLEAN]
Requests == [call : Calls, nonce : Nat, cnonce : Nat]
Replies == [call : Calls, status : {"ok", "unauthorized"}, header : Headers, nonce : Nat]
Links == [state : {"none", "live", "left", "dead"}, requests : Seq(Requests), replies : Seq(Replies),
          nonce : Nat, used : SUBSET Nat]
ASSUME ChallengesAssumption == None \notin Challenges

\* "none": the client will connect on the next request; "dead": the peer closed the connection
\* and the client has not noticed; "left": a call was dropped in the middle of its exchange.
EmptyLink(state) ==
  [state |-> state, requests |-> <<>>, replies |-> <<>>, nonce |-> 0, used |-> {}]
NoLink == EmptyLink("none")
NewLink == EmptyLink("live")
DeadLink == EmptyLink("dead")

Init ==
  /\ policy \in Policies
  /\ authenticated \in BOOLEAN
  /\ ready = "connecting"
  /\ outer = None /\ connection = None /\ challenge = None
  /\ pc = [c \in Calls |-> "idle"]
  /\ attempt = [c \in Calls |-> 0]
  /\ got = [c \in Calls |-> None]
  /\ link = NoLink
  /\ issued = 0 /\ faults = 0
  /\ executed = [c \in Calls |-> 0]
  /\ sent = {} /\ excused = {}

Fault == faults < MaxFaults /\ faults' = faults + 1

---------------------------------------------------------------------------------
(* Construction. *)

\* digest_auth_challenge: the header of a reply as a cached challenge, with a cnonce of 0.
DigestAuthChallenge(reply) ==
  IF reply.header = "none" THEN None
  ELSE [nonce |-> reply.nonce, cnonce |-> 0, usable |-> reply.header # "unusable"]

\* with_custom_timeout: an unauthenticated transport connects lazily; an authenticated one makes
\* an empty request for its first challenge, whose failure (or timeout) means no transport.
WithCustomTimeout ==
  /\ ready = "connecting"
  /\ \/ /\ ~authenticated \/ policy = "open"
        /\ ready' = "ready"
        /\ link' \in (IF authenticated THEN {NewLink, DeadLink} ELSE {NoLink})
        /\ UNCHANGED <<challenge, issued, faults>>
     \/ /\ authenticated /\ policy # "open"
        /\ ready' = "ready"
        /\ issued' = issued + 1
        /\ \/ challenge' = [nonce |-> issued + 1, cnonce |-> 0, usable |-> TRUE] /\ UNCHANGED faults
           \/ challenge' = [nonce |-> issued + 1, cnonce |-> 0, usable |-> FALSE] /\ Fault
        /\ link' = [NewLink EXCEPT !.nonce = issued + 1]
     \/ /\ authenticated
        /\ Fault
        /\ ready' = "failed"
        /\ UNCHANGED <<challenge, link, issued>>
  /\ UNCHANGED <<policy, authenticated, pc, attempt, got, executed>>
  /\ UNCHANGED lockVars /\ UNCHANGED historyVars

---------------------------------------------------------------------------------
(* The client and the daemon. *)

\* What the client sends for a call: its request, with the answer to a challenge if the nonce is
\* not 0.
Request(c, nonce, cnonce) == [call |-> c, nonce |-> nonce, cnonce |-> cnonce]

\* The client's connection l after a request was sent: a new one if it has none. On one the peer
\* has closed the request is lost, on one with a dropped call's exchange it is not sent:
\* RequestFails tells the caller.
Sent(l, request) ==
  CASE l.state = "none" -> [NewLink EXCEPT !.requests = <<request>>]
    [] l.state = "live" -> [l EXCEPT !.requests = Append(@, request)]
    [] OTHER -> l

\* The connection after the head of its replies was taken.
Taken == [link EXCEPT !.replies = Tail(@)]

\* The connections left by dropping a response without reading its body: a short body (a 401) is
\* drained, a full response is drained or makes the client close the connection.
AfterDrop(reply) ==
  IF reply.status = "unauthorized" THEN {Taken} ELSE {Taken, DeadLink}

\* The daemon answers one request. It runs it if it asks for no authentication, or if the answer
\* to its challenge is one it has not seen on this connection. A fault makes it refuse a valid one
\* as stale, or send a header the client cannot read or a challenge the client cannot answer.
Answer(request, status, header, nonce) ==
  [call |-> request.call, status |-> status, header |-> header, nonce |-> nonce]

Accepts(request) ==
  \/ policy = "open"
  \/ /\ policy = "auth"
     /\ request.nonce # 0 /\ request.nonce = link.nonce
     /\ request.cnonce \notin link.used

Serve(request, reply) ==
  link' = [link EXCEPT !.requests = Tail(@), !.replies = Append(@, reply),
                       !.nonce = IF reply.nonce = 0 THEN @ ELSE reply.nonce,
                       !.used = IF reply.nonce = 0 THEN @ \cup {request.cnonce} ELSE {}]

DaemonRuns(request) ==
  /\ Accepts(request)
  /\ Serve(request, Answer(request, "ok", "none", 0))
  /\ executed' = [executed EXCEPT ![request.call] = @ + 1]
  /\ UNCHANGED <<issued, faults, excused>>

DaemonRefuses(request) ==
  /\ issued' = issued + 1
  /\ \/ /\ ~Accepts(request)
        /\ \E header \in IF request.nonce = 0 THEN {"fresh"}
                         ELSE IF policy = "deny" THEN {"fresh", "stale"} ELSE {"stale"} :
             Serve(request, Answer(request, "unauthorized", header, issued + 1))
        /\ UNCHANGED <<faults, excused>>
     \/ /\ policy # "open"
        /\ Fault
        /\ \E header \in {"unusable", "stale", "garbled"} :
             Serve(request, Answer(request, "unauthorized", header, issued + 1))
        /\ excused' = excused \cup {request.call}
  /\ UNCHANGED executed

DaemonAnswers ==
  /\ link.state \in {"live", "left"} /\ link.requests # <<>>
  /\ DaemonRuns(Head(link.requests)) \/ DaemonRefuses(Head(link.requests))
  /\ UNCHANGED <<policy, authenticated, ready, challenge, pc, attempt, got, sent>>
  /\ UNCHANGED lockVars

\* The calls that have used the connection and are not done with it.
Exchanging == {c \in Calls : pc[c] \in OnWire \/ (pc[c] = "conn" /\ attempt[c] = 1)}

\* The connection is lost, whether or not the daemon ran what it received.
ConnectionDies ==
  /\ link.state \in {"live", "left"}
  /\ Fault
  /\ link' = DeadLink
  /\ excused' = excused \cup Exchanging
  /\ UNCHANGED <<authenticated, ready, challenge, pc, attempt, got, sent>>
  /\ UNCHANGED lockVars /\ UNCHANGED daemonVars

\* The response to a call which was dropped arrives when no other is under way: the client
\* discards it, and keeps the connection.
DiscardReply ==
  /\ link.state = "left" /\ link.replies # <<>>
  /\ \A c \in Calls : pc[c] \notin OnWire
  /\ link' = [Taken EXCEPT !.state = "live"]
  /\ UNCHANGED <<authenticated, ready, challenge, pc, attempt, got, faults>>
  /\ UNCHANGED lockVars /\ UNCHANGED daemonVars /\ UNCHANGED historyVars

---------------------------------------------------------------------------------
(* inner_post, from await to await. *)

\* A call waits for the daemon, holding both guards.
Await(c, place) ==
  /\ pc' = [pc EXCEPT ![c] = place]
  /\ outer' = c /\ connection' = c

\* A mutex after call c is gone: its guard, if it held it, is dropped.
\* Mistakes: a call still queued for a mutex frees it; a dropped guard leaves its mutex locked.
FreedByAnyone(mutex, c) == None
NeverFreed(mutex, c) == mutex
Freed(mutex, c) == IF mutex = c THEN None ELSE mutex

\* Ending a call, however it ends, drops the guards it holds.
Finish(c, result) ==
  /\ pc' = [pc EXCEPT ![c] = result]
  /\ outer' = Freed(outer, c)
  /\ connection' = Freed(connection, c)

\* `post` is called and awaits the transport's mutex.
Post(c) ==
  /\ ready = "ready"
  /\ pc[c] = "idle"
  /\ pc' = [pc EXCEPT ![c] = "lock"]
  /\ UNCHANGED <<authenticated, ready, challenge, attempt, got, link, faults>>
  /\ UNCHANGED lockVars /\ UNCHANGED daemonVars /\ UNCHANGED historyVars

\* Mistake: simultaneous requests are not held off.
Unlocked == TRUE
OuterUnlocked == outer = None

\* read_response_before_next_request.lock(): without authentication, the request follows at once.
LockOuter(c) ==
  /\ pc[c] = "lock"
  /\ OuterUnlocked
  /\ outer' = c
  /\ \/ /\ authenticated
        /\ pc' = [pc EXCEPT ![c] = "conn"]
        /\ UNCHANGED link
     \/ /\ ~authenticated
        /\ pc' = [pc EXCEPT ![c] = "response"]
        /\ link' = Sent(link, Request(c, 0, 0))
  /\ UNCHANGED <<authenticated, ready, connection, challenge, attempt, got, faults>>
  /\ UNCHANGED daemonVars /\ UNCHANGED historyVars

\* Mistake: the counter is not advanced.
SameCnonce(ch) == ch

\* *cnonce += 1
NextCnonce(ch) == [ch EXCEPT !.cnonce = @ + 1]

\* "Insert the challenge response, if we have a challenge" ch, and send the request on l.
SendRequest(c, l, ch) ==
  \/ /\ ch = None
     /\ challenge' = None
     /\ link' = Sent(l, Request(c, 0, 0))
     /\ Await(c, "response")
     /\ UNCHANGED sent
  \/ /\ ch # None
     /\ ch.usable
     /\ challenge' = NextCnonce(ch)
     /\ link' = Sent(l, Request(c, ch.nonce, NextCnonce(ch).cnonce))
     /\ sent' = sent \cup {<<ch.nonce, NextCnonce(ch).cnonce>>}
     /\ Await(c, "response")
  \/ /\ ch # None
     /\ ~ch.usable
     /\ challenge' = NextCnonce(ch)
     /\ link' = l
     /\ Finish(c, "err")
     /\ UNCHANGED sent

\* connection.lock(): "If we don't have an auth challenge, obtain one" with the request itself.
LockConnection(c) ==
  /\ pc[c] = "conn"
  /\ connection = None
  /\ \/ /\ challenge = None
        /\ link' = Sent(link, Request(c, 0, 0))
        /\ Await(c, "challenge")
        /\ excused' = IF attempt[c] = 0 THEN excused \cup {c} ELSE excused
        /\ UNCHANGED <<challenge, sent>>
     \/ /\ challenge # None
        /\ SendRequest(c, link, challenge)
        /\ excused' = IF challenge.usable THEN excused ELSE excused \cup {c}
  /\ UNCHANGED <<authenticated, ready, attempt, got, faults>>
  /\ UNCHANGED daemonVars

\* The next reply on the connection reaches a call awaiting one at `place`.
Hears(c, place) ==
  /\ pc[c] = place
  /\ link.state = "live" /\ link.replies # <<>>

\* The headers of the reply to the request for a challenge arrive. Its body is dropped.
ChallengeReply(c) ==
  /\ Hears(c, "challenge")
  /\ LET reply == Head(link.replies)
     IN \E l \in AfterDrop(reply) :
          \/ /\ reply.header = "garbled"
             /\ link' = l
             /\ Finish(c, "err")
             /\ UNCHANGED <<challenge, sent>>
          \/ /\ reply.header # "garbled"
             /\ SendRequest(c, l, DigestAuthChallenge(reply))
  /\ UNCHANGED <<authenticated, ready, attempt, got, faults, excused>>
  /\ UNCHANGED daemonVars

\* Whether a failed attempt is followed by another. Mistake: always.
RetriesForever(c) == TRUE
Retries(c) == attempt[c] = 0

\* The cached challenge after a failed attempt. Mistake: it is kept.
KeptChallenge == challenge
DroppedChallenge == None

\* The connection's mutex when an attempt is over: its guard is the loop body's. Mistake: the guard
\* outlives the attempt.
KeptGuard(c) == connection
AttemptGuard(c) == None

\* `error.is_some() || is_stale`: the challenge is dropped, and the first attempt is followed by a
\* second, which has to lock the connection again.
DropChallengeAndRetry(c) ==
  /\ challenge' = DroppedChallenge
  /\ \/ /\ Retries(c)
        /\ attempt' = [attempt EXCEPT ![c] = @ + 1]
        /\ pc' = [pc EXCEPT ![c] = "conn"]
        /\ connection' = AttemptGuard(c)
        /\ UNCHANGED outer
     \/ /\ ~Retries(c)
        /\ Finish(c, "err")
        /\ UNCHANGED attempt

\* The headers of the reply to the request arrive. is_stale is whether a 401 names staleness; any
\* other reply, a plain 401 too, is the call's response.
ResponseHeaders(c) ==
  /\ Hears(c, "response")
  /\ LET reply == Head(link.replies)
     IN \/ /\ authenticated /\ reply.header = "garbled"
           /\ link' \in AfterDrop(reply)
           /\ Finish(c, "err")
           /\ UNCHANGED <<challenge, attempt, got>>
        \/ /\ authenticated /\ reply.header = "stale"
           /\ link' \in AfterDrop(reply)
           /\ DropChallengeAndRetry(c)
           /\ UNCHANGED got
        \/ /\ ~authenticated \/ reply.header \notin {"garbled", "stale"}
           /\ link' = Taken
           /\ pc' = [pc EXCEPT ![c] = "body"]
           /\ got' = [got EXCEPT ![c] = reply.call]
           /\ UNCHANGED <<outer, connection, challenge, attempt>>
  /\ UNCHANGED <<authenticated, ready, faults>>
  /\ UNCHANGED daemonVars /\ UNCHANGED historyVars

\* body_from_response completes. One over response_size_limit ends the call as a lost connection
\* does.
ReadBody(c) ==
  /\ pc[c] = "body"
  /\ link.state = "live"
  /\ Finish(c, "ok")
  /\ UNCHANGED <<authenticated, ready, challenge, attempt, got, link, faults>>
  /\ UNCHANGED daemonVars /\ UNCHANGED historyVars

\* An await on the connection fails; the client drops the connection. Only the failure of an
\* authenticated request is retried: `?` returns the others.
RequestFails(c) ==
  /\ pc[c] \in OnWire
  /\ link.state # "live"
  /\ link' = NoLink
  /\ \/ /\ authenticated /\ pc[c] = "response"
        /\ DropChallengeAndRetry(c)
     \/ /\ ~(authenticated /\ pc[c] = "response")
        /\ Finish(c, "err")
        /\ UNCHANGED <<challenge, attempt>>
  /\ UNCHANGED <<authenticated, ready, got, faults>>
  /\ UNCHANGED daemonVars /\ UNCHANGED historyVars

\* The connection as a call leaves it which is dropped before its response: closed, or with the
\* exchange still on it.
Abandoned == {DeadLink, IF link.state = "live" THEN [link EXCEPT !.state = "left"] ELSE link}

\* `post`'s timeout: the future is dropped where it stands. A body may have arrived already.
Timeout(c) ==
  /\ pc[c] \in Waiting \cup OnWire
  /\ link' \in CASE pc[c] \in Waiting -> {link}
                 [] pc[c] = "body" -> {link, DeadLink}
                 [] OTHER -> Abandoned
  /\ Finish(c, "err")
  /\ excused' = excused \cup {c}
  /\ UNCHANGED <<authenticated, ready, challenge, attempt, got, faults, sent>>
  /\ UNCHANGED daemonVars

---------------------------------------------------------------------------------

CallStep(c) ==
  \/ LockOuter(c) \/ LockConnection(c) \/ ChallengeReply(c)
  \/ ResponseHeaders(c) \/ ReadBody(c) \/ RequestFails(c)

\* Every call has ended, or there is no transport to call.
Terminated ==
  /\ ready = "failed" \/ \A c \in Calls : pc[c] \in Done
  /\ UNCHANGED vars

Next ==
  \/ WithCustomTimeout \/ DaemonAnswers \/ ConnectionDies \/ DiscardReply
  \/ \E c \in Calls : Post(c) \/ CallStep(c) \/ Timeout(c)
  \/ Terminated

Spec == Init /\ [][Next]_vars

\* The timer of a call that stays under way fires (tokio::time::timeout). Nothing is assumed of
\* the daemon, of the network, or of who gets a mutex.
Fairness == \A c \in Calls : WF_vars(Timeout(c))

FairSpec == Spec /\ Fairness

---------------------------------------------------------------------------------
(* Properties. *)

\* The transport's state, shared and of each call: in particular no call makes a third attempt.
TypeOK ==
  /\ policy \in Policies /\ authenticated \in BOOLEAN
  /\ ready \in {"connecting", "ready", "failed"}
  /\ outer \in Calls \cup {None} /\ connection \in Calls \cup {None}
  /\ challenge \in Challenges \cup {None}
  /\ pc \in [Calls -> {"idle"} \cup Waiting \cup OnWire \cup Done]
  /\ attempt \in [Calls -> 0 .. 1]
  /\ got \in [Calls -> Calls \cup {None}]
  /\ link \in Links
  /\ issued \in Nat /\ faults \in Nat
  /\ executed \in [Calls -> Nat]
  /\ sent \in SUBSET (Nat \X Nat) /\ excused \in SUBSET Calls

\* The mutex keeps a second caller out from the moment the first is past it until its future is
\* gone, whichever way it goes: no two calls are ever past read_response_before_next_request, and
\* the connection's mutex is only ever held by the call that is.
OneCallAtATime ==
  /\ \A c \in Calls : pc[c] \in {"conn"} \cup OnWire => outer = c
  /\ connection # None => connection = outer
  /\ \A c \in Calls : authenticated /\ pc[c] \in OnWire => connection = c

\* A call is handed the response to its own request, although calls dropped by their timeouts leave
\* requests and responses on the shared connection, which the daemon serves while others are made.
OwnResponse == \A c \in Calls : got[c] \in {None, c}

\* "Update the cnonce": no answer to a challenge is sent twice, through retries, timeouts and
\* challenges that outlive the call that fetched them.
NoReplay ==
  [][\A c \in Calls :
       /\ pc[c] \in {"conn", "challenge"} /\ pc'[c] = "response"
       /\ challenge' # None
       => <<challenge'.nonce, challenge'.cnonce>> \notin sent]_vars

\* How often the daemon may run one call's request: once, unless a fault of the call's own made it
\* retry; twice at most when the daemon asks for authentication. A daemon that asks for none runs
\* the request for the challenge too.
ExecutionBound ==
  \A c \in Calls :
    /\ ~authenticated => executed[c] <= 1
    /\ policy = "auth" => executed[c] <= 2 /\ (c \notin excused => executed[c] <= 1)
    /\ policy = "open" => executed[c] <= 4
    /\ policy = "deny" => executed[c] = 0

\* A challenge that went stale, or a connection that died, between calls never fails a call: with
\* valid credentials, a cached challenge and no fault of its own, it succeeds by its retry.
InnocentCallSucceeds ==
  authenticated /\ policy = "auth" => \A c \in Calls : pc[c] = "err" => c \in excused

\* Whatever the daemon does, every call ends, and the transport is never left locked: whoever held
\* its mutexes, and wherever their futures were dropped, they are free again.
EveryCallEnds ==
  /\ \A c \in Calls : pc[c] = "lock" ~> pc[c] \in Done
  /\ []<>(outer = None /\ connection = None)

\* Calls never all wait on each other, or one on itself: while any waits for a mutex, one of them can
\* have the mutex it waits for, or one is with the daemon and will release those it holds.
NeverDeadlocked ==
  (\E c \in Calls : pc[c] \in Waiting) =>
    \E c \in Calls : \/ pc[c] = "lock" /\ outer = None
                     \/ pc[c] = "conn" /\ connection = None
                     \/ pc[c] \in OnWire

\* The calls as their callers see them.
PhaseOf(c) ==
  CASE pc[c] = "lock" -> "waiting"
    [] pc[c] \in {"conn"} \cup OnWire -> "serving"
    [] OTHER -> pc[c]
Abstract == INSTANCE SerialCalls WITH phase <- [c \in Calls |-> PhaseOf(c)]

\* The transport implements the trait's promise: calls served one at a time.
ServesCallsSerially == Abstract!Spec
================================================================================
