----------------------------- MODULE CurlProofs -----------------------------
(***************************************************************************)
(* curl_client (CurlClient), for any number of sockets, events and reads,  *)
(* any stream of chunks and any buffers: what libcurl waits for is waited  *)
(* for, a coroutine that reads is woken exactly once, the bytes it reads   *)
(* are those of the transfer, and a request is sent as it is wanted.       *)
(***************************************************************************)
EXTENDS CurlClient, CurlOptions, SequenceTheorems, TLAPS

-----------------------------------------------------------------------------
(***************************************************************************)
(* The sockets.  While event_cb() is inside libcurl the chain of waits it  *)
(* belongs to exists only on its stack: InterestInv counts that, and what  *)
(* libcurl leaves behind when it returns decides whether the chain goes on *)
(* or nobody is interested any more.                                       *)
(***************************************************************************)
SockTypeOK ==
  /\ DOMAIN sds \subseteq Fds /\ idSeq \in 0..MaxSockId
  /\ \A fd \in DOMAIN sds : sds[fd].id \in 1..MaxSockId /\ sds[fd].acts \subseteq Dirs
  /\ waits \in [Waits -> Nat] /\ events \in [Events -> Nat]
  /\ action = NoAction \/ action \in Actions

Handled(w) == action # NoAction /\ action.by = "event" /\ action.event.wait = w

Due(w) == \E err \in BOOLEAN : events[[wait |-> w, err |-> err]] > 0

Covered(w) == waits[w] > 0 \/ Due(w) \/ Handled(w)

InterestInv ==
  /\ SockTypeOK
  /\ \A fd \in DOMAIN sds : \A d \in sds[fd].acts : Covered(Wait(fd, sds[fd].id, d))
  /\ \A w \in Waits : waits[w] > 0 => w.fd \in DOMAIN sds /\ w.id = sds[w.fd].id

LEMMA WaitIs ==
  ASSUME NEW fd \in Fds, NEW id \in 1..MaxSockId, NEW d \in Dirs
  PROVE  /\ Wait(fd, id, d) \in Waits
         /\ Wait(fd, id, d).fd = fd /\ Wait(fd, id, d).id = id /\ Wait(fd, id, d).dir = d
BY DEF Wait, Waits

LEMMA Wanted ==
  ASSUME SockTypeOK, NEW fd \in DOMAIN sds, NEW d \in sds[fd].acts
  PROVE  /\ fd \in Fds /\ d \in Dirs /\ sds[fd].id \in 1..MaxSockId
         /\ Wait(fd, sds[fd].id, d) \in Waits
BY WaitIs DEF SockTypeOK

LEMMA InterestStart == ClientInit => InterestInv
<1> SUFFICES ASSUME SocketsInit PROVE InterestInv
  BY DEF ClientInit
<1>1. DOMAIN sds = {} /\ action = NoAction /\ idSeq = 0
  BY DEF SocketsInit
<1>2. waits \in [Waits -> Nat] /\ events \in [Events -> Nat] /\ \A w \in Waits : waits[w] = 0
  BY DEF SocketsInit
<1> QED BY <1>1, <1>2, SocketsAssumption DEF InterestInv, SockTypeOK

\* The socket's wait turns into a handler that is due.
LEMMA ReadyKeeps ==
  ASSUME InterestInv, NEW v \in Waits, NEW err \in BOOLEAN, Ready(v, err)
  PROVE  InterestInv'
<1> DEFINE e == [wait |-> v, err |-> err]
<1>1. /\ sds' = sds /\ idSeq' = idSeq /\ action' = action /\ waits[v] > 0
      /\ waits' = [waits EXCEPT ![v] = @ - 1] /\ events' = [events EXCEPT ![e] = @ + 1]
  BY DEF Ready
<1>2. waits \in [Waits -> Nat] /\ events \in [Events -> Nat]
  BY DEF InterestInv, SockTypeOK
<1>3. e \in Events
  BY DEF Events
<1>4. waits[v] \in Nat /\ waits[v] - 1 \in Nat /\ events[e] \in Nat /\ events[e] + 1 \in Nat
  BY <1>1, <1>2, <1>3
<1>5. waits' \in [Waits -> Nat] /\ events' \in [Events -> Nat]
  BY <1>1, <1>2, <1>4
<1>6. \A w \in Waits : w # v => waits'[w] = waits[w]
  BY <1>1, <1>2
<1>7. \A w \in Waits : waits'[w] > 0 => waits[w] > 0
  BY <1>1, <1>2, <1>4
<1>8. \A x \in Events : events[x] > 0 => events'[x] > 0
  BY <1>1, <1>2, <1>4
<1>9. events'[e] > 0
  BY <1>1, <1>2, <1>3, <1>4
<1>10. ASSUME NEW w \in Waits, Covered(w) PROVE Covered(w)'
  <2>1. \A x \in BOOLEAN : [wait |-> w, err |-> x] \in Events
    BY DEF Events
  <2>2. CASE w = v
    BY <1>9, <2>2 DEF Covered, Due
  <2>3. CASE w # v
    BY <1>1, <1>6, <1>8, <1>10, <2>1, <2>3 DEF Covered, Due, Handled
  <2> QED BY <2>2, <2>3
<1>11. SockTypeOK'
  BY <1>1, <1>5 DEF InterestInv, SockTypeOK
<1> QED BY <1>1, <1>7, <1>10, <1>11, Wanted DEF InterestInv

\* The handler that is due runs.
LEMMA EventKeeps ==
  ASSUME InterestInv, NEW e \in Events, EventCb(e)
  PROVE  InterestInv'
<1>1. /\ sds' = sds /\ idSeq' = idSeq /\ waits' = waits /\ action = NoAction
      /\ action' = [by |-> "event", event |-> e] /\ events[e] > 0
      /\ events' = [events EXCEPT ![e] = @ - 1]
  BY DEF EventCb
<1>2. events \in [Events -> Nat]
  BY DEF InterestInv, SockTypeOK
<1>3. events[e] - 1 \in Nat
  BY <1>1, <1>2
<1>4. events' \in [Events -> Nat] /\ \A x \in Events : x # e => events'[x] = events[x]
  BY <1>1, <1>2, <1>3
<1>5. /\ action' \in Actions /\ action' # NoAction /\ action'.by = "event"
      /\ action'.event = e
  BY <1>1, SocketsAssumption DEF Actions
<1>6. ASSUME NEW w \in Waits, Covered(w) PROVE Covered(w)'
  <2>1. \A x \in BOOLEAN : [wait |-> w, err |-> x] \in Events /\ [wait |-> w, err |-> x].wait = w
    BY DEF Events
  <2>2. ~Handled(w)
    BY <1>1 DEF Handled
  <2>3. CASE e.wait = w
    BY <1>5, <2>3 DEF Covered, Handled
  <2>4. CASE e.wait # w
    BY <1>1, <1>4, <1>6, <2>1, <2>2, <2>4 DEF Covered, Due
  <2> QED BY <2>3, <2>4
<1>7. SockTypeOK'
  BY <1>1, <1>4, <1>5 DEF InterestInv, SockTypeOK
<1> QED BY <1>1, <1>6, <1>7, Wanted DEF InterestInv

\* The client calls libcurl for another reason, or libcurl sets its time-out.
LEMMA OtherCallKeeps ==
  ASSUME InterestInv, UNCHANGED <<sds, waits, events, idSeq>>,
         action' = action \/ (action' \in [by : {"timeout", "start", "nested", "remove"}]
                              /\ (action # NoAction => action.by # "event"))
  PROVE  InterestInv'
<1>1. action' = NoAction \/ action' \in Actions
  BY DEF InterestInv, SockTypeOK, Actions
<1>2. SockTypeOK'
  BY <1>1 DEF InterestInv, SockTypeOK
<1>3. ASSUME NEW w \in Waits, Handled(w) PROVE Handled(w)'
  BY <1>3 DEF Handled
<1>4. ASSUME NEW w \in Waits, Covered(w) PROVE Covered(w)'
  BY <1>3, <1>4 DEF Covered, Due
<1> QED BY <1>2, <1>4, Wanted DEF InterestInv

\* multi_sock_cb(): each direction the socket did not have before gets a wait.
LEMMA PollKeeps ==
  ASSUME InterestInv, NEW fd \in Fds, NEW acts \in SUBSET Dirs, SockPoll(fd, acts)
  PROVE  InterestInv'
<1> DEFINE known == fd \in DOMAIN sds
           id    == IF known THEN sds[fd].id ELSE idSeq + 1
           had   == IF known THEN sds[fd].acts ELSE {}
<1>1. /\ id <= MaxSockId /\ idSeq' = IF known THEN idSeq ELSE id
      /\ sds' = [f \in DOMAIN sds \cup {fd} |->
                   IF f = fd THEN [id |-> id, acts |-> acts] ELSE sds[f]]
      /\ waits' = [w \in Waits |-> IF w.fd = fd /\ w.id = id /\ w.dir \in acts \ had
                                   THEN waits[w] + 1 ELSE waits[w]]
      /\ events' = events /\ action' = action
  BY DEF SockPoll
<1>2. /\ waits \in [Waits -> Nat] /\ DOMAIN sds \subseteq Fds /\ idSeq \in 0..MaxSockId
      /\ \A f \in DOMAIN sds : sds[f].id \in 1..MaxSockId /\ sds[f].acts \subseteq Dirs
  BY DEF InterestInv, SockTypeOK
<1>3. id \in 1..MaxSockId /\ idSeq' \in 0..MaxSockId
  BY <1>1, <1>2, SocketsAssumption
<1>4. known => id = sds[fd].id /\ had = sds[fd].acts
  OBVIOUS
<1>5. ~known => had = {}
  OBVIOUS
<1> HIDE DEF id, had
<1>6. /\ DOMAIN sds' = DOMAIN sds \cup {fd} /\ sds'[fd].id = id /\ sds'[fd].acts = acts
      /\ \A f \in DOMAIN sds : f # fd => sds'[f] = sds[f]
  BY <1>1
<1>7. \A w \in Waits : waits[w] \in Nat /\ waits[w] + 1 \in Nat /\ waits[w] + 1 > 0
  BY <1>2
<1>8. waits' \in [Waits -> Nat]
  BY <1>1, <1>7
<1>9. \A w \in Waits : /\ waits[w] > 0 => waits'[w] > 0
                       /\ w.fd = fd /\ w.id = id /\ w.dir \in acts \ had => waits'[w] > 0
                       /\ waits'[w] > 0 => waits[w] > 0 \/ (w.fd = fd /\ w.id = id)
  BY <1>1, <1>7
<1>10. SockTypeOK'
  <2>1. \A f \in DOMAIN sds' : sds'[f].id \in 1..MaxSockId /\ sds'[f].acts \subseteq Dirs
    BY <1>2, <1>3, <1>6
  <2> QED BY <1>1, <1>2, <1>3, <1>6, <1>8, <2>1 DEF InterestInv, SockTypeOK
<1>11. ASSUME NEW w \in Waits, Covered(w) PROVE Covered(w)'
  BY <1>1, <1>9, <1>11 DEF Covered, Due, Handled
<1>12. ASSUME NEW f \in DOMAIN sds', NEW d \in sds'[f].acts
       PROVE  Covered(Wait(f, sds[f].id, d))'
  <2>1. f \in Fds /\ d \in Dirs /\ sds'[f].id \in 1..MaxSockId
    BY <1>10 DEF SockTypeOK
  <2> DEFINE w == Wait(f, sds'[f].id, d)
  <2>2. w \in Waits /\ w.fd = f /\ w.id = sds'[f].id /\ w.dir = d
    BY <2>1, WaitIs
  <2>3. CASE f = fd /\ d \notin had
    <3>1. waits'[w] > 0
      BY <1>6, <1>9, <2>2, <2>3
    <3> QED BY <3>1 DEF Covered
  <2>4. CASE f # fd \/ d \in had
    <3>1. f \in DOMAIN sds /\ d \in sds[f].acts /\ sds'[f].id = sds[f].id
      BY <1>4, <1>5, <1>6, <2>4
    <3>2. Covered(Wait(f, sds[f].id, d)) /\ Wait(f, sds[f].id, d) \in Waits
      BY <3>1, Wanted DEF InterestInv
    <3> QED BY <1>1, <1>9, <3>1, <3>2 DEF Covered, Due, Handled
  <2> QED BY <2>3, <2>4
<1>13. ASSUME NEW w \in Waits, waits'[w] > 0 PROVE w.fd \in DOMAIN sds' /\ w.id = sds'[w.fd].id
  <2>1. CASE w.fd = fd /\ w.id = id
    BY <1>6, <2>1
  <2>2. CASE waits[w] > 0
    BY <1>4, <1>6, <2>2 DEF InterestInv
  <2> QED BY <1>9, <1>13, <2>1, <2>2
<1> QED BY <1>10, <1>12, <1>13 DEF InterestInv

\* CURL_POLL_REMOVE: no wait of the socket is left.
LEMMA RemoveKeeps ==
  ASSUME InterestInv, NEW fd \in Fds, SockRemove(fd)
  PROVE  InterestInv'
<1>1. /\ sds' = [f \in DOMAIN sds \ {fd} |-> sds[f]]
      /\ waits' = [w \in Waits |-> IF w.fd = fd THEN 0 ELSE waits[w]]
      /\ events' = events /\ action' = action /\ idSeq' = idSeq
  BY DEF SockRemove
<1>2. waits \in [Waits -> Nat]
  BY DEF InterestInv, SockTypeOK
<1>3. waits' \in [Waits -> Nat] /\ \A w \in Waits : /\ w.fd = fd => waits'[w] = 0
                                                    /\ w.fd # fd => waits'[w] = waits[w]
  BY <1>1, <1>2
<1>4. DOMAIN sds' = DOMAIN sds \ {fd} /\ \A f \in DOMAIN sds' : f # fd /\ sds'[f] = sds[f]
  BY <1>1
<1>5. SockTypeOK'
  BY <1>1, <1>3, <1>4 DEF InterestInv, SockTypeOK
<1>6. ASSUME NEW f \in DOMAIN sds', NEW d \in sds'[f].acts
      PROVE  Covered(Wait(f, sds[f].id, d))'
  <2>1. f \in DOMAIN sds /\ f # fd /\ sds'[f] = sds[f] /\ d \in sds[f].acts
    BY <1>4
  <2>2. /\ Covered(Wait(f, sds[f].id, d)) /\ Wait(f, sds[f].id, d) \in Waits
        /\ Wait(f, sds[f].id, d).fd = f
    BY <2>1, Wanted, WaitIs DEF InterestInv
  <2> QED BY <1>1, <1>3, <2>1, <2>2 DEF Covered, Due, Handled
<1>7. ASSUME NEW w \in Waits, waits'[w] > 0 PROVE w.fd \in DOMAIN sds' /\ w.id = sds'[w.fd].id
  BY <1>3, <1>4, <1>7 DEF InterestInv
<1> QED BY <1>5, <1>6, <1>7 DEF InterestInv

\* The call into libcurl returns.  The chain of the event's wait goes on, unless the
\* event was an error, in which case libcurl has closed the socket; no transfer is
\* left, in which case it waits for nothing; or it lost interest in the direction.
LEMMA ReturnKeeps ==
  ASSUME InterestInv, LibcurlReturns
  PROVE  InterestInv'
<1> DEFINE chained == /\ action.by = "event" /\ ~action.event.err /\ Running
                      /\ Rearms(action.event.wait)
           v == action.event.wait
<1>1. /\ action # NoAction /\ action' = NoAction /\ LibcurlMayReturn
      /\ waits' = IF chained THEN [waits EXCEPT ![v] = @ + 1] ELSE waits
      /\ sds' = sds /\ events' = events /\ idSeq' = idSeq
  BY DEF LibcurlReturns, ActionEnds
<1>2. waits \in [Waits -> Nat] /\ action \in Actions
  BY <1>1 DEF InterestInv, SockTypeOK
<1>3. action.by = "event" => action.event \in Events /\ v \in Waits
  BY <1>2 DEF Actions, Events
<1>4. chained => v \in Waits /\ v.fd \in DOMAIN sds /\ v.id = sds[v.fd].id
  BY <1>3 DEF Rearms
<1>5. waits' \in [Waits -> Nat] /\ \A w \in Waits : /\ waits[w] > 0 => waits'[w] > 0
                                                    /\ chained /\ w = v => waits'[w] > 0
                                                    /\ waits'[w] > 0 => waits[w] > 0 \/ (chained /\ w = v)
  <2>1. CASE chained
    <3>1. waits[v] + 1 \in Nat /\ waits[v] + 1 > 0
      BY <1>2, <1>4, <2>1
    <3> HIDE DEF chained, v
    <3>2. waits' = [waits EXCEPT ![v] = waits[v] + 1]
      BY <1>1, <2>1
    <3> QED BY <1>2, <1>4, <2>1, <3>1, <3>2
  <2>2. CASE ~chained
    <3> HIDE DEF chained
    <3> QED BY <1>1, <1>2, <2>2
  <2> QED BY <2>1, <2>2
<1>6. SockTypeOK'
  BY <1>1, <1>5 DEF InterestInv, SockTypeOK
<1>7. ASSUME NEW f \in DOMAIN sds, NEW d \in sds[f].acts
      PROVE  Covered(Wait(f, sds[f].id, d))'
  <2> DEFINE w == Wait(f, sds[f].id, d)
  <2>1. Covered(w) /\ w \in Waits /\ w.fd = f /\ w.id = sds[f].id /\ w.dir = d
    BY Wanted, WaitIs DEF InterestInv
  <2> HIDE DEF w
  <2>2. CASE waits[w] > 0 \/ Due(w)
    BY <1>1, <1>5, <2>1, <2>2 DEF Covered, Due, w
  <2>3. CASE Handled(w)
    <3>1. action.by = "event" /\ v = w /\ Rearms(v)
      BY <2>1, <2>3 DEF Handled, Rearms
    <3>2. ~action.event.err
      BY <1>1, <2>1, <3>1 DEF LibcurlMayReturn
    <3>3. InSocketAction
      BY <1>1, <3>1 DEF InSocketAction
    <3>4. lib.added
      BY <1>1 DEF LibcurlMayReturn
    <3>5. Running
      BY <1>1, <3>3, <3>4 DEF LibcurlMayReturn, Running
    <3>6. waits'[w] > 0
      BY <1>5, <2>1, <3>1, <3>2, <3>5
    <3> QED BY <1>1, <3>6 DEF Covered, w
  <2> QED BY <2>1, <2>2, <2>3 DEF Covered
<1>8. ASSUME NEW w \in Waits, waits'[w] > 0 PROVE w.fd \in DOMAIN sds' /\ w.id = sds'[w.fd].id
  BY <1>1, <1>4, <1>5, <1>8 DEF InterestInv
<1> QED BY <1>1, <1>6, <1>7, <1>8 DEF InterestInv

LEMMA InterestStep == InterestInv /\ [ClientNext]_clientVars => InterestInv'
<1> SUFFICES ASSUME InterestInv, [ClientNext]_clientVars PROVE InterestInv'
  OBVIOUS
<1>1. CASE UNCHANGED sockVars
  BY <1>1, OtherCallKeeps DEF sockVars
<1>2. ASSUME NEW by \in {"start", "remove"}, CallLib(by) PROVE InterestInv'
  BY <1>2, OtherCallKeeps DEF CallLib
<1>3. CASE TimeoutCb
  BY <1>3, OtherCallKeeps DEF TimeoutCb
<1>4. ASSUME NEW ms, TimerCb(ms) PROVE InterestInv'
  BY <1>4, OtherCallKeeps DEF TimerCb
<1>5. CASE TimerExpires
  BY <1>5, OtherCallKeeps DEF TimerExpires
<1>6. CASE AwaitRead
  BY <1>2, <1>6 DEF AwaitRead
<1>7. CASE InLibcurl
  BY <1>1, <1>4, <1>7, PollKeeps, RemoveKeeps DEF InLibcurl
<1>8. CASE LibcurlReturns
  BY <1>8, ReturnKeeps
<1>9. CASE Handlers
  BY <1>1, <1>3, <1>9, EventKeeps DEF Handlers
<1>10. CASE Recycles
  BY <1>1, <1>2, <1>10 DEF Recycles
<1>11. CASE Network
  BY <1>5, <1>11, ReadyKeeps DEF Network
<1> QED BY <1>1, <1>6, <1>7, <1>8, <1>9, <1>10, <1>11 DEF ClientNext, clientVars

\* What libcurl waits for is waited for by the client, whatever the events and the
\* callbacks inside socket_action() (event_cb(), multi_sock_cb()).
THEOREM InterestAlways == ClientSpec => []InterestKept
<1>1. InterestInv => InterestKept
  BY DEF InterestInv, InterestKept, Covered, Due, Handled
<1> QED BY <1>1, InterestStart, InterestStep, PTL DEF ClientSpec

-----------------------------------------------------------------------------
(***************************************************************************)
(* The request.  A read that is under way has no handler posted; one that  *)
(* is paused or finished has exactly one, until the coroutine has it.  A   *)
(* failed start breaks this (it both posts a resumption and goes on, see   *)
(* Started), so the invariant speaks of requests that met none.            *)
(***************************************************************************)
LibType ==
  [added : BOOLEAN, stream : Streams \cup {<<>>}, pos : Nat, held : BOOLEAN]

Posts == {<<>>, <<"lock">>, <<"resume">>}

RequestInv ==
  /\ rstate \in {"reseted", "running", "paused", "finished"}
  /\ coro \in {"user", "suspended"} /\ posted \in Posts
  /\ rstate = "running" => coro = "suspended" /\ posted = <<>>
  /\ coro = "user" => posted = <<>> /\ aw = NoAwaiter
  /\ coro = "suspended" => rstate # "reseted" /\ (rstate # "running" => posted # <<>>)
  /\ lib.held <=> rstate = "paused"
  /\ rstate \in {"reseted", "finished"} => ~lib.added
  /\ rstate = "paused" => lib.added
  /\ rstate = "running" => lib.added \/ verdict = "failed"

\* A read is in the middle of await_suspend() until its call into libcurl returns.
InCall == action # NoAction /\ action.by \in {"start", "nested"} => coro = "suspended"

WokenInv == lib \in LibType /\ (crashed = "none" => RequestInv)

LEMMA WokenStart == ClientInit => WokenInv
<1> SUFFICES ASSUME TransferInit PROVE WokenInv
  BY DEF ClientInit
<1>1. lib = [added |-> FALSE, stream |-> <<>>, pos |-> 1, held |-> FALSE]
  BY DEF TransferInit, Idle
<1>2. lib \in LibType
  BY <1>1 DEF LibType
<1> QED BY <1>1, <1>2 DEF TransferInit, WokenInv, RequestInv, Posts

\* What libcurl's offer of a chunk does to the request.
LEMMA OfferFacts ==
  ASSUME NEW a, NEW p, lib \in LibType, Offer(a, p, lib)
  PROVE  /\ lib' \in LibType /\ lib'.added = lib.added
         /\ crashed' = "none" => crashed = "none"
         /\ \/ lib'.held = FALSE /\ rstate' = "running" /\ posted' = posted
            \/ lib'.held = TRUE /\ rstate' = "paused" /\ posted' = Append(posted, "lock")
<1>1. crashed' = crashed \/ crashed' = "pause_kind"
  BY DEF Offer
<1>2. \/ /\ lib' = [lib EXCEPT !.pos = @ + 1, !.held = FALSE]
         /\ rstate' = "running" /\ posted' = posted
      \/ /\ lib' = [lib EXCEPT !.held = TRUE]
         /\ rstate' = "paused" /\ posted' = Append(posted, "lock")
      \/ /\ lib' = [lib EXCEPT !.held = FALSE]
         /\ rstate' = "running" /\ posted' = posted
  BY DEF Offer
<1>3. /\ lib' \in LibType /\ lib'.added = lib.added
      /\ \/ lib'.held = FALSE /\ rstate' = "running" /\ posted' = posted
         \/ lib'.held = TRUE /\ rstate' = "paused" /\ posted' = Append(posted, "lock")
  <2>1. CASE /\ lib' = [lib EXCEPT !.pos = @ + 1, !.held = FALSE]
             /\ rstate' = "running" /\ posted' = posted
    <3>1. lib.pos + 1 \in Nat
      BY DEF LibType
    <3> QED BY <2>1, <3>1 DEF LibType
  <2>2. CASE /\ lib' = [lib EXCEPT !.held = TRUE]
             /\ rstate' = "paused" /\ posted' = Append(posted, "lock")
    <3>1. lib' \in LibType /\ lib'.added = lib.added /\ lib'.held = TRUE
      BY <2>2 DEF LibType
    <3> QED BY <2>2, <3>1
  <2>3. CASE /\ lib' = [lib EXCEPT !.held = FALSE]
             /\ rstate' = "running" /\ posted' = posted
    BY <2>3 DEF LibType
  <2> QED BY <1>2, <2>1, <2>2, <2>3
<1> QED BY <1>1, <1>3

LEMMA AwaitReadWakes ==
  ASSUME WokenInv, AwaitRead
  PROVE  WokenInv'
<1>1. ASSUME NEW r \in Shapes, NEW stream \in Streams, NEW added \in BOOLEAN,
             StartRead(r, stream, added)
      PROVE  WokenInv'
  <2>1. /\ lib' = [added |-> added, stream |-> stream, pos |-> 1, held |-> FALSE]
        /\ rstate' = "running" /\ coro' = "suspended" /\ posted' = posted
        /\ verdict' = IF added THEN "open" ELSE "failed"
        /\ coro = "user" /\ crashed = "none"
    BY <1>1 DEF StartRead, MayRead
  <2>2. lib' \in LibType /\ lib'.added = added /\ lib'.held = FALSE
    BY <2>1 DEF LibType
  <2>3. posted = <<>>
    BY <2>1 DEF WokenInv, RequestInv
  <2> QED BY <2>1, <2>2, <2>3 DEF WokenInv, RequestInv, Posts
<1>2. ASSUME NEW r \in Shapes, ContinueRead(r) PROVE WokenInv'
  <2>1. /\ coro = "user" /\ crashed = "none" /\ rstate = "paused" /\ coro' = "suspended"
        /\ Offer(Awaiter(r), PauseAtInit(r.mode), lib)
    BY <1>2 DEF ContinueRead, MayRead
  <2>2. lib \in LibType /\ RequestInv
    BY <2>1 DEF WokenInv
  <2>3. posted = <<>> /\ lib.added /\ Append(posted, "lock") = <<"lock">>
    BY <2>1, <2>2 DEF RequestInv
  <2>4. /\ lib' \in LibType /\ lib'.added = lib.added
        /\ \/ lib'.held = FALSE /\ rstate' = "running" /\ posted' = posted
           \/ lib'.held = TRUE /\ rstate' = "paused" /\ posted' = Append(posted, "lock")
    BY <2>1, <2>2, OfferFacts
  <2>5. CASE lib'.held = FALSE /\ rstate' = "running" /\ posted' = posted
    BY <2>1, <2>3, <2>4, <2>5 DEF WokenInv, RequestInv, Posts
  <2>6. CASE lib'.held = TRUE /\ rstate' = "paused" /\ posted' = Append(posted, "lock")
    <3>1. posted' = <<"lock">> /\ lib'.added
      BY <2>3, <2>4, <2>6
    <3> QED BY <2>1, <2>4, <2>6, <3>1 DEF WokenInv, RequestInv, Posts
  <2> QED BY <2>4, <2>5, <2>6
<1> QED BY <1>1, <1>2 DEF AwaitRead

LEMMA DeliverWakes ==
  ASSUME WokenInv, Deliver
  PROVE  WokenInv'
<1>1. lib \in LibType /\ lib.added /\ ~lib.held /\ Offer(aw, pause, lib) /\ coro' = coro
  BY DEF Deliver, WokenInv
<1>2. /\ lib' \in LibType /\ lib'.added = lib.added
      /\ crashed' = "none" => crashed = "none"
      /\ \/ lib'.held = FALSE /\ rstate' = "running" /\ posted' = posted
         \/ lib'.held = TRUE /\ rstate' = "paused" /\ posted' = Append(posted, "lock")
  BY <1>1, OfferFacts
<1>3. ASSUME crashed = "none" PROVE posted = <<>> /\ coro = "suspended"
  BY <1>1, <1>3 DEF WokenInv, RequestInv
<1>4. SUFFICES ASSUME crashed' = "none" PROVE RequestInv'
  BY <1>2 DEF WokenInv
<1>5. posted = <<>> /\ coro' = "suspended" /\ lib'.added
  BY <1>1, <1>2, <1>3, <1>4
<1>6. CASE lib'.held = FALSE /\ rstate' = "running" /\ posted' = posted
  BY <1>5, <1>6 DEF RequestInv, Posts
<1>7. CASE lib'.held = TRUE /\ rstate' = "paused" /\ posted' = Append(posted, "lock")
  <2>1. posted' = <<"lock">>
    BY <1>5, <1>7
  <2> QED BY <1>5, <1>7, <2>1 DEF RequestInv, Posts
<1> QED BY <1>2, <1>6, <1>7

\* RemoveDone and AssignFails: the transfer has ended, the read is answered.
LEMMA EndWakes ==
  ASSUME WokenInv, RemoveDone \/ AssignFails
  PROVE  WokenInv'
<1>1. /\ lib \in LibType /\ lib.added /\ ~lib.held
      /\ lib' = [lib EXCEPT !.added = FALSE] /\ rstate' = "finished"
      /\ posted' = Append(posted, "resume") /\ coro' = coro /\ crashed' = crashed
  BY DEF RemoveDone, AssignFails, WokenInv
<1>2. lib' \in LibType /\ lib'.added = FALSE /\ lib'.held = lib.held
  BY <1>1 DEF LibType
<1>3. ASSUME crashed = "none" PROVE posted = <<>> /\ coro = "suspended"
  BY <1>1, <1>3 DEF WokenInv, RequestInv
<1>4. posted = <<>> => Append(posted, "resume") = <<"resume">>
  OBVIOUS
<1> QED BY <1>1, <1>2, <1>3, <1>4 DEF WokenInv, RequestInv, Posts

LEMMA ReturnWakes ==
  ASSUME WokenInv, InCall, LibcurlReturns
  PROVE  WokenInv'
<1>1. lib' = lib /\ verdict' = verdict /\ action # NoAction
  BY DEF LibcurlReturns, ActionEnds, transferVars
<1>2. CASE action.by \in {"start", "nested"}
  <2>1. coro = "suspended" /\ Started
    BY <1>1, <1>2 DEF InCall, LibcurlReturns
  <2>2. CASE UNCHANGED <<rstate, posted, coro, crashed>>
    BY <1>1, <2>1, <2>2 DEF WokenInv, RequestInv
  <2>3. CASE crashed' # "none"
    BY <1>1, <2>3 DEF WokenInv
  <2> QED BY <2>1, <2>2, <2>3 DEF Started
<1>3. CASE action.by \notin {"start", "nested"}
  BY <1>3 DEF LibcurlReturns, transferVars, WokenInv, RequestInv
<1> QED BY <1>2, <1>3

LEMMA HandlerWakes ==
  ASSUME WokenInv, PostUnderLock \/ Resume
  PROVE  WokenInv'
<1>1. lib' = lib /\ rstate' = rstate /\ verdict' = verdict /\ crashed' = crashed
  BY DEF PostUnderLock, Resume
<1>2. CASE PostUnderLock
  <2>1. posted # <<>> /\ Head(posted) = "lock" /\ posted' = Append(Tail(posted), "resume")
        /\ aw' = aw /\ coro' = coro
    BY <1>2 DEF PostUnderLock
  <2>2. posted \in Posts => posted = <<"lock">>
    BY <2>1 DEF Posts
  <2>3. posted = <<"lock">> => posted' = <<"resume">>
    BY <2>1
  <2> QED BY <1>1, <2>1, <2>2, <2>3 DEF WokenInv, RequestInv, Posts
<1>3. CASE Resume
  <2>1. posted # <<>> /\ Head(posted) = "resume" /\ posted' = Tail(posted)
        /\ aw' = NoAwaiter /\ coro' = "user"
    BY <1>3 DEF Resume
  <2>2. posted \in Posts => posted = <<"resume">>
    BY <2>1 DEF Posts
  <2>3. posted = <<"resume">> => posted' = <<>>
    BY <2>1
  <2> QED BY <1>1, <2>1, <2>2, <2>3 DEF WokenInv, RequestInv, Posts
<1> QED BY <1>2, <1>3

LEMMA RecycleWakes ==
  ASSUME WokenInv, Recycle
  PROVE  WokenInv'
<1>1. /\ lib' = [added |-> FALSE, stream |-> <<>>, pos |-> 1, held |-> FALSE]
      /\ rstate' = "reseted" /\ coro = "user" /\ crashed = "none"
      /\ UNCHANGED <<aw, posted, coro, crashed>>
  BY DEF Recycle, Idle
<1>2. lib' \in LibType /\ lib'.added = FALSE /\ lib'.held = FALSE
  BY <1>1 DEF LibType
<1> QED BY <1>1, <1>2 DEF WokenInv, RequestInv

LEMMA CallStep == InCall /\ [ClientNext]_clientVars => InCall'
<1> SUFFICES ASSUME InCall, [ClientNext]_clientVars PROVE InCall'
  OBVIOUS
<1>1. CASE UNCHANGED clientVars
  BY <1>1 DEF clientVars, sockVars, transferVars, InCall
<1>2. CASE AwaitRead
  BY <1>2 DEF AwaitRead, StartRead, ContinueRead, InCall
<1>3. CASE InLibcurl
  <2>1. coro' = coro
    BY <1>3 DEF InLibcurl, Transfers, Deliver, TransferEnds, RemoveDone, AssignFails, transferVars
  <2>2. action # NoAction
    BY <1>3 DEF InLibcurl, MutexFree
  <2>3. action' = action \/ action.by = "start"
    BY <1>3 DEF InLibcurl, SockPoll, SockRemove, TimerCb, sockVars
  <2> QED BY <2>1, <2>2, <2>3 DEF InCall
<1>4. CASE LibcurlReturns
  BY <1>4 DEF LibcurlReturns, ActionEnds, InCall
<1>5. CASE Handlers
  <2>1. CASE MutexFree /\ UNCHANGED sockVars
    BY <2>1 DEF MutexFree, sockVars, InCall
  <2>2. ASSUME NEW e \in Events, EventCb(e) PROVE InCall'
    BY <2>2 DEF EventCb, InCall
  <2>3. CASE TimeoutCb
    BY <2>3 DEF TimeoutCb, InCall
  <2> QED BY <1>5, <2>1, <2>2, <2>3 DEF Handlers
<1>6. CASE Recycles
  BY <1>6 DEF Recycles, MutexFree, CallLib, sockVars, InCall
<1>7. CASE Network
  BY <1>7 DEF Network, MutexFree, Ready, TimerExpires, InCall
<1> QED BY <1>1, <1>2, <1>3, <1>4, <1>5, <1>6, <1>7 DEF ClientNext

LEMMA WokenStep == WokenInv /\ InCall /\ [ClientNext]_clientVars => WokenInv'
<1> SUFFICES ASSUME WokenInv, InCall, [ClientNext]_clientVars PROVE WokenInv'
  OBVIOUS
<1>1. CASE UNCHANGED transferVars
  BY <1>1 DEF transferVars, WokenInv, RequestInv
<1>2. ASSUME NEW v, TransferEnds(v) PROVE WokenInv'
  <2>1. lib.added /\ UNCHANGED <<rstate, aw, lib, posted, coro, crashed>>
    BY <1>2 DEF TransferEnds
  <2> QED BY <2>1 DEF WokenInv, RequestInv
<1>3. CASE InLibcurl
  BY <1>1, <1>2, <1>3, DeliverWakes, EndWakes DEF InLibcurl, Transfers
<1>4. CASE Handlers
  BY <1>1, <1>4, HandlerWakes DEF Handlers
<1>5. CASE Recycles
  BY <1>5, RecycleWakes DEF Recycles
<1>6. CASE Network
  BY <1>1, <1>6 DEF Network
<1> QED BY <1>1, <1>3, <1>4, <1>5, <1>6, AwaitReadWakes, ReturnWakes DEF ClientNext, clientVars

\* A coroutine suspended in a read is woken exactly once, whatever the chunks, the
\* buffers and the moment at which the transfer pauses or ends, as long as no start
\* has failed (await_suspend(), async_resume_coro(), on_recycle()).
THEOREM WokenAlways == ClientSpec => []WokenOnce
<1>1. WokenInv => WokenOnce
  <2> SUFFICES ASSUME WokenInv, crashed = "none", ~StartFailed PROVE WokenOnce
    BY DEF WokenOnce
  <2>1. RequestInv
    BY DEF WokenInv
  <2>2. posted \in Posts => posted = <<>> \/ Len(posted) = 1
    BY DEF Posts
  <2>3. Len(<<>>) = 0
    OBVIOUS
  <2> QED BY <2>1, <2>2, <2>3 DEF RequestInv, StartFailed, WokenOnce
<1>2. ClientInit => InCall
  BY DEF ClientInit, SocketsInit, InCall
<1> QED BY <1>1, <1>2, WokenStart, WokenStep, CallStep, PTL DEF ClientSpec

-----------------------------------------------------------------------------
(***************************************************************************)
(* The data.  What was read of the chunk libcurl is at are its first       *)
(* pause.used bytes, as long as the transfer is open.                      *)
(*                                                                         *)
(* The code keeps, of a chunk that was refused, how much the last refusal  *)
(* used and not how much was used in all; and a read that passes over the  *)
(* rest of a chunk may leave the number for the chunks to come.  So it is  *)
(* proved of reads that take a chunk in two pieces at most, and finish a   *)
(* chunk they have begun.                                                  *)
(***************************************************************************)
Cbs == {"off", "write", "first", "pause"}

AwType ==
  [cb : [hd : Cbs, wd : Cbs], buf : [hd : 1..2, wd : 1..2], cap : [1..2 -> Nat],
   some : [1..2 -> BOOLEAN], size : [1..2 -> Nat], ec : {"none", "no_buffer", "failed"}]

\* An awaiter of the shape r.
OfShape(a, r) ==
  /\ a.cap = r.cap /\ a.some = r.some /\ a.buf = Awaiter(r).buf
  /\ \A k \in DataKinds : a.cb[k] \in {"write", "first"} => Awaiter(r).cb[k] = a.cb[k]

AwOk(a) ==
  /\ a \in AwType /\ \A b \in 1..2 : a.size[b] <= a.cap[b]
  /\ \E r \in Shapes : OfShape(a, r)

PauseType == [type : {"none", "hd", "wd"}, used : Nat]

At == lib.stream[lib.pos]

PauseInv ==
  /\ pause \in PauseType
  /\ pause.used > 0 => /\ rstate = "paused" /\ pause.type = At.kind /\ pause.used < At.n
                       /\ \E r \in Shapes : TakesPart(r, At.kind)

Pairs == Nat \X Nat
Bytes == ToSet(bytesRead)

InOrder(s) == \A i \in 2..Len(s) : Before(s[i - 1], s[i])
Sorted == InOrder(bytesRead)

BytesInv ==
  /\ bytesRead \in Seq(Pairs) /\ Sorted
  /\ \A z \in Bytes : /\ z[1] <= lib.pos /\ z[2] >= 1
                      /\ z[1] = lib.pos /\ verdict = "open" => z[2] <= pause.used
                      /\ \A y \in 1..z[2] : <<z[1], y>> \in Bytes
  /\ verdict = "open" => \A y \in 1..pause.used : <<lib.pos, y>> \in Bytes
  /\ \A c \in (1..(lib.pos - 1)) \ skipped : \A x \in 1..lib.stream[c].n : <<c, x>> \in Bytes

OpenInv == lib.pos >= 1 /\ PauseInv /\ BytesInv

DataInv ==
  crashed = "none" =>
    /\ rstate = "running" => AwOk(aw)
    /\ lib.held => verdict = "open" /\ lib.pos <= Len(lib.stream)
    /\ OpenInv

\* What is known of the number p.used before a chunk of kind k and n bytes is
\* offered to the awaiter a.
UsedOk(a, p, k, n) ==
  p.used > 0 => /\ p.type = k /\ p.used < n /\ a.cb[k] \in {"write", "first"}
                /\ \A b \in 1..2 : a.size[b] = 0

\* A buffer that takes a part is big enough for the rest.
PartOk(a, k, n) ==
  a.some[a.buf[k]] => n <= a.cap[a.buf[k]] + 1 /\ \E r \in Shapes : TakesPart(r, k)

\* The four ways in which a callback can answer: it does not read the kind, it has
\* read all that was left, it pauses the transfer, or it fails it.
Answer(o, a, p, k, n) ==
  \/ /\ o.ret = "ok" /\ a.cb[k] = "off" /\ o.copied = 0 /\ o.pause = p /\ p.used = 0
  \/ /\ o.ret = "ok" /\ a.cb[k] # "off" /\ o.from = p.used /\ o.pause.used = 0
     /\ n = p.used + o.copied
  \/ /\ o.ret = "pause" /\ a.cb[k] # "off" /\ p.used = 0 /\ o.from = 0
     /\ o.pause.used = o.copied
     /\ o.copied > 0 => o.pause.type = k /\ o.copied < n /\ \E r \in Shapes : TakesPart(r, k)
  \/ /\ o.ret = "error" /\ a.cb[k] # "off" /\ o.copied = 0 /\ o.pause.used = 0

Answers(o, a, p, k, n) ==
  /\ AwOk(o.aw) /\ o.pause \in PauseType /\ o.from \in Nat /\ o.copied \in Nat
  /\ Answer(o, a, p, k, n)

\* The fields of an awaiter.
LEMMA AwFields ==
  ASSUME NEW a, AwOk(a), NEW k \in DataKinds
  PROVE  /\ a.cb[k] \in Cbs /\ a.buf[k] \in 1..2 /\ a.cap[a.buf[k]] \in Nat
         /\ a.size[a.buf[k]] \in Nat /\ a.size[a.buf[k]] <= a.cap[a.buf[k]]
         /\ a.some[a.buf[k]] \in BOOLEAN
<1>1. a \in AwType /\ \A b \in 1..2 : a.size[b] <= a.cap[b]
  BY DEF AwOk
<1>2. a.cb \in [hd : Cbs, wd : Cbs] /\ a.buf \in [hd : 1..2, wd : 1..2]
  BY <1>1 DEF AwType
<1>3. /\ a.cap \in [1..2 -> Nat] /\ a.some \in [1..2 -> BOOLEAN] /\ a.size \in [1..2 -> Nat]
  BY <1>1 DEF AwType
<1>4. a.cb[k] \in Cbs /\ a.buf[k] \in 1..2
  BY <1>2 DEF DataKinds
<1> QED BY <1>1, <1>3, <1>4

\* A buffer of an awaiter fills up.
LEMMA AwFills ==
  ASSUME NEW a, AwOk(a), NEW b \in 1..2, NEW c \in Nat, a.size[b] + c <= a.cap[b]
  PROVE  AwOk([a EXCEPT !.size[b] = @ + c])
<1> DEFINE f == [a EXCEPT !.size[b] = @ + c]
<1>1. a \in AwType /\ \A x \in 1..2 : a.size[x] <= a.cap[x]
  BY DEF AwOk
<1>2. a.size \in [1..2 -> Nat] /\ a.size[b] + c \in Nat
  BY <1>1 DEF AwType
<1>3. /\ f.cb = a.cb /\ f.buf = a.buf /\ f.cap = a.cap /\ f.some = a.some /\ f.ec = a.ec
      /\ f.size = [a.size EXCEPT ![b] = @ + c]
  BY <1>1 DEF AwType
<1>4. f.size \in [1..2 -> Nat] /\ \A x \in 1..2 : f.size[x] <= f.cap[x]
  BY <1>1, <1>2, <1>3
<1>5. f \in AwType
  <2>1. f = [a EXCEPT !.size = f.size]
    BY <1>1, <1>3 DEF AwType
  <2> HIDE DEF f
  <2> QED BY <1>1, <1>4, <2>1 DEF AwType
<1> HIDE DEF f
<1>6. \A r : OfShape(a, r) => OfShape(f, r)
  BY <1>3 DEF OfShape
<1>7. AwOk(f)
  BY <1>4, <1>5, <1>6 DEF AwOk
<1> QED BY <1>7 DEF f

\* An awaiter is given an error.
LEMMA AwFails ==
  ASSUME NEW a, AwOk(a), NEW e \in {"none", "no_buffer", "failed"}
  PROVE  AwOk([a EXCEPT !.ec = e])
<1> DEFINE f == [a EXCEPT !.ec = e]
<1>1. a \in AwType /\ \A x \in 1..2 : a.size[x] <= a.cap[x]
  BY DEF AwOk
<1>2. f \in AwType
  BY <1>1 DEF AwType
<1>3. /\ f.cb = a.cb /\ f.buf = a.buf /\ f.cap = a.cap /\ f.some = a.some /\ f.size = a.size
  BY <1>1 DEF AwType
<1> HIDE DEF f
<1>4. \A r : OfShape(a, r) => OfShape(f, r)
  BY <1>3 DEF OfShape
<1>5. AwOk(f)
  BY <1>1, <1>2, <1>3, <1>4 DEF AwOk
<1> QED BY <1>5 DEF f

\* From its first data on, an until-read pauses at data of the other kind.
LEMMA AwFirst ==
  ASSUME NEW a, AwOk(a), NEW k \in DataKinds
  PROVE  LET f == [a EXCEPT !.cb[Other(k)] = "pause"]
         IN  /\ AwOk(f) /\ f.cb[k] = a.cb[k]
             /\ f.buf = a.buf /\ f.cap = a.cap /\ f.some = a.some /\ f.size = a.size
<1> DEFINE f == [a EXCEPT !.cb[Other(k)] = "pause"]
<1>1. a \in AwType /\ \A x \in 1..2 : a.size[x] <= a.cap[x]
  BY DEF AwOk
<1>2. /\ f.buf = a.buf /\ f.cap = a.cap /\ f.some = a.some /\ f.size = a.size /\ f.ec = a.ec
      /\ f.cb = [a.cb EXCEPT ![Other(k)] = "pause"]
  BY <1>1 DEF AwType
<1>3. Other(k) \in DataKinds /\ Other(k) # k
  BY DEF Other, DataKinds
<1>4. a.cb \in [hd : Cbs, wd : Cbs]
  BY <1>1 DEF AwType
<1>5. /\ f.cb \in [hd : Cbs, wd : Cbs] /\ f.cb[k] = a.cb[k] /\ f.cb[Other(k)] = "pause"
  <2>1. CASE k = "hd"
    <3>1. f.cb = [a.cb EXCEPT !.wd = "pause"]
      BY <1>2, <2>1 DEF Other
    <3> QED BY <1>4, <2>1, <3>1 DEF Other, Cbs
  <2>2. CASE k = "wd"
    <3>1. f.cb = [a.cb EXCEPT !.hd = "pause"]
      BY <1>2, <2>2 DEF Other
    <3> QED BY <1>4, <2>2, <3>1 DEF Other, Cbs
  <2> QED BY <2>1, <2>2 DEF DataKinds
<1>6. f \in AwType
  <2>1. f = [a EXCEPT !.cb = f.cb]
    BY <1>1, <1>2 DEF AwType
  <2> HIDE DEF f
  <2> QED BY <1>1, <1>5, <2>1 DEF AwType
<1> HIDE DEF f
<1>7. ASSUME NEW r, OfShape(a, r) PROVE OfShape(f, r)
  <2>1. \A j \in DataKinds : j = k \/ j = Other(k)
    BY DEF DataKinds, Other
  <2>2. \A j \in DataKinds : f.cb[j] \in {"write", "first"} => f.cb[j] = a.cb[j]
    BY <1>5, <2>1
  <2> QED BY <1>2, <1>7, <2>2 DEF OfShape
<1>8. AwOk(f)
  BY <1>1, <1>2, <1>6, <1>7 DEF AwOk
<1> QED BY <1>2, <1>5, <1>8 DEF f

\* What a callback that writes makes of a chunk.
LEMMA WriteAnswers ==
  ASSUME NEW a, AwOk(a), NEW p \in PauseType, NEW k \in DataKinds, NEW n \in Nat,
         a.cb[k] \in {"write", "first"}, UsedOk(a, p, k, n), PartOk(a, k, n)
  PROVE  Answers(ResumedWrite(a, p, k, n), a, p, k, n)
<1> DEFINE b      == a.buf[k]
           m      == n - p.used
           copied == Fitting(a, b, m)
           filled == [a EXCEPT !.size[b] = @ + copied]
           none   == [p EXCEPT !.used = 0]
           o      == ResumedWrite(a, p, k, n)
<1>1. p.used \in Nat /\ p.type \in {"none", "hd", "wd"} /\ none \in PauseType /\ none.used = 0
  BY DEF PauseType
<1>2. p.used <= n /\ m \in Nat
  BY <1>1 DEF UsedOk
<1>3. /\ b \in 1..2 /\ a.cap[b] \in Nat /\ a.size[b] \in Nat /\ a.size[b] <= a.cap[b]
      /\ a.some[b] \in BOOLEAN
  BY AwFields
<1>4. copied \in Nat /\ copied <= m /\ a.size[b] + copied <= a.cap[b]
      /\ (copied # m => copied = a.cap[b] - a.size[b])
  BY <1>2, <1>3 DEF Fitting
<1>5. AwOk(filled)
  <2> HIDE DEF copied, b
  <2> QED BY <1>3, <1>4, AwFills
<1>6. AwOk([a EXCEPT !.ec = "no_buffer"])
  BY AwFails
<1>7. o = IF copied = m THEN Outcome(filled, none, p.used, m, "ok")
          ELSE IF a.some[b] THEN Outcome(filled, [type |-> k, used |-> copied], p.used, copied, "pause")
          ELSE Outcome([a EXCEPT !.ec = "no_buffer"], none, 0, 0, "error")
  BY <1>1, <1>2 DEF ResumedWrite
<1> HIDE DEF filled, none, o, copied
<1>8. CASE copied = m
  <2>1. o.aw = filled /\ o.pause = none /\ o.from = p.used /\ o.copied = m /\ o.ret = "ok"
    BY <1>7, <1>8 DEF Outcome
  <2>2. n = p.used + m /\ a.cb[k] # "off"
    BY <1>1, <1>2
  <2> QED BY <1>1, <1>2, <1>5, <2>1, <2>2 DEF Answers, Answer, o
<1>9. CASE copied # m /\ a.some[b]
  <2>1. /\ o.aw = filled /\ o.pause = [type |-> k, used |-> copied] /\ o.from = p.used
        /\ o.copied = copied /\ o.ret = "pause"
    BY <1>7, <1>9 DEF Outcome
  <2>2. n <= a.cap[b] + 1 /\ \E r \in Shapes : TakesPart(r, k)
    BY <1>9 DEF PartOk
  <2>3. p.used = 0
    <3>1. SUFFICES ASSUME p.used > 0 PROVE FALSE
      BY <1>1
    <3>2. a.size[b] = 0
      BY <1>3, <3>1 DEF UsedOk
    <3> QED BY <1>1, <1>2, <1>3, <1>4, <1>9, <2>2, <3>1, <3>2
  <2>4. copied < n
    BY <1>2, <1>4, <1>9, <2>3
  <2>5. [type |-> k, used |-> copied] \in PauseType
    BY <1>4 DEF PauseType, DataKinds
  <2>6. a.cb[k] # "off" /\ o.pause.type = k /\ o.pause.used = copied
    BY <2>1
  <2> QED BY <1>4, <1>5, <2>1, <2>2, <2>3, <2>4, <2>5, <2>6 DEF Answers, Answer, o
<1>10. CASE copied # m /\ ~a.some[b]
  <2>1. /\ o.aw = [a EXCEPT !.ec = "no_buffer"] /\ o.pause = none /\ o.from = 0
        /\ o.copied = 0 /\ o.ret = "error"
    BY <1>7, <1>10 DEF Outcome
  <2> QED BY <1>1, <1>6, <2>1 DEF Answers, Answer, o
<1> QED BY <1>3, <1>8, <1>9, <1>10

\* What the callback of the chunk's kind makes of it.
LEMMA CallbackAnswers ==
  ASSUME NEW a, AwOk(a), NEW p \in PauseType, NEW k \in DataKinds, NEW n \in Nat,
         UsedOk(a, p, k, n), a.cb[k] \in {"write", "first"} => PartOk(a, k, n)
  PROVE  Answers(Callback(a, p, k, n), a, p, k, n)
<1> DEFINE o == Callback(a, p, k, n)
<1>1. p.used \in Nat /\ p.type \in {"none", "hd", "wd"}
  BY DEF PauseType
<1>2. a.cb[k] \in Cbs
  BY AwFields
<1>3. CASE a.cb[k] = "off"
  <2>1. o = Outcome(a, p, 0, 0, "ok")
    BY <1>3 DEF Callback
  <2>2. p.used = 0
    BY <1>1, <1>3 DEF UsedOk
  <2>3. o.aw = a /\ o.pause = p /\ o.from = 0 /\ o.copied = 0 /\ o.ret = "ok"
    BY <2>1 DEF Outcome
  <2> HIDE DEF o
  <2>4. Answers(o, a, p, k, n)
    BY <1>3, <2>2, <2>3 DEF Answers, Answer
  <2> QED BY <2>4 DEF o
<1>4. CASE a.cb[k] = "write"
  <2>1. o = ResumedWrite(a, p, k, n)
    BY <1>4 DEF Callback
  <2> QED BY <1>4, <2>1, WriteAnswers
<1>5. CASE a.cb[k] = "first"
  <2> DEFINE f == [a EXCEPT !.cb[Other(k)] = "pause"]
  <2>1. o = ResumedWrite(f, p, k, n)
    BY <1>5 DEF Callback
  <2>2. /\ AwOk(f) /\ f.cb[k] = a.cb[k]
        /\ f.buf = a.buf /\ f.cap = a.cap /\ f.some = a.some /\ f.size = a.size
    BY AwFirst
  <2> HIDE DEF f
  <2>3. UsedOk(f, p, k, n) /\ PartOk(f, k, n)
    BY <1>5, <2>2 DEF UsedOk, PartOk
  <2>4. Answers(ResumedWrite(f, p, k, n), f, p, k, n)
    BY <1>5, <2>2, <2>3, WriteAnswers
  <2> QED BY <2>1, <2>2, <2>4 DEF Answers, Answer
<1>6. CASE a.cb[k] = "pause"
  <2>1. o = Outcome(a, [type |-> Other(k), used |-> 0], 0, 0, "pause")
    BY <1>6 DEF Callback
  <2>2. p.used = 0
    BY <1>1, <1>6 DEF UsedOk
  <2>3. /\ o.aw = a /\ o.pause = [type |-> Other(k), used |-> 0] /\ o.from = 0
        /\ o.copied = 0 /\ o.ret = "pause"
    BY <2>1 DEF Outcome
  <2>4. [type |-> Other(k), used |-> 0] \in PauseType
    BY DEF PauseType, Other
  <2> HIDE DEF o
  <2>5. o.pause.used = 0
    BY <2>3
  <2>6. Answers(o, a, p, k, n)
    BY <1>6, <2>2, <2>3, <2>4, <2>5 DEF Answers, Answer
  <2> QED BY <2>6 DEF o
<1> QED BY <1>2, <1>3, <1>4, <1>5, <1>6 DEF Cbs

\* A read starts with empty buffers and its own callbacks.
LEMMA AwFresh ==
  ASSUME NEW r \in Shapes
  PROVE  /\ AwOk(Awaiter(r)) /\ \A b \in 1..2 : Awaiter(r).size[b] = 0
         /\ \A k \in DataKinds : Awaiter(r).cb[k] # "pause"
         /\ r.mode \in DataKinds => Awaiter(r).cb[r.mode] = "write"
<1> DEFINE a == Awaiter(r)
<1>1. /\ r.mode \in {"hd_wd", "hd", "wd", "hd_until_wd", "wd_until_hd"}
      /\ r.cap \in [1..2 -> Nat] /\ r.some \in [1..2 -> BOOLEAN] /\ r.wdBuf \in 1..2
  BY TransferAssumption
<1>2. /\ a.cb = Callbacks(r.mode) /\ a.buf = [hd |-> 1, wd |-> r.wdBuf] /\ a.cap = r.cap
      /\ a.some = r.some /\ a.size = <<0, 0>> /\ a.ec = "none"
  BY DEF Awaiter
<1>3. /\ Callbacks(r.mode) \in [hd : {"off", "write", "first"}, wd : {"off", "write", "first"}]
      /\ r.mode \in DataKinds => Callbacks(r.mode)[r.mode] = "write"
  BY <1>1 DEF Callbacks, DataKinds
<1>4. Callbacks(r.mode) \in [hd : Cbs, wd : Cbs]
  BY <1>3 DEF Cbs
<1>5. /\ <<0, 0>> \in [1..2 -> Nat] /\ \A b \in 1..2 : <<0, 0>>[b] = 0
  OBVIOUS
<1>6. a \in AwType
  BY <1>1, <1>4, <1>5 DEF Awaiter, AwType
<1> HIDE DEF a
<1>7. OfShape(a, r)
  BY <1>2 DEF OfShape, a
<1>8. \A b \in 1..2 : a.size[b] <= a.cap[b]
  BY <1>1, <1>2, <1>5
<1>9. AwOk(a)
  BY <1>6, <1>7, <1>8 DEF AwOk
<1>10. \A k \in DataKinds : a.cb[k] # "pause"
  BY <1>2, <1>3 DEF DataKinds
<1> QED BY <1>2, <1>3, <1>5, <1>9, <1>10 DEF a

\* An awaiter that takes a part of a chunk can take its rest.
LEMMA PartsFit ==
  ASSUME RestFits, NEW a, AwOk(a), NEW s \in Streams, NEW i \in DOMAIN s, s[i].kind \in DataKinds,
         a.cb[s[i].kind] \in {"write", "first"}
  PROVE  PartOk(a, s[i].kind, s[i].n)
<1> DEFINE k == s[i].kind
<1>1. PICK r \in Shapes : OfShape(a, r)
  BY DEF AwOk
<1>2. /\ a.cap = r.cap /\ a.some = r.some /\ a.buf = Awaiter(r).buf /\ Awaiter(r).cb[k] = a.cb[k]
  BY <1>1 DEF OfShape
<1>3. ASSUME a.some[a.buf[k]] PROVE TakesPart(r, k)
  BY <1>2, <1>3 DEF TakesPart
<1> QED BY <1>2, <1>3 DEF PartOk, RestFits

\* Of the chunk at pos, from bytes at most have been read, and then c more.
UpTo(s, pos, from) == \A z \in ToSet(s) : z[1] <= pos /\ (z[1] = pos => z[2] <= from)
Grown(s, pos, from, c) == s \o [i \in 1..c |-> <<pos, from + i>>]
Piece(pos, from, c) == {<<pos, y>> : y \in (from + 1)..(from + c)}

\* The next bytes of the chunk at pos are read: they keep the order, and what has
\* been read of a chunk are its first bytes.
LEMMA BytesGrow ==
  ASSUME NEW s \in Seq(Pairs), NEW pos \in Nat, NEW from \in Nat, NEW c \in Nat,
         InOrder(s), UpTo(s, pos, from)
  PROVE  LET t == Grown(s, pos, from, c)
         IN  /\ t \in Seq(Pairs) /\ InOrder(t)
             /\ ToSet(t) = ToSet(s) \cup Piece(pos, from, c)
<1> DEFINE e == [i \in 1..c |-> <<pos, from + i>>]
           t == s \o e
<1>1. e \in Seq(Pairs) /\ Len(e) = c /\ \A i \in 1..c : e[i] = <<pos, from + i>>
  BY DEF Pairs
<1> HIDE DEF e
<1>2. /\ t \in Seq(Pairs) /\ Len(t) = Len(s) + c
      /\ \A i \in 1..(Len(s) + c) : t[i] = IF i <= Len(s) THEN s[i] ELSE e[i - Len(s)]
  BY <1>1, ConcatProperties
<1>3. /\ Len(s) \in Nat /\ \A i \in 1..Len(s) : s[i] \in Pairs /\ s[i] \in ToSet(s)
      /\ \A i \in 2..Len(s) : Before(s[i - 1], s[i])
      /\ \A z \in ToSet(s) : z[1] <= pos /\ (z[1] = pos => z[2] <= from)
  BY DEF ToSet, InOrder, UpTo
<1> HIDE DEF t
<1>4. ASSUME NEW i \in 1..Len(s) PROVE t[i] = s[i]
  <2>1. i \in 1..(Len(s) + c) /\ i <= Len(s)
    BY <1>3
  <2> QED BY <1>2, <2>1
<1>5. ASSUME NEW i \in 1..c PROVE t[Len(s) + i] = <<pos, from + i>>
  <2>1. Len(s) + i \in 1..(Len(s) + c) /\ ~(Len(s) + i <= Len(s)) /\ (Len(s) + i) - Len(s) = i
    BY <1>3
  <2> QED BY <1>1, <1>2, <2>1
<1>6. ASSUME NEW i \in 2..Len(t) PROVE Before(t[i - 1], t[i])
  <2>1. CASE i <= Len(s)
    BY <1>2, <1>3, <1>4, <2>1
  <2>2. CASE i = Len(s) + 1
    <3>1. t[i] = <<pos, from + 1>> /\ t[i - 1] = s[Len(s)]
      <4>1. 1 \in 1..c /\ i = Len(s) + 1 /\ i - 1 = Len(s) /\ Len(s) \in 1..Len(s)
        BY <1>2, <1>3, <2>2
      <4> QED BY <1>4, <1>5, <4>1
    <3>2. s[Len(s)] \in Pairs /\ s[Len(s)] \in ToSet(s)
      BY <1>2, <1>3, <2>2
    <3> QED BY <1>3, <3>1, <3>2 DEF Before, Pairs
  <2>3. CASE i > Len(s) + 1
    <3> DEFINE j == i - Len(s)
    <3>1. j \in 1..c /\ j - 1 \in 1..c /\ i = Len(s) + j /\ i - 1 = Len(s) + (j - 1)
      BY <1>2, <1>3, <2>3
    <3>2. t[i] = <<pos, from + j>> /\ t[i - 1] = <<pos, from + (j - 1)>>
      <4> HIDE DEF j
      <4> QED BY <1>5, <3>1
    <3>3. from + (j - 1) < from + j
      BY <3>1
    <3> QED BY <3>2, <3>3 DEF Before
  <2> QED BY <1>2, <1>3, <2>1, <2>2, <2>3
<1>7. ToSet(t) = ToSet(s) \cup {<<pos, y>> : y \in (from + 1)..(from + c)}
  <2>1. ToSet(t) = {t[i] : i \in 1..Len(t)} /\ ToSet(s) = {s[i] : i \in 1..Len(s)}
    <3>1. DOMAIN t = 1..Len(t) /\ DOMAIN s = 1..Len(s)
      BY <1>2
    <3> QED BY <3>1 DEF ToSet
  <2>2. ASSUME NEW z \in ToSet(t) PROVE z \in ToSet(s) \cup {<<pos, y>> : y \in (from + 1)..(from + c)}
    <3>1. PICK i \in 1..Len(t) : z = t[i]
      BY <2>1
    <3>2. CASE i <= Len(s)
      BY <1>3, <1>4, <3>1, <3>2
    <3>3. CASE i > Len(s)
      <4> DEFINE j == i - Len(s)
      <4>1. j \in 1..c /\ i = Len(s) + j
        BY <1>2, <1>3, <3>3
      <4>2. z = <<pos, from + j>> /\ from + j \in (from + 1)..(from + c)
        <5> HIDE DEF j
        <5> QED BY <1>5, <3>1, <4>1
      <4> QED BY <4>2
    <3> QED BY <1>2, <1>3, <3>2, <3>3
  <2>3. ASSUME NEW z \in ToSet(s) PROVE z \in ToSet(t)
    <3>1. PICK i \in 1..Len(s) : z = s[i]
      BY <2>1
    <3>2. i \in 1..Len(t) /\ t[i] = z
      BY <1>2, <1>3, <1>4, <3>1
    <3> QED BY <2>1, <3>2
  <2>4. ASSUME NEW y \in (from + 1)..(from + c) PROVE <<pos, y>> \in ToSet(t)
    <3> DEFINE j == y - from
    <3>1. j \in 1..c /\ y = from + j
      OBVIOUS
    <3>2. Len(s) + j \in 1..Len(t)
      BY <1>2, <1>3, <3>1
    <3>3. t[Len(s) + j] = <<pos, y>>
      <4> HIDE DEF j
      <4> QED BY <1>5, <3>1
    <3> QED BY <2>1, <3>2, <3>3
  <2> QED BY <2>2, <2>3, <2>4
<1>8. InOrder(t)
  BY <1>6 DEF InOrder
<1> QED BY <1>2, <1>7, <1>8 DEF t, e, Grown, Piece

\* The request reads on where it has paused.
LEMMA MoreRead ==
  ASSUME lib.pos \in Nat, pause.used \in Nat, verdict = "open", OpenInv, NEW c \in Nat,
         bytesRead' = Grown(bytesRead, lib.pos, pause.used, c)
  PROVE  /\ bytesRead' \in Seq(Pairs) /\ Sorted'
         /\ Bytes' = Bytes \cup Piece(lib.pos, pause.used, c)
<1>1. bytesRead \in Seq(Pairs) /\ InOrder(bytesRead)
  BY DEF OpenInv, BytesInv, Sorted
<1>2. UpTo(bytesRead, lib.pos, pause.used)
  BY DEF OpenInv, BytesInv, Bytes, UpTo
<1> DEFINE s == bytesRead
           pos == lib.pos
           used == pause.used
           t == Grown(s, pos, used, c)
<1>3. s \in Seq(Pairs) /\ pos \in Nat /\ used \in Nat /\ InOrder(s) /\ UpTo(s, pos, used)
  BY <1>1, <1>2
<1> HIDE DEF s, pos, used
<1>4. t \in Seq(Pairs) /\ InOrder(t) /\ ToSet(t) = ToSet(s) \cup Piece(pos, used, c)
  BY ONLY <1>3, c \in Nat, BytesGrow
<1> HIDE DEF t
<1> QED BY <1>4 DEF Sorted, Bytes, s, pos, used, t

\* Bytes read and bytes to come, once a whole chunk is dealt with.
LEMMA ChunkDone ==
  ASSUME lib \in LibType, verdict = "open", OpenInv, NEW n \in Nat, lib.stream[lib.pos].n = n,
         lib'.pos = lib.pos + 1, lib'.stream = lib.stream, pause'.used = 0,
         \/ /\ bytesRead' = bytesRead /\ skipped' = skipped \cup {lib.pos}
         \/ /\ bytesRead' \in Seq(Pairs) /\ Sorted' /\ skipped' = skipped /\ pause.used <= n
            /\ Bytes' = Bytes \cup Piece(lib.pos, pause.used, n - pause.used)
  PROVE  BytesInv'
<1> DEFINE pos == lib.pos
           used == pause.used
<1>1. /\ pos \in Nat /\ used \in Nat
      /\ Piece(pos, used, n - used) = {<<pos, x>> : x \in (used + 1)..n}
  <2>1. pos \in Nat /\ used \in Nat
    BY DEF LibType, OpenInv, PauseInv, PauseType
  <2>2. used + (n - used) = n
    BY <2>1
  <2> QED BY <2>1, <2>2 DEF Piece
<1>2. /\ bytesRead \in Seq(Pairs) /\ Sorted
      /\ \A z \in Bytes : /\ z[1] <= pos /\ z[2] >= 1 /\ (z[1] = pos => z[2] <= used)
                          /\ \A y \in 1..z[2] : <<z[1], y>> \in Bytes
      /\ \A y \in 1..used : <<pos, y>> \in Bytes
      /\ \A c \in (1..(pos - 1)) \ skipped : \A x \in 1..lib.stream[c].n : <<c, x>> \in Bytes
  BY DEF OpenInv, BytesInv
<1>3. \A z \in Bytes : z \in Pairs
  <2>1. \A i \in 1..Len(bytesRead) : bytesRead[i] \in Pairs
    BY <1>2
  <2>2. DOMAIN bytesRead = 1..Len(bytesRead)
    BY <1>2
  <2> QED BY <2>1, <2>2 DEF Bytes, ToSet
<1>4. bytesRead' \in Seq(Pairs) /\ Sorted' /\ Bytes \subseteq Bytes'
  BY <1>2 DEF Sorted, Bytes
<1>5. ASSUME NEW z \in Bytes' PROVE z \in Bytes \/ \E y \in (used + 1)..n : z = <<pos, y>> /\ used <= n
                /\ Bytes' = Bytes \cup {<<pos, x>> : x \in (used + 1)..n}
  BY <1>1 DEF Bytes
<1>6. ASSUME NEW z \in Bytes' PROVE /\ z[1] <= pos /\ z[2] >= 1
                                    /\ \A y \in 1..z[2] : <<z[1], y>> \in Bytes'
  <2>1. CASE z \in Bytes
    BY <1>2, <1>4, <2>1
  <2>2. CASE z \notin Bytes
    <3>1. PICK y \in (used + 1)..n : z = <<pos, y>> /\ used <= n
                /\ Bytes' = Bytes \cup {<<pos, x>> : x \in (used + 1)..n}
      BY <1>5, <2>2
    <3>2. z[1] = pos /\ z[2] = y /\ y >= 1
      BY <1>1, <3>1
    <3>3. ASSUME NEW x \in 1..y PROVE <<pos, x>> \in Bytes'
      <4>1. x \in 1..used \/ x \in (used + 1)..n
        BY <1>1, <3>1
      <4>2. CASE x \in 1..used
        BY <1>2, <1>4, <4>2
      <4>3. CASE x \in (used + 1)..n
        BY <3>1, <4>3
      <4> QED BY <4>1, <4>2, <4>3
    <3> QED BY <1>1, <3>2, <3>3
  <2> QED BY <2>1, <2>2
<1>7. ASSUME NEW c \in (1..pos) \ skipped', NEW x \in 1..lib.stream[c].n
      PROVE  <<c, x>> \in Bytes'
  <2>1. CASE c = pos
    <3>1. Bytes' = Bytes \cup {<<pos, y>> : y \in (used + 1)..n}
      BY <1>1, <2>1
    <3>2. x \in 1..used \/ x \in (used + 1)..n
      BY <1>1, <2>1
    <3> QED BY <1>2, <2>1, <3>1, <3>2
  <2>2. CASE c # pos
    <3>1. c \in (1..(pos - 1)) \ skipped
      BY <1>1, <2>2
    <3> QED BY <1>2, <1>4, <3>1
  <2> QED BY <2>1, <2>2
<1>8. lib'.pos - 1 = pos /\ \A y \in 1..pause'.used : FALSE
  BY <1>1
<1>9. \A z \in Bytes' : z[1] <= lib'.pos /\ z[1] # lib'.pos
  <2> SUFFICES ASSUME NEW z \in Bytes' PROVE z[1] <= lib'.pos /\ z[1] # lib'.pos
    OBVIOUS
  <2>1. z[1] \in Nat
    BY <1>1, <1>3, <1>5 DEF Pairs
  <2> QED BY <1>1, <1>6, <2>1
<1> QED BY <1>4, <1>6, <1>7, <1>8, <1>9 DEF BytesInv

\* libcurl offers a chunk to the awaiter of the read that is under way, or that starts.
LEMMA OfferKeeps ==
  ASSUME RestFits, lib \in LibType, verdict = "open", lib.pos <= Len(lib.stream), OpenInv,
         NEW a, AwOk(a), NEW p \in PauseType, UsedOk(a, p, At.kind, At.n),
         p.used = pause.used \/ a.cb[At.kind] = "off",
         Offer(a, p, lib)
  PROVE  /\ rstate' = "running" => AwOk(aw')
         /\ lib'.held => verdict' = "open" /\ lib'.pos <= Len(lib'.stream)
         /\ OpenInv'
<1> DEFINE pos == lib.pos
           k   == At.kind
           n   == At.n
           o   == Callback(a, p, k, n)
<1>1. /\ pos \in Nat /\ pos >= 1 /\ lib.stream \in Streams \cup {<<>>}
      /\ p.used \in Nat /\ pause.used \in Nat
  BY DEF LibType, OpenInv, PauseInv, PauseType
<1>2. lib.stream \in Streams /\ lib.stream \in Seq([kind : {"hd", "wd"}, n : Nat])
  <2>1. lib.stream # <<>>
    BY <1>1
  <2> QED BY <1>1, <2>1, TransferAssumption
<1>3. pos \in DOMAIN lib.stream /\ k \in DataKinds /\ n \in Nat
  <2>1. Len(lib.stream) \in Nat /\ DOMAIN lib.stream = 1..Len(lib.stream)
    BY <1>2
  <2>2. pos \in DOMAIN lib.stream
    BY <1>1, <2>1
  <2>3. lib.stream[pos] \in [kind : {"hd", "wd"}, n : Nat]
    BY <1>2, <2>1, <2>2, ElementOfSeq
  <2>4. At \in [kind : {"hd", "wd"}, n : Nat]
    BY <2>3 DEF At
  <2> QED BY <2>2, <2>4 DEF DataKinds
<1>4. a.cb[k] \in {"write", "first"} => PartOk(a, k, n)
  BY <1>2, <1>3, PartsFit DEF At
<1>5. Answers(o, a, p, k, n)
  <2> HIDE DEF k, n
  <2> QED BY <1>3, <1>4, CallbackAnswers DEF k, n
<1>6. /\ aw' = o.aw /\ pause' = o.pause
      /\ bytesRead' = bytesRead \o [i \in 1..o.copied |-> <<pos, o.from + i>>]
      /\ skipped' = IF a.cb[k] = "off" THEN skipped \cup {pos} ELSE skipped
      /\ \/ /\ o.ret = "ok"
            /\ lib' = [lib EXCEPT !.pos = @ + 1, !.held = FALSE]
            /\ rstate' = "running" /\ verdict' = verdict
         \/ /\ o.ret = "pause"
            /\ lib' = [lib EXCEPT !.held = TRUE]
            /\ rstate' = "paused" /\ verdict' = verdict
         \/ /\ o.ret = "error"
            /\ lib' = [lib EXCEPT !.held = FALSE]
            /\ rstate' = "running" /\ verdict' = "failed"
  BY DEF Offer, At
<1> HIDE DEF o, k, n
<1>7. AwOk(aw') /\ pause' \in PauseType /\ o.from \in Nat /\ o.copied \in Nat /\ Answer(o, a, p, k, n)
  BY <1>5, <1>6 DEF Answers
<1>8. bytesRead \in Seq(Pairs) /\ Sorted
  BY DEF OpenInv, BytesInv
<1>9. o.copied = 0 => bytesRead' = bytesRead
  <2>1. [i \in 1..0 |-> <<pos, o.from + i>>] = <<>>
    OBVIOUS
  <2> QED BY <1>6, <1>8, <2>1, ConcatEmptySeq
<1>10. ASSUME o.from = pause.used
       PROVE  /\ bytesRead' \in Seq(Pairs) /\ Sorted'
              /\ Bytes' = Bytes \cup Piece(pos, pause.used, o.copied)
  <2>1. bytesRead' = Grown(bytesRead, lib.pos, pause.used, o.copied)
    BY <1>6, <1>10 DEF Grown
  <2> QED BY <1>1, <1>7, <2>1, MoreRead
<1>11. lib'.stream = lib.stream /\ (o.ret # "ok" => lib'.pos = pos)
       /\ (o.ret = "ok" => lib'.pos = pos + 1) /\ (lib'.held => o.ret = "pause")
  <2>1. CASE lib' = [lib EXCEPT !.pos = @ + 1, !.held = FALSE] /\ o.ret = "ok"
    BY <2>1 DEF LibType
  <2>2. CASE lib' = [lib EXCEPT !.held = TRUE] /\ o.ret = "pause"
    BY <2>2 DEF LibType
  <2>3. CASE lib' = [lib EXCEPT !.held = FALSE] /\ o.ret = "error"
    BY <2>3 DEF LibType
  <2> QED BY <1>6, <2>1, <2>2, <2>3
<1>12. CASE o.ret = "ok"
  <2>1. /\ lib'.pos = pos + 1 /\ ~lib'.held /\ pause'.used = 0
    BY <1>6, <1>7, <1>11, <1>12 DEF Answer
  <2>2. \/ bytesRead' = bytesRead /\ skipped' = skipped \cup {pos}
        \/ /\ bytesRead' \in Seq(Pairs) /\ Sorted' /\ skipped' = skipped /\ pause.used <= n
           /\ Bytes' = Bytes \cup Piece(pos, pause.used, n - pause.used)
    <3>1. CASE a.cb[k] = "off" /\ o.copied = 0
      BY <1>6, <1>9, <3>1
    <3>2. CASE a.cb[k] # "off" /\ o.from = p.used /\ n = p.used + o.copied
      <4>1. p.used = pause.used
        BY <3>2 DEF k
      <4>2. n - pause.used = o.copied /\ pause.used <= n
        BY <1>1, <1>7, <3>2, <4>1
      <4> QED BY <1>6, <1>10, <3>2, <4>1, <4>2
    <3> QED BY <1>7, <1>12, <3>1, <3>2 DEF Answer
  <2>3. BytesInv'
    <3>1. n = lib.stream[lib.pos].n
      BY DEF n, At
    <3> QED BY <1>3, <1>11, <2>1, <2>2, <3>1, ChunkDone DEF k, n
  <2>4. PauseInv'
    BY <1>7, <2>1 DEF PauseInv
  <2> QED BY <1>1, <1>7, <2>1, <2>3, <2>4 DEF OpenInv
<1>13. CASE o.ret = "pause"
  <2>1. /\ a.cb[k] # "off" /\ p.used = 0 /\ o.from = 0 /\ pause'.used = o.copied
        /\ o.copied > 0 => pause'.type = k /\ o.copied < n /\ \E r \in Shapes : TakesPart(r, k)
    BY <1>6, <1>7, <1>13 DEF Answer
  <2>2. lib'.pos = pos /\ rstate' = "paused" /\ verdict' = "open" /\ skipped' = skipped
    BY <1>6, <1>11, <1>13, <2>1
  <2>3. pause.used = 0
    BY <2>1 DEF k
  <2>4. At' = At
    BY <1>11, <2>2 DEF At
  <2>5. PauseInv'
    BY <1>7, <2>1, <2>2, <2>4 DEF PauseInv, k, n
  <2>6. /\ bytesRead' \in Seq(Pairs) /\ Sorted'
        /\ Bytes' = Bytes \cup {<<pos, y>> : y \in 1..pause'.used}
    <3>1. bytesRead' \in Seq(Pairs) /\ Sorted' /\ Bytes' = Bytes \cup Piece(pos, 0, o.copied)
      BY <1>10, <2>1, <2>3
    <3>2. 0 + o.copied = o.copied
      BY <1>7
    <3> QED BY <2>1, <3>1, <3>2 DEF Piece
  <2>7. BytesInv'
    <3>1. /\ \A z \in Bytes : /\ z[1] <= pos /\ z[2] >= 1 /\ (z[1] = pos => z[2] <= 0)
                              /\ \A y \in 1..z[2] : <<z[1], y>> \in Bytes
          /\ \A c \in (1..(pos - 1)) \ skipped : \A x \in 1..lib.stream[c].n : <<c, x>> \in Bytes
      BY <2>3 DEF OpenInv, BytesInv
    <3>2. ASSUME NEW z \in Bytes'
          PROVE  /\ z[1] <= pos /\ z[2] >= 1 /\ (z[1] = pos => z[2] <= pause'.used)
                 /\ \A y \in 1..z[2] : <<z[1], y>> \in Bytes'
      <4>1. CASE z \in Bytes
        <5>1. z[2] \in Nat
          <6>1. PICK i \in 1..Len(bytesRead) : z = bytesRead[i]
            BY <1>8, <4>1 DEF Bytes, ToSet
          <6> QED BY <1>8, <6>1 DEF Pairs
        <5>2. z[1] # pos
          BY <3>1, <4>1, <5>1
        <5> QED BY <2>6, <3>1, <4>1, <5>2
      <4>2. CASE z \notin Bytes
        <5>1. PICK y \in 1..pause'.used : z = <<pos, y>>
          BY <2>6, <4>2
        <5>2. \A x \in 1..y : x \in 1..pause'.used
          BY <1>7, <2>1, <5>1
        <5> QED BY <1>1, <2>6, <5>1, <5>2
      <4> QED BY <4>1, <4>2
    <3>3. \A c \in (1..(pos - 1)) \ skipped : \A x \in 1..lib.stream[c].n : <<c, x>> \in Bytes'
      BY <2>6, <3>1
    <3>4. \A y \in 1..pause'.used : <<pos, y>> \in Bytes'
      BY <2>6
    <3> QED BY <1>11, <2>2, <2>6, <3>2, <3>3, <3>4 DEF BytesInv
  <2> QED BY <1>1, <1>11, <2>2, <2>5, <2>7 DEF OpenInv
<1>14. CASE o.ret = "error"
  <2>1. o.copied = 0 /\ pause'.used = 0 /\ a.cb[k] # "off"
    BY <1>6, <1>7, <1>14 DEF Answer
  <2>2. lib'.pos = pos /\ verdict' = "failed" /\ skipped' = skipped /\ bytesRead' = bytesRead
    BY <1>6, <1>9, <1>11, <1>14, <2>1
  <2>3. PauseInv'
    BY <1>7, <2>1 DEF PauseInv
  <2>4. Bytes' = Bytes /\ Sorted'
    BY <1>8, <2>2 DEF Bytes, Sorted
  <2>5. BytesInv'
    BY <1>11, <2>2, <2>4 DEF OpenInv, BytesInv
  <2> QED BY <1>1, <1>7, <1>11, <1>14, <2>2, <2>3, <2>5 DEF OpenInv
<1> QED BY <1>6, <1>12, <1>13, <1>14

\* Nothing is read yet of a transfer, and nothing is left of an earlier one.
LEMMA NothingRead ==
  ASSUME pause' \in PauseType, pause'.used = 0, bytesRead' = <<>>, lib'.pos = 1
  PROVE  OpenInv'
<1>1. PauseInv'
  BY DEF PauseInv
<1>2. Bytes' = {} /\ Sorted' /\ bytesRead' \in Seq(Pairs)
  BY DEF Bytes, ToSet, Sorted, InOrder
<1>3. (1..(lib'.pos - 1)) = {} /\ (1..pause'.used) = {}
  OBVIOUS
<1>4. BytesInv'
  BY <1>2, <1>3 DEF BytesInv
<1> QED BY <1>1, <1>4 DEF OpenInv

\* A pause that starts a read is the last one, or none.
LEMMA PauseAtStart ==
  ASSUME pause \in PauseType, NEW r \in Shapes
  PROVE  /\ PauseAtInit(r.mode) \in PauseType
         /\ PauseAtInit(r.mode) # pause => /\ r.mode \in DataKinds /\ pause.type # r.mode
                                           /\ PauseAtInit(r.mode).used = 0
BY DEF PauseAtInit, NoPause, PauseType

LEMMA DataStart == ClientInit => DataInv
<1> SUFFICES ASSUME TransferInit PROVE DataInv
  BY DEF ClientInit
<1>1. /\ rstate = "reseted" /\ pause.used = 0 /\ pause \in PauseType /\ lib.pos = 1 /\ ~lib.held
      /\ bytesRead = <<>>
  BY DEF TransferInit, NoPause, Idle, PauseType
<1>2. PauseInv
  BY <1>1 DEF PauseInv
<1>3. Bytes = {} /\ Sorted /\ bytesRead \in Seq(Pairs)
  BY <1>1 DEF Bytes, ToSet, Sorted, InOrder
<1>4. (1..(lib.pos - 1)) = {} /\ (1..pause.used) = {}
  BY <1>1
<1>5. BytesInv
  BY <1>3, <1>4 DEF BytesInv
<1> QED BY <1>1, <1>2, <1>5 DEF DataInv, OpenInv

LEMMA ReadKeepsData ==
  ASSUME RestFits, RestIsRead, WokenInv, DataInv, AwaitRead
  PROVE  DataInv'
<1>1. ASSUME NEW r \in Shapes, NEW stream \in Streams, NEW added \in BOOLEAN,
             StartRead(r, stream, added)
      PROVE  DataInv'
  <2>1. /\ crashed = "none" /\ rstate # "paused" /\ aw' = Awaiter(r) /\ bytesRead' = <<>>
        /\ pause' = PauseAtInit(r.mode) /\ lib'.pos = 1 /\ ~lib'.held
    BY <1>1 DEF StartRead, MayRead
  <2>2. pause \in PauseType /\ pause.used = 0
    BY <2>1 DEF DataInv, OpenInv, PauseInv, PauseType
  <2>3. pause' \in PauseType /\ pause'.used = 0
    BY <2>1, <2>2, PauseAtStart
  <2> QED BY <2>1, <2>3, NothingRead, AwFresh DEF DataInv
<1>2. ASSUME NEW r \in Shapes, ContinueRead(r) PROVE DataInv'
  <2> DEFINE a == Awaiter(r)
             p == PauseAtInit(r.mode)
  <2>1. /\ crashed = "none" /\ rstate = "paused" /\ Offer(a, p, lib)
    BY <1>2 DEF ContinueRead, MayRead
  <2>2. /\ lib \in LibType /\ lib.held
    BY <2>1 DEF WokenInv, RequestInv
  <2>3. verdict = "open" /\ lib.pos <= Len(lib.stream) /\ OpenInv
    BY <2>1, <2>2 DEF DataInv
  <2>4. pause \in PauseType /\ (pause.used > 0 => /\ pause.type = At.kind /\ pause.used < At.n
                                                  /\ \E q \in Shapes : TakesPart(q, At.kind))
    BY <2>3 DEF OpenInv, PauseInv
  <2>5. AwOk(a) /\ (\A b \in 1..2 : a.size[b] = 0) /\ (\A k \in DataKinds : a.cb[k] # "pause")
        /\ (r.mode \in DataKinds => a.cb[r.mode] = "write")
    BY AwFresh
  <2>6. p \in PauseType /\ (p # pause => r.mode \in DataKinds /\ pause.type # r.mode /\ p.used = 0)
    BY <2>4, PauseAtStart
  <2>7. r.mode \in DataKinds => \A k \in DataKinds : k # r.mode => a.cb[k] = "off"
    BY DEF Awaiter, Callbacks, DataKinds
  <2>8. r.mode \in DataKinds /\ pause.type # r.mode => p = NoPause
    BY DEF PauseAtInit
  <2>9. pause.used \in Nat /\ (pause.used > 0 => At.kind \in DataKinds)
    <3>2. lib.stream # <<>> => lib.stream[lib.pos] \in [kind : {"hd", "wd"}, n : Nat]
      <4> SUFFICES ASSUME lib.stream # <<>> PROVE lib.stream[lib.pos] \in [kind : {"hd", "wd"}, n : Nat]
        OBVIOUS
      <4>1. lib.stream \in Seq([kind : {"hd", "wd"}, n : Nat])
        BY <2>2, TransferAssumption DEF LibType
      <4>2. lib.pos \in 1..Len(lib.stream)
        BY <2>2, <2>3, <4>1 DEF LibType, OpenInv
      <4> QED BY <4>1, <4>2, ElementOfSeq
    <3>3. lib.stream # <<>>
      <4>1. lib.pos \in Nat /\ lib.pos >= 1 /\ lib.pos <= Len(lib.stream) /\ Len(<<>>) = 0
        BY <2>2, <2>3 DEF OpenInv, LibType
      <4> QED BY <4>1
    <3> QED BY <2>4, <3>2, <3>3 DEF At, DataKinds, PauseType
  <2> HIDE DEF a, p
  <2>10. UsedOk(a, p, At.kind, At.n)
    <3> SUFFICES ASSUME p.used > 0
                 PROVE  /\ p.type = At.kind /\ p.used < At.n
                        /\ a.cb[At.kind] \in {"write", "first"} /\ \A b \in 1..2 : a.size[b] = 0
      BY DEF UsedOk
    <3>1. p = pause /\ pause.used > 0
      BY <2>6
    <3>2. PICK q \in Shapes : TakesPart(q, At.kind)
      BY <2>4, <3>1
    <3>3. At.kind \in DataKinds
      BY <2>9, <3>1
    <3>4. a.cb[At.kind] # "off"
      <4>1. CASE r.mode \in DataKinds
        <5>1. pause.type = r.mode
          BY <2>8, <3>1, <4>1 DEF NoPause
        <5> QED BY <2>4, <2>5, <3>1, <4>1, <5>1
      <4>2. CASE r.mode \notin DataKinds
        BY <3>2, <3>3, <4>2 DEF RestIsRead, a
      <4> QED BY <4>1, <4>2
    <3>5. a.cb[At.kind] \in Cbs
      BY <2>5, <3>3, AwFields
    <3>6. a.cb[At.kind] \in {"write", "first"}
      BY <2>5, <3>3, <3>4, <3>5 DEF Cbs
    <3> QED BY <2>4, <2>5, <3>1, <3>6
  <2>11. p.used = pause.used \/ a.cb[At.kind] = "off"
    <3>1. CASE p = pause
      BY <3>1
    <3>2. CASE p # pause /\ pause.used > 0
      BY <2>4, <2>6, <2>7, <2>9, <3>2
    <3>3. CASE p # pause /\ ~(pause.used > 0)
      BY <2>6, <2>9, <3>3
    <3> QED BY <3>1, <3>2, <3>3
  <2>12. /\ rstate' = "running" => AwOk(aw')
         /\ lib'.held => verdict' = "open" /\ lib'.pos <= Len(lib'.stream)
         /\ OpenInv'
    BY <2>1, <2>2, <2>3, <2>5, <2>6, <2>10, <2>11, OfferKeeps
  <2> QED BY <2>12 DEF DataInv
<1> QED BY <1>1, <1>2 DEF AwaitRead

\* A transfer libcurl has and did not pause is running, and nothing is left over.
LEMMA RunsClean ==
  ASSUME WokenInv, DataInv, crashed = "none", lib.added, ~lib.held
  PROVE  rstate = "running" /\ AwOk(aw) /\ OpenInv /\ pause \in PauseType /\ pause.used = 0
<1>1. rstate = "running"
  BY DEF WokenInv, RequestInv
<1> QED BY <1>1 DEF DataInv, OpenInv, PauseInv, PauseType

LEMMA DeliverKeepsData ==
  ASSUME RestFits, WokenInv, DataInv, Deliver
  PROVE  DataInv'
<1>1. /\ lib \in LibType /\ lib.added /\ ~lib.held /\ verdict = "open"
      /\ lib.pos <= Len(lib.stream) /\ Offer(aw, pause, lib)
  BY DEF Deliver, WokenInv
<1>2. crashed' = "none" => crashed = "none"
  BY <1>1, OfferFacts
<1> SUFFICES ASSUME crashed = "none" PROVE DataInv'
  BY <1>2 DEF DataInv
<1>3. AwOk(aw) /\ OpenInv /\ pause \in PauseType /\ pause.used = 0
  BY <1>1, RunsClean
<1>4. UsedOk(aw, pause, At.kind, At.n)
  BY <1>3 DEF UsedOk
<1>5. /\ rstate' = "running" => AwOk(aw')
      /\ lib'.held => verdict' = "open" /\ lib'.pos <= Len(lib'.stream)
      /\ OpenInv'
  BY <1>1, <1>3, <1>4, OfferKeeps
<1> QED BY <1>5 DEF DataInv

\* The transfer is over, or no longer with libcurl.
LEMMA EndKeepsData ==
  ASSUME WokenInv, DataInv, RemoveDone \/ AssignFails \/ (\E v \in {"ok", "failed"} : TransferEnds(v))
  PROVE  DataInv'
<1>1. /\ lib \in LibType /\ lib.added /\ ~lib.held
      /\ UNCHANGED <<pause, bytesRead, skipped, crashed>>
      /\ \/ lib' = lib /\ rstate' = rstate /\ aw' = aw
         \/ lib' = [lib EXCEPT !.added = FALSE] /\ rstate' = "finished"
  BY DEF RemoveDone, AssignFails, TransferEnds, WokenInv
<1>2. verdict' = "open" => verdict = "open"
  BY DEF RemoveDone, AssignFails, TransferEnds
<1>3. lib'.stream = lib.stream /\ lib'.pos = lib.pos /\ ~lib'.held
  BY <1>1 DEF LibType
<1> SUFFICES ASSUME crashed = "none" PROVE DataInv'
  BY <1>1 DEF DataInv
<1>4. rstate = "running" /\ AwOk(aw) /\ OpenInv /\ pause \in PauseType /\ pause.used = 0
  BY <1>1, RunsClean
<1>5. PauseInv'
  BY <1>1, <1>4 DEF PauseInv
<1>6. Bytes' = Bytes /\ (Sorted => Sorted')
  BY <1>1 DEF Bytes, Sorted
<1>7. BytesInv'
  BY <1>1, <1>2, <1>3, <1>4, <1>6 DEF OpenInv, BytesInv
<1> QED BY <1>1, <1>3, <1>4, <1>5, <1>7 DEF DataInv, OpenInv

\* Steps that leave the data alone.
LEMMA OthersKeepData ==
  ASSUME DataInv, UNCHANGED <<pause, lib, bytesRead, skipped, verdict>>,
         crashed' = "none" => /\ crashed = "none" /\ rstate' = rstate
                              /\ (rstate = "running" /\ AwOk(aw) => AwOk(aw'))
  PROVE  DataInv'
<1> SUFFICES ASSUME crashed' = "none", crashed = "none", rstate' = rstate PROVE DataInv'
  BY DEF DataInv
<1>1. At' = At /\ Bytes' = Bytes
  BY DEF At, Bytes
<1>2. PauseInv => PauseInv'
  BY <1>1 DEF PauseInv
<1>3. BytesInv => BytesInv'
  BY <1>1 DEF BytesInv, Sorted
<1> QED BY <1>2, <1>3 DEF DataInv, OpenInv

LEMMA ReturnKeepsData ==
  ASSUME DataInv, LibcurlReturns
  PROVE  DataInv'
<1>1. UNCHANGED <<pause, lib, bytesRead, skipped, verdict>>
  BY DEF LibcurlReturns, transferVars
<1>2. CASE UNCHANGED transferVars
  BY <1>2, OthersKeepData DEF transferVars
<1>3. CASE ~StartFailed /\ Started
  <2>1. aw' = [aw EXCEPT !.ec = "none"] /\ rstate' = rstate /\ crashed' = crashed
    BY <1>3 DEF Started
  <2>2. AwOk(aw) => AwOk(aw')
    BY <2>1, AwFails
  <2> QED BY <1>1, <2>1, <2>2, OthersKeepData
<1>4. CASE StartFailed /\ Started
  <2>1. crashed' # "none"
    BY <1>4 DEF Started
  <2> QED BY <2>1 DEF DataInv
<1> QED BY <1>2, <1>3, <1>4 DEF LibcurlReturns

LEMMA HandlersKeepData ==
  ASSUME WokenInv, DataInv, PostUnderLock \/ Resume
  PROVE  DataInv'
<1>1. UNCHANGED <<rstate, pause, lib, bytesRead, skipped, verdict, crashed>>
  BY DEF PostUnderLock, Resume
<1>2. CASE PostUnderLock
  BY <1>1, <1>2, OthersKeepData DEF PostUnderLock
<1>3. CASE Resume
  <2>1. posted # <<>>
    BY <1>3 DEF Resume
  <2>2. crashed = "none" => rstate # "running"
    BY <2>1 DEF WokenInv, RequestInv
  <2> QED BY <1>1, <2>2, OthersKeepData
<1> QED BY <1>2, <1>3

LEMMA RecycleKeepsData ==
  ASSUME Recycle
  PROVE  DataInv'
<1>1. /\ rstate' = "reseted" /\ lib'.pos = 1 /\ ~lib'.held /\ bytesRead' = <<>>
      /\ pause' \in PauseType /\ pause'.used = 0
  BY DEF Recycle, Idle, NoPause, PauseType
<1> QED BY <1>1, NothingRead DEF DataInv

LEMMA DataStep ==
  ASSUME RestFits, RestIsRead, WokenInv, DataInv, [ClientNext]_clientVars
  PROVE  DataInv'
<1>1. CASE UNCHANGED transferVars
  BY <1>1, OthersKeepData DEF transferVars
<1>2. CASE InLibcurl
  BY <1>1, <1>2, DeliverKeepsData, EndKeepsData DEF InLibcurl, Transfers
<1>3. CASE Handlers
  BY <1>1, <1>3, HandlersKeepData DEF Handlers
<1>4. CASE Recycles
  BY <1>4, RecycleKeepsData DEF Recycles
<1>5. CASE Network
  BY <1>1, <1>5 DEF Network
<1> QED BY <1>1, <1>2, <1>3, <1>4, <1>5, ReadKeepsData, ReturnKeepsData
        DEF ClientNext, clientVars

\* The bytes a request reads are those of the transfer, in order, none twice and none
\* left out, whatever the chunks and the moments at which the transfer pauses, is read
\* on, ends or is given back (resumed_write_to_bw(), release_data_used_on_pause()), for
\* reads that can take what is left of a chunk and do take it.
THEOREM DataStaysInOrder ==
  ASSUME RestFits, RestIsRead
  PROVE  ClientSpec => []DataInOrder
<1>1. DataInv => DataInOrder
  <2> SUFFICES ASSUME DataInv, crashed = "none" PROVE DataInOrder
    BY DEF DataInOrder
  <2>1. BytesInv
    BY DEF DataInv, OpenInv
  <2> QED BY <2>1 DEF BytesInv, Sorted, InOrder, Bytes, DataInOrder
<1>2. ClientInit => InCall
  BY DEF ClientInit, SocketsInit, InCall
<1>3. WokenInv /\ InCall /\ DataInv /\ [ClientNext]_clientVars => DataInv'
  BY DataStep
<1> QED BY <1>1, <1>2, <1>3, DataStart, WokenStart, WokenStep, CallStep, PTL DEF ClientSpec

-----------------------------------------------------------------------------
(***************************************************************************)
(* The options.  Between its reset and the next one a request holds, at    *)
(* any time, what its user and the defaults have asked for: the invariant  *)
(* says so of the handle's options and of the request's header lines,      *)
(* which libcurl has been told of only if the user has replaced them.      *)
(***************************************************************************)
OptVals  == OptValues \cup {1, Nothing}
AnyLines == Seq(Lines \cup {"Expect:", "Accept:", "User-Agent:"})
AnyOpts  == [OptNames -> OptVals]

OptTypeOK ==
  /\ defaults \in [proxy : OptVals, noproxy : OptVals, func : OptVals]
  /\ req \in [opts : AnyOpts, header : Nat, fields : [id : Nat, lines : AnyLines]]
  /\ wanted \in [opts : AnyOpts, replaced : BOOLEAN, lines : AnyLines]
  /\ lists \in Nat

HeldAsWanted(r, w) ==
  /\ r.opts = w.opts /\ r.fields.lines = w.lines
  /\ w.replaced => r.header = r.fields.id /\ r.header # 0
  /\ ~w.replaced => r.header = 0

OptionsInv ==
  /\ OptTypeOK
  /\ HeldAsWanted(req, wanted)
  /\ use = "running" => outgoing = Carried(req)

LEMMA OptionsStart == OptionsInit => OptionsInv
<1>1. FreshOpts \in AnyOpts
  BY DEF FreshOpts, AnyOpts, OptVals
<1>2. <<>> \in AnyLines
  BY DEF AnyLines
<1> DEFINE nobody == [opts |-> FreshOpts, replaced |-> FALSE, lines |-> <<>>]
<1>5. NoDefaults \in [proxy : OptVals, noproxy : OptVals, func : OptVals]
  BY DEF NoDefaults, OptVals
<1>6. NoRequest \in [opts : AnyOpts, header : Nat, fields : [id : Nat, lines : AnyLines]]
  BY <1>1, <1>2 DEF NoRequest
<1>7. HeldAsWanted(NoRequest, nobody)
  BY DEF HeldAsWanted, NoRequest
<1>8. ASSUME OptionsInit PROVE OptTypeOK
  BY <1>1, <1>2, <1>5, <1>6, <1>8 DEF OptionsInit, OptTypeOK
<1> QED
  BY <1>7, <1>8 DEF OptionsInit, OptionsInv

\* A request that has been reset is what the defaults ask for.
LEMMA ResetIsClean ==
  ASSUME NEW r \in [opts : AnyOpts, header : Nat, fields : [id : Nat, lines : AnyLines]],
         NEW id \in Nat, OptTypeOK
  PROVE  /\ ResetAll(r, id, defaults) \in [opts : AnyOpts, header : Nat, fields : [id : Nat, lines : AnyLines]]
         /\ Asks(defaults) \in [opts : AnyOpts, replaced : BOOLEAN, lines : AnyLines]
         /\ HeldAsWanted(ResetAll(r, id, defaults), Asks(defaults))
<1> DEFINE d == defaults
           f == [id |-> id, lines |-> <<>> \o Standard]
           o == [FreshOpts EXCEPT !["proxy"] = d.proxy, !["noproxy"] = d.noproxy, !["other"] = d.func]
<1>1. d.proxy \in OptVals /\ d.noproxy \in OptVals /\ d.func \in OptVals
  BY DEF OptTypeOK
<1>2. o \in AnyOpts
  BY <1>1 DEF FreshOpts, AnyOpts, OptVals, OptNames
<1>3. f \in [id : Nat, lines : AnyLines] /\ <<>> \in AnyLines
  BY DEF Standard, AnyLines
<1> DEFINE Req == [opts : AnyOpts, header : Nat, fields : [id : Nat, lines : AnyLines]]
           q == ResetFields(r, id, <<>>)
           q1 == [q EXCEPT !.opts = FreshOpts, !.header = 0]
           q2 == Setopt(Setopt(q1, "proxy", d.proxy), "noproxy", d.noproxy)
<1>4. q \in Req
  BY <1>3 DEF ResetFields
<1>5. q1 \in Req /\ q1.opts = FreshOpts /\ q1.header = 0
  <2> HIDE DEF q
  <2>1. FreshOpts \in AnyOpts
    BY DEF FreshOpts, AnyOpts, OptVals
  <2> QED BY <1>4, <2>1
<1>6. /\ q2 \in Req /\ q2.header = 0
      /\ q2.opts = [FreshOpts EXCEPT !["proxy"] = d.proxy, !["noproxy"] = d.noproxy]
  <2> HIDE DEF q1
  <2> QED BY <1>1, <1>5 DEF Setopt, AnyOpts
<1>7. ResetAll(r, id, d) = IF d.func = Nothing THEN q2 ELSE Setopt(q2, "other", d.func)
  BY DEF ResetAll, ApplyDefaults
<1>8. ResetAll(r, id, d) \in Req /\ ResetAll(r, id, d).header = 0 /\ ResetAll(r, id, d).opts = o
  <2> HIDE DEF q2
  <2>1. CASE d.func = Nothing
    <3>1. o = [FreshOpts EXCEPT !["proxy"] = d.proxy, !["noproxy"] = d.noproxy]
      BY <2>1 DEF FreshOpts, OptNames
    <3> QED BY <2>1, <3>1, <1>6, <1>7
  <2>2. CASE d.func # Nothing
    BY <2>2, <1>1, <1>6, <1>7 DEF Setopt, AnyOpts
  <2> QED BY <2>1, <2>2
<1>9. Asks(d) = [opts |-> o, replaced |-> FALSE, lines |-> Standard] /\ Standard \in AnyLines
  BY DEF Asks, Standard, AnyLines
<1>10. ResetAll(r, id, d).fields.lines = Standard
  <2>1. q.fields.lines = Standard
    BY DEF ResetFields, Standard
  <2>2. q1.fields = q.fields
    <3> HIDE DEF q
    <3> QED BY <1>4
  <2>3. q2.fields = q1.fields
    <3> HIDE DEF q1
    <3> QED BY <1>5 DEF Setopt
  <2>4. ResetAll(r, id, d).fields = q2.fields
    <3> HIDE DEF q2
    <3> QED BY <1>6, <1>7 DEF Setopt
  <2> HIDE DEF q, q1, q2
  <2> QED BY <2>1, <2>2, <2>3, <2>4
<1> QED
  <2> HIDE DEF o
  <2> QED BY <1>2, <1>8, <1>9, <1>10 DEF HeldAsWanted

\* An option that is set is set in what is wanted.
LEMMA SetBoth ==
  ASSUME NEW r \in [opts : AnyOpts, header : Nat, fields : [id : Nat, lines : AnyLines]],
         NEW w \in [opts : AnyOpts, replaced : BOOLEAN, lines : AnyLines],
         NEW o \in OptNames, NEW v \in OptVals, HeldAsWanted(r, w)
  PROVE  /\ Setopt(r, o, v) \in [opts : AnyOpts, header : Nat, fields : [id : Nat, lines : AnyLines]]
         /\ Setopt(w, o, v) \in [opts : AnyOpts, replaced : BOOLEAN, lines : AnyLines]
         /\ HeldAsWanted(Setopt(r, o, v), Setopt(w, o, v))
BY DEF Setopt, AnyOpts, HeldAsWanted

\* So are fields that are replaced.
LEMMA ReplaceBoth ==
  ASSUME NEW r \in [opts : AnyOpts, header : Nat, fields : [id : Nat, lines : AnyLines]],
         NEW w \in [opts : AnyOpts, replaced : BOOLEAN, lines : AnyLines],
         NEW id \in Nat \ {0}, NEW ls \in Seq(Lines), HeldAsWanted(r, w)
  PROVE  LET s == ResetFields(r, id, ls)
             x == [w EXCEPT !.replaced = TRUE, !.lines = ls \o Standard]
         IN  /\ s \in [opts : AnyOpts, header : Nat, fields : [id : Nat, lines : AnyLines]]
             /\ x \in [opts : AnyOpts, replaced : BOOLEAN, lines : AnyLines]
             /\ HeldAsWanted(s, x)
<1>1. ls \o Standard \in AnyLines
  BY DEF Standard, AnyLines
<1> QED BY <1>1 DEF ResetFields, HeldAsWanted

\* Whichever way a request comes from the pool.
LEMMA PoolGives ==
  ASSUME OptionsInv
  PROVE  /\ FromPool.req \in [opts : AnyOpts, header : Nat, fields : [id : Nat, lines : AnyLines]]
         /\ FromPool.wanted \in [opts : AnyOpts, replaced : BOOLEAN, lines : AnyLines]
         /\ HeldAsWanted(FromPool.req, FromPool.wanted)
         /\ FromPool.lists \in Nat
<1>1. NoRequest \in [opts : AnyOpts, header : Nat, fields : [id : Nat, lines : AnyLines]]
  BY DEF NoRequest, FreshOpts, AnyOpts, OptVals, AnyLines
<1>2. lists + 1 \in Nat
  BY DEF OptionsInv, OptTypeOK
<1>3. CASE use = "pooled"
  BY <1>3 DEF FromPool, OptionsInv, OptTypeOK
<1>4. CASE use # "pooled"
  BY <1>1, <1>2, <1>4, ResetIsClean DEF FromPool, OptionsInv
<1> QED BY <1>3, <1>4

LEMMA OptionsStep == OptionsInv /\ [OptionsNext]_optionVars => OptionsInv'
<1> SUFFICES ASSUME OptionsInv, [OptionsNext]_optionVars PROVE OptionsInv'
  OBVIOUS
<1>1. ASSUME NEW k \in DOMAIN defaults, NEW v \in OptValues \cup {Nothing}, SetDefault(k, v)
      PROVE  OptionsInv'
  <2>1. v \in OptVals
    BY DEF OptVals
  <2> QED BY <1>1, <2>1 DEF SetDefault, OptionsInv, OptTypeOK, HeldAsWanted, Carried
<1>2. CASE AcquireRequest
  BY <1>2, PoolGives DEF AcquireRequest, OptionsInv, OptTypeOK
<1>3. ASSUME NEW o \in Settable, NEW v \in OptValues \cup {Nothing}, SetOption(o, v)
      PROVE  OptionsInv'
  <2>1. o \in OptNames /\ v \in OptVals
    BY OptionsAssumption DEF OptVals
  <2>2. wanted' = Setopt(wanted, o, v)
    BY <1>3 DEF SetOption, Setopt
  <2>3. req' = Setopt(req, o, v) /\ UNCHANGED <<defaults, lists, use>> /\ use = "held"
    BY <1>3 DEF SetOption
  <2>4. /\ req \in [opts : AnyOpts, header : Nat, fields : [id : Nat, lines : AnyLines]]
        /\ wanted \in [opts : AnyOpts, replaced : BOOLEAN, lines : AnyLines]
        /\ HeldAsWanted(req, wanted)
    BY DEF OptionsInv, OptTypeOK
  <2>5. /\ req' \in [opts : AnyOpts, header : Nat, fields : [id : Nat, lines : AnyLines]]
        /\ wanted' \in [opts : AnyOpts, replaced : BOOLEAN, lines : AnyLines]
        /\ HeldAsWanted(req', wanted')
    BY <2>1, <2>2, <2>3, <2>4, SetBoth
  <2> QED BY <2>3, <2>5 DEF OptionsInv, OptTypeOK, HeldAsWanted
<1>4. ASSUME NEW line \in Lines, AddField(line)
      PROVE  OptionsInv'
  <2>1. \A s \in AnyLines : Append(s, line) \in AnyLines
    BY DEF AnyLines
  <2> QED BY <1>4, <2>1 DEF AddField, AppendLine, OptionsInv, OptTypeOK, HeldAsWanted
<1>5. ASSUME NEW ls \in {<<>>} \cup {<<l>> : l \in Lines}, ReplaceFields(ls)
      PROVE  OptionsInv'
  <2>1. ls \in Seq(Lines)
    <3>1. CASE ls = <<>>
      BY <3>1
    <3>2. CASE ls # <<>>
      <4>1. PICK l \in Lines : ls = <<l>>
        BY <3>2
      <4> QED BY <4>1
    <3> QED BY <3>1, <3>2
  <2>2. lists + 1 \in Nat \ {0}
    BY DEF OptionsInv, OptTypeOK
  <2> QED BY <1>5, <2>1, <2>2, ReplaceBoth DEF ReplaceFields, OptionsInv, OptTypeOK
<1>6. CASE StartTransfer
  BY <1>6 DEF StartTransfer, OptionsInv, OptTypeOK, HeldAsWanted, Carried
<1>7. ASSUME NEW v \in OptValues, NEW line \in Lines, NEW failing \in BOOLEAN,
             ReadAtOnce(v, v, <<line>>, failing)
      PROVE  OptionsInv'
  <2> DEFINE r1 == IF failing THEN Setopt(FromPool.req, "failonerror", 1) ELSE FromPool.req
             w1 == IF failing THEN Setopt(FromPool.wanted, "failonerror", 1) ELSE FromPool.wanted
             r2 == Setopt(r1, "method", v)
             w2 == Setopt(w1, "method", v)
             r3 == Setopt(r2, "target", v)
             w3 == Setopt(w2, "target", v)
             Req == [opts : AnyOpts, header : Nat, fields : [id : Nat, lines : AnyLines]]
             Wish == [opts : AnyOpts, replaced : BOOLEAN, lines : AnyLines]
  <2>1. v \in OptVals /\ 1 \in OptVals /\ {"failonerror", "method", "target"} \subseteq OptNames
    BY DEF OptVals, OptNames
  <2>2. r1 \in Req /\ w1 \in Wish /\ HeldAsWanted(r1, w1)
    BY <2>1, PoolGives, SetBoth
  <2>3. r2 \in Req /\ w2 \in Wish /\ HeldAsWanted(r2, w2)
    <3> HIDE DEF r1, w1
    <3> QED BY <2>1, <2>2, SetBoth
  <2>4. r3 \in Req /\ w3 \in Wish /\ HeldAsWanted(r3, w3)
    <3> HIDE DEF r2, w2
    <3> QED BY <2>1, <2>3, SetBoth
  <2>5. /\ lists' \in Nat \ {0} /\ defaults' = defaults /\ use' = "running"
        /\ outgoing' = Carried(req')
        /\ req' = ResetFields(r3, lists', <<line>>)
        /\ wanted' = [w3 EXCEPT !.replaced = TRUE, !.lines = <<line>> \o Standard]
    BY <1>7, PoolGives DEF ReadAtOnce, Told
  <2>6. <<line>> \in Seq(Lines)
    OBVIOUS
  <2>7. req' \in Req /\ wanted' \in Wish /\ HeldAsWanted(req', wanted')
    <3> HIDE DEF r3, w3
    <3> QED BY <2>4, <2>5, <2>6, ReplaceBoth
  <2> QED BY <2>5, <2>7 DEF OptionsInv, OptTypeOK, HeldAsWanted, Carried
<1>8. CASE EndTransfer
  BY <1>8 DEF EndTransfer, OptionsInv, OptTypeOK, HeldAsWanted
<1>9. CASE GiveBack
  <2>1. lists + 1 \in Nat
    BY DEF OptionsInv, OptTypeOK
  <2>2. req \in [opts : AnyOpts, header : Nat, fields : [id : Nat, lines : AnyLines]] /\ OptTypeOK
    BY DEF OptionsInv, OptTypeOK
  <2> QED BY <1>9, <2>1, <2>2, ResetIsClean DEF GiveBack, OptionsInv, OptTypeOK
<1>10. CASE UNCHANGED optionVars
  BY <1>10 DEF optionVars, OptionsInv, OptTypeOK, HeldAsWanted, Carried
<1> QED BY <1>1, <1>2, <1>3, <1>4, <1>5, <1>6, <1>7, <1>8, <1>9, <1>10 DEF OptionsNext

\* A request is sent with the options that its user and the defaults asked for and with
\* none of an earlier user; its list holds the lines asked for and no others, and a list
\* that libcurl has been told of is this one, never one that is freed (reset_all(),
\* reset_fields(), opts()).  It does not say that libcurl has been told of it before the
\* user calls reset_fields(): SentAsWanted would, and fails.
THEOREM SendsNothingStale == OptionsSpec => []NothingStale
<1>1. OptionsInv => NothingStale
  BY DEF OptionsInv, HeldAsWanted, NothingStale, Carried
<1> QED BY <1>1, OptionsStart, OptionsStep, PTL DEF OptionsSpec
=============================================================================
