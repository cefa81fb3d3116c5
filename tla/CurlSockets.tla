----------------------------- MODULE CurlSockets -----------------------------
(***************************************************************************)
(* The sockets and the timer of curl_client (include/jkl/client.hpp).      *)
(* libcurl owns the sockets; while the client's mutex is held it calls     *)
(* multi_sock_cb() to say what it waits for and multi_timer_cb() to set    *)
(* its time-out.  For each direction it waits for, the client keeps a      *)
(* chain of waits: the handler of one, event_cb(), calls socket_action()   *)
(* and starts the next.  A descriptor that libcurl closes may come back as *)
(* another socket at once, with another id.                                *)
(***************************************************************************)
EXTENDS Naturals, Functions

CONSTANTS
  Fds,        \* socket descriptors
  MaxSockId,  \* bound on the sockets opened
  MaxChain,   \* bound on the waits outstanding and the events queued
  NoAction

Dirs   == {"in", "out"}
Waits  == [fd : Fds, id : 1..MaxSockId, dir : Dirs]
Events == [wait : Waits, err : BOOLEAN]

\* What runs under the mutex: the handler of an event, that of the time-out, a read
\* of the coroutine that starts or goes on, also with a socket_action() nested in it,
\* or on_recycle().
Actions == [by : {"timeout", "start", "nested", "remove"}] \cup [by : {"event"}, event : Events]

ASSUME SocketsAssumption ==
  MaxSockId \in Nat /\ MaxChain \in Nat /\ NoAction \notin Actions

VARIABLES
  sds,     \* _sds: the sockets libcurl waits for, with id and directions
  waits,   \* outstanding async_wait()s: how many of each
  events,  \* their handlers that are due: how many of each
  idSeq,   \* _idSeq
  timer,   \* _timer: idle or armed
  expired, \* time-out handlers that are due
  action   \* what runs under the mutex, or NoAction

sockVars == <<sds, waits, events, idSeq, timer, expired, action>>

SocketsInit ==
  /\ sds = <<>> /\ idSeq = 0
  /\ waits = [w \in Waits |-> 0] /\ events = [e \in Events |-> 0]
  /\ timer = "idle" /\ expired = 0
  /\ action = NoAction

Wait(fd, id, dir) == [fd |-> fd, id |-> id, dir |-> dir]

-----------------------------------------------------------------------------
\* The socket becomes ready, or has an error.
Ready(w, err) ==
  /\ waits[w] > 0
  /\ waits' = [waits EXCEPT ![w] = @ - 1]
  /\ events' = [events EXCEPT ![[wait |-> w, err |-> err]] = @ + 1]
  /\ UNCHANGED <<sds, idSeq, timer, expired, action>>

TimerExpires ==
  /\ timer = "armed" /\ expired = 0
  /\ timer' = "idle" /\ expired' = expired + 1
  /\ UNCHANGED <<sds, waits, events, idSeq, action>>

\* event_cb() up to socket_action(); the mutex is taken.
EventCb(e) ==
  /\ action = NoAction /\ events[e] > 0
  /\ action' = [by |-> "event", event |-> e]
  /\ events' = [events EXCEPT ![e] = @ - 1]
  /\ UNCHANGED <<sds, waits, idSeq, timer, expired>>

\* The handler of _timer.
TimeoutCb ==
  /\ action = NoAction /\ expired > 0
  /\ expired' = expired - 1
  /\ action' = [by |-> "timeout"]
  /\ UNCHANGED <<sds, waits, events, idSeq, timer>>

\* add() or pause() in await_suspend() of a request, remove() in on_recycle().
CallLib(by) ==
  /\ action = NoAction
  /\ action' = [by |-> by]
  /\ UNCHANGED <<sds, waits, events, idSeq, timer, expired>>

-----------------------------------------------------------------------------
\* multi_sock_cb() with CURL_POLL_IN, OUT or INOUT: a wait is started for each
\* direction that the socket did not have before.
SockPoll(fd, acts) ==
  /\ action # NoAction /\ acts # {}
  /\ LET known == fd \in DOMAIN sds
         id    == IF known THEN sds[fd].id ELSE idSeq + 1
         had   == IF known THEN sds[fd].acts ELSE {}
     IN  /\ id <= MaxSockId
         /\ idSeq' = IF known THEN idSeq ELSE id
         /\ sds' = [f \in DOMAIN sds \cup {fd} |->
                      IF f = fd THEN [id |-> id, acts |-> acts] ELSE sds[f]]
         /\ waits' = [w \in Waits |->
              IF w.fd = fd /\ w.id = id /\ w.dir \in acts \ had THEN waits[w] + 1 ELSE waits[w]]
  /\ SumFunction(waits') + SumFunction(events) <= MaxChain
  /\ UNCHANGED <<events, timer, expired, action>>

\* multi_sock_cb() with CURL_POLL_REMOVE: the socket is released, which cancels
\* its waits; their handlers return at once.
SockRemove(fd) ==
  /\ action # NoAction /\ fd \in DOMAIN sds
  /\ sds' = [f \in DOMAIN sds \ {fd} |-> sds[f]]
  /\ waits' = [w \in Waits |-> IF w.fd = fd THEN 0 ELSE waits[w]]
  /\ UNCHANGED <<events, idSeq, timer, expired, action>>

\* multi_timer_cb(): a positive time-out arms the timer, a negative one stops it;
\* a time-out of zero calls socket_action() inside the callback, which may then
\* also finish transfers.
TimerCb(ms) ==
  /\ action # NoAction
  /\ timer' = IF ms = "later" THEN "armed" ELSE "idle"
  /\ action' = IF ms = "now" /\ action.by = "start" THEN [by |-> "nested"] ELSE action
  /\ UNCHANGED <<sds, waits, events, idSeq, expired>>

\* Does libcurl process finished transfers in what is running?
InSocketAction == action # NoAction /\ action.by \notin {"start", "remove"}

\* Mutant: the chain goes on only if the socket waits for nothing else.
RearmsAlone(w) == w.fd \in DOMAIN sds /\ sds[w.fd].id = w.id /\ sds[w.fd].acts = {w.dir}

\* Is the socket of the wait w still the same, and still waited for?
Rearms(w) == w.fd \in DOMAIN sds /\ sds[w.fd].id = w.id /\ w.dir \in sds[w.fd].acts

\* The call into libcurl returns: without a transfer left the timer is stopped;
\* event_cb() starts the next wait.
ActionEnds(running) ==
  /\ action # NoAction
  /\ action' = NoAction
  /\ timer' = IF ~running /\ InSocketAction THEN "idle" ELSE timer
  /\ waits' = IF /\ action.by = "event" /\ ~action.event.err /\ running
                 /\ Rearms(action.event.wait)
              THEN [waits EXCEPT ![action.event.wait] = @ + 1] ELSE waits
  /\ UNCHANGED <<sds, events, idSeq, expired>>

-----------------------------------------------------------------------------
\* What libcurl waits for is waited for: while nothing runs under the mutex, a
\* wait of the socket is outstanding or its handler is due, in each direction.
\* No wait is outstanding for a socket that libcurl has closed.
InterestKept ==
  /\ action = NoAction =>
       \A fd \in DOMAIN sds : \A d \in sds[fd].acts :
         LET w == Wait(fd, sds[fd].id, d)
         IN  waits[w] > 0 \/ \E err \in BOOLEAN : events[[wait |-> w, err |-> err]] > 0
  /\ \A w \in Waits : waits[w] > 0 => w.fd \in DOMAIN sds /\ w.id = sds[w.fd].id
=============================================================================
