------------------------------ MODULE CurlClient ------------------------------
(***************************************************************************)
(* curl_client (include/jkl/client.hpp): one request, CurlTransfer, and    *)
(* the sockets and timer that drive it, CurlSockets, under the client's    *)
(* mutex.  The coroutine and the handlers run on one thread of the         *)
(* io_context.  libcurl is external; what it may do inside a call is       *)
(* written down in the guards of InLibcurl and LibcurlReturns.             *)
(***************************************************************************)
EXTENDS CurlTransfer, CurlSockets

clientVars == <<transferVars, sockVars>>

ClientInit == TransferInit /\ SocketsInit

MutexFree == action = NoAction

\* A read of the coroutine, up to the call of add() or pause().
AwaitRead ==
  /\ MutexFree /\ MayRead
  /\ \E r \in Shapes :
       \/ \E stream \in Streams, added \in BOOLEAN : StartRead(r, stream, added)
       \/ ContinueRead(r)
  /\ CallLib("start")

Running == lib.added /\ verdict = "open"

\* What libcurl does with the transfer in socket_action(): it hands out data, or
\* the transfer ends, and the client fetches the message of that.
Transfers ==
  /\ InSocketAction
  /\ Deliver \/ (\E v \in {"ok", "failed"} : TransferEnds(v)) \/ RemoveDone

InLibcurl ==
  /\ ~MutexFree
  /\ \/ Transfers /\ UNCHANGED sockVars
     \/ Fds \ DOMAIN sds # {} /\ AssignFails /\ UNCHANGED sockVars
     \/ /\ \/ Running /\ \E fd \in Fds, acts \in SUBSET Dirs : SockPoll(fd, acts)
           \/ \E fd \in Fds : SockRemove(fd)
           \/ Running /\ \E ms \in {"later", "now"} : TimerCb(ms)
           \/ TimerCb("never")
        /\ UNCHANGED transferVars

\* libcurl's part of the contract when it returns: a finished transfer has been
\* fetched, without transfers it waits for no socket, and after an error event it
\* has closed the socket.
LibcurlMayReturn ==
  /\ InSocketAction => ~(lib.added /\ verdict # "open")
  /\ ~lib.added => sds = <<>>
  /\ action.by = "event" /\ action.event.err
       => LET w == action.event.wait
          IN  w.fd \in DOMAIN sds => sds[w.fd].id # w.id

LibcurlReturns ==
  /\ ~MutexFree /\ LibcurlMayReturn
  /\ ActionEnds(Running)
  /\ IF action.by \in {"start", "nested"}
     THEN Started /\ UNCHANGED <<pause, lib, reads, bytesRead, skipped, verdict>>
     ELSE UNCHANGED transferVars

Handlers ==
  /\ \/ /\ MutexFree
        /\ PostUnderLock \/ Resume
        /\ UNCHANGED sockVars
     \/ /\ \/ \E e \in Events : EventCb(e)
           \/ TimeoutCb
        /\ UNCHANGED transferVars

\* on_recycle(): libcurl still has the request if it is paused.
Recycles ==
  /\ MutexFree /\ Recycle
  /\ IF rstate = "paused" THEN CallLib("remove") ELSE UNCHANGED sockVars

\* The reactor runs on the same thread, between handlers.
Network ==
  /\ MutexFree
  /\ \/ \E w \in Waits, err \in BOOLEAN : Ready(w, err)
     \/ TimerExpires
  /\ UNCHANGED transferVars

ClientNext == AwaitRead \/ InLibcurl \/ LibcurlReturns \/ Handlers \/ Recycles \/ Network

ClientSpec == ClientInit /\ [][ClientNext]_clientVars
=============================================================================
