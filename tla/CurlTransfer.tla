---------------------------- MODULE CurlTransfer ----------------------------
(***************************************************************************)
(* One curl_request of curl_client (include/jkl/client.hpp): a coroutine   *)
(* reads the headers ("hd") and the body ("wd") of a transfer piece by     *)
(* piece.  A read that has no room left pauses the transfer; libcurl then  *)
(* offers the same chunk again when the next read lets it go on, and the   *)
(* request remembers how much of it was used.                              *)
(*                                                                         *)
(* The coroutine and the posted handlers run on the client's io_context,   *)
(* libcurl only while the client's mutex is held (module CurlClient).      *)
(***************************************************************************)
EXTENDS Naturals, Sequences, SequencesExt

CONSTANTS
  Streams,     \* what a transfer may consist of: sequences of chunks
  Shapes,      \* what a read may be: mode, room in each buffer, whether it
               \* takes some bytes only, and the buffer body data goes to
  MaxByte,     \* bound on the bytes of a chunk
  MaxReads,    \* bound on the reads
  NoAwaiter

ASSUME TransferAssumption ==
  /\ MaxReads \in Nat /\ MaxByte \in Nat
  /\ \A s \in Streams : s \in Seq([kind : {"hd", "wd"}, n : Nat])
  /\ \A r \in Shapes :
       /\ r.mode \in {"hd_wd", "hd", "wd", "hd_until_wd", "wd_until_hd"}
       /\ r.cap \in [1..2 -> Nat] /\ r.some \in [1..2 -> BOOLEAN]
       /\ r.wdBuf = 1 \/ (r.wdBuf = 2 /\ r.mode = "hd_wd")

VARIABLES
  rstate,   \* _state: reseted, running, paused, finished
  aw,       \* _aw: the awaiter of the current read
  pause,    \* _pauseType and _writeCbDataUsed
  lib,      \* libcurl: the stream, the next chunk, whether that one was refused
  posted,   \* what was posted to the io_context
  coro,     \* the coroutine: user, suspended
  reads,    \* reads so far
  bytesRead, \* the bytes read of this transfer, as <<chunk, byte>>
  skipped,  \* the chunks that came while their kind was not read
  verdict,  \* how the transfer ended: open, ok, failed
  crashed   \* none, or what the request met: pause_kind, failed_start

transferVars == <<rstate, aw, pause, lib, posted, coro, reads, bytesRead, skipped,
                  verdict, crashed>>

DataKinds == {"hd", "wd"}
Other(k) == IF k = "hd" THEN "wd" ELSE "hd"
NoPause  == [type |-> "none", used |-> 0]
Idle     == [added |-> FALSE, stream |-> <<>>, pos |-> 1, held |-> FALSE]

TransferInit ==
  /\ rstate = "reseted" /\ aw = NoAwaiter /\ pause = NoPause
  /\ lib = Idle
  /\ posted = <<>> /\ coro = "user" /\ reads = 0
  /\ bytesRead = <<>> /\ skipped = {}
  /\ verdict = "open" /\ crashed = "none"

-----------------------------------------------------------------------------
\* The callbacks a read installs, with the buffer that body data goes to.
Callbacks(mode) ==
  CASE mode = "hd_wd"       -> [hd |-> "write", wd |-> "write"]
    [] mode = "hd"          -> [hd |-> "write", wd |-> "off"]
    [] mode = "wd"          -> [hd |-> "off",   wd |-> "write"]
    [] mode = "hd_until_wd" -> [hd |-> "first", wd |-> "off"]
    [] mode = "wd_until_hd" -> [hd |-> "off",   wd |-> "first"]

Awaiter(r) ==
  [cb |-> Callbacks(r.mode), buf |-> [hd |-> 1, wd |-> r.wdBuf], cap |-> r.cap,
   some |-> r.some, size |-> <<0, 0>>, ec |-> "none"]

\* clear_pause_if_not(): only the plain reads forget a pause of the other kind.
PauseAtInit(mode) == IF mode \in DataKinds /\ pause.type # mode THEN NoPause ELSE pause

-----------------------------------------------------------------------------
\* What a callback makes of n bytes of the kind k: the awaiter and the pause it
\* leaves, how many bytes it copied from which offset, what it returns.
Outcome(a, p, from, copied, ret) ==
  [aw |-> a, pause |-> p, from |-> from, copied |-> copied, ret |-> ret]

\* release_data_used_on_pause() expects a pause of its own kind or none.
PauseFits(k, p) == p.type = k \/ p = NoPause

\* cr_buf_wrapper::append(): of m bytes, those for which buffer b has room.
Fitting(a, b, m) == LET room == a.cap[b] - a.size[b] IN IF m < room THEN m ELSE room

\* Mutant: the bytes used before the pause are offered to the buffer again.
ResumedWriteForgets(a, p, k, n) ==
  LET b      == a.buf[k]
      copied == Fitting(a, b, n)
      filled == [a EXCEPT !.size[b] = @ + copied]
  IN  IF copied = n THEN Outcome(filled, [p EXCEPT !.used = 0], 0, n, "ok")
      ELSE IF a.some[b] THEN Outcome(filled, [type |-> k, used |-> copied], 0, copied, "pause")
      ELSE Outcome([a EXCEPT !.ec = "no_buffer"], [p EXCEPT !.used = 0], 0, 0, "error")

\* resumed_write_to_bw(): skips what was used before the pause; a full buffer
\* pauses the transfer, or fails it unless the read takes some bytes only.
ResumedWrite(a, p, k, n) ==
  LET b      == a.buf[k]
      m      == n - p.used
      copied == Fitting(a, b, m)
      filled == [a EXCEPT !.size[b] = @ + copied]
      none   == [p EXCEPT !.used = 0]
  IN  IF p.used > n THEN Outcome(a, none, 0, 0, "error")
      ELSE IF copied = m THEN Outcome(filled, none, p.used, m, "ok")
      ELSE IF a.some[b]
        THEN Outcome(filled, [type |-> k, used |-> copied], p.used, copied, "pause")
      ELSE Outcome([a EXCEPT !.ec = "no_buffer"], none, 0, 0, "error")

\* The header or write callback that is installed for the kind k.  The first
\* data of an until-read makes data of the other kind pause the transfer.
Callback(a, p, k, n) ==
  CASE a.cb[k] = "off"   -> Outcome(a, p, 0, 0, "ok")
    [] a.cb[k] = "write" -> ResumedWrite(a, p, k, n)
    [] a.cb[k] = "first" -> ResumedWrite([a EXCEPT !.cb[Other(k)] = "pause"], p, k, n)
    [] a.cb[k] = "pause" -> Outcome(a, [type |-> Other(k), used |-> 0], 0, 0, "pause")

\* libcurl offers the chunk at l.pos to the awaiter a.
Offer(a, p, l) ==
  LET k == l.stream[l.pos].kind
      n == l.stream[l.pos].n
      o == Callback(a, p, k, n)
  IN  /\ aw' = o.aw /\ pause' = o.pause
      /\ crashed' = IF a.cb[k] \in {"write", "first"} /\ ~PauseFits(k, p)
                      THEN "pause_kind" ELSE crashed
      /\ bytesRead' = bytesRead \o [i \in 1..o.copied |-> <<l.pos, o.from + i>>]
      /\ skipped' = IF a.cb[k] = "off" THEN skipped \cup {l.pos} ELSE skipped
      /\ \/ /\ o.ret = "ok"
            /\ lib' = [l EXCEPT !.pos = @ + 1, !.held = FALSE]
            /\ rstate' = "running"
            /\ UNCHANGED <<posted, verdict>>
         \/ /\ o.ret = "pause"
            /\ lib' = [l EXCEPT !.held = TRUE]
            /\ rstate' = "paused"
            /\ posted' = Append(posted, "lock")
            /\ UNCHANGED verdict
         \/ /\ o.ret = "error"
            /\ lib' = [l EXCEPT !.held = FALSE]
            /\ rstate' = "running"
            /\ verdict' = "failed"
            /\ UNCHANGED posted

-----------------------------------------------------------------------------
MayRead == coro = "user" /\ crashed = "none" /\ reads < MaxReads

\* await_suspend() of the first read of a transfer: add() to the multi handle,
\* which may fail.
StartRead(r, stream, added) ==
  /\ MayRead /\ rstate \in {"reseted", "finished"}
  /\ aw' = Awaiter(r)
  /\ pause' = PauseAtInit(r.mode)
  /\ rstate' = "running"
  /\ lib' = [added |-> added, stream |-> stream, pos |-> 1, held |-> FALSE]
  /\ bytesRead' = <<>> /\ skipped' = {}
  /\ verdict' = IF added THEN "open" ELSE "failed"
  /\ coro' = "suspended" /\ reads' = reads + 1
  /\ UNCHANGED <<posted, crashed>>

\* await_suspend() of a later read: pause(CURLPAUSE_CONT), in which libcurl
\* offers the refused chunk again.
ContinueRead(r) ==
  /\ MayRead /\ rstate = "paused"
  /\ Offer(Awaiter(r), PauseAtInit(r.mode), lib)
  /\ coro' = "suspended" /\ reads' = reads + 1

\* The rest of await_suspend(): the result of add() or pause() becomes the
\* awaiter's error, whatever a call nested in it left there.  After a failure
\* the coroutine goes on at once, and a resumption is posted as well.
StartFailed == verdict = "failed" /\ rstate = "running"

Started ==
  \/ /\ ~StartFailed
     /\ aw' = [aw EXCEPT !.ec = "none"]
     /\ UNCHANGED <<rstate, posted, coro, crashed>>
  \/ /\ StartFailed
     /\ aw' = NoAwaiter
     /\ rstate' = IF lib.added THEN "paused" ELSE "finished"
     /\ coro' = "user"
     /\ posted' = Append(posted, "resume")
     /\ crashed' = IF crashed = "none" THEN "failed_start" ELSE crashed

\* libcurl has a chunk for a running transfer.
Deliver ==
  /\ lib.added /\ ~lib.held /\ verdict = "open" /\ lib.pos <= Len(lib.stream)
  /\ Offer(aw, pause, lib)
  /\ UNCHANGED <<coro, reads>>

\* The transfer ends: at the end of the stream, or with an error.
TransferEnds(v) ==
  /\ lib.added /\ ~lib.held /\ verdict = "open"
  /\ v = "ok" => lib.pos > Len(lib.stream)
  /\ verdict' = v
  /\ UNCHANGED <<rstate, aw, pause, lib, posted, coro, reads, bytesRead, skipped, crashed>>

\* try_remove_and_schedule_resume(), with the message that it ended.
RemoveDone ==
  /\ lib.added /\ ~lib.held /\ verdict # "open"
  /\ aw' = [aw EXCEPT !.ec = IF @ = "none" /\ verdict = "failed" THEN "failed" ELSE @]
  /\ lib' = [lib EXCEPT !.added = FALSE]
  /\ rstate' = "finished"
  /\ posted' = Append(posted, "resume")
  /\ UNCHANGED <<pause, coro, reads, bytesRead, skipped, verdict, crashed>>

\* multi_sock_cb() cannot use a socket of the transfer: the request is removed in
\* the middle of a call into libcurl.
AssignFails ==
  /\ lib.added /\ ~lib.held /\ verdict = "open"
  /\ aw' = [aw EXCEPT !.ec = IF @ = "none" THEN "failed" ELSE @]
  /\ lib' = [lib EXCEPT !.added = FALSE]
  /\ rstate' = "finished" /\ verdict' = "failed"
  /\ posted' = Append(posted, "resume")
  /\ UNCHANGED <<pause, coro, reads, bytesRead, skipped, crashed>>

\* The handler posted at a pause takes the mutex and posts the resumption.
PostUnderLock ==
  /\ posted # <<>> /\ Head(posted) = "lock"
  /\ posted' = Append(Tail(posted), "resume")
  /\ UNCHANGED <<rstate, aw, pause, lib, coro, reads, bytesRead, skipped, verdict, crashed>>

\* The coroutine goes on with await_resume().
Resume ==
  /\ posted # <<>> /\ Head(posted) = "resume" /\ aw # NoAwaiter
  /\ posted' = Tail(posted)
  /\ aw' = NoAwaiter /\ coro' = "user"
  /\ UNCHANGED <<rstate, pause, lib, reads, bytesRead, skipped, verdict, crashed>>

\* Mutant: a paused transfer stays with libcurl.
RecycleKeepsPaused ==
  /\ coro = "user" /\ crashed = "none"
  /\ UNCHANGED lib
  /\ pause' = NoPause /\ rstate' = "reseted"
  /\ bytesRead' = <<>> /\ skipped' = {} /\ verdict' = "open"
  /\ UNCHANGED <<aw, posted, coro, reads, crashed>>

\* on_recycle(): the request goes back to the pool.
Recycle ==
  /\ coro = "user" /\ crashed = "none"
  /\ lib' = Idle
  /\ pause' = NoPause /\ rstate' = "reseted"
  /\ bytesRead' = <<>> /\ skipped' = {} /\ verdict' = "open"
  /\ UNCHANGED <<aw, posted, coro, reads, crashed>>

-----------------------------------------------------------------------------
\* Reads that the request's one number is enough for.  Of a chunk that was refused it
\* keeps how much the last refusal used, not how much was used in all, and a read that
\* passes over the rest of a chunk may leave the number to the chunks to come.

\* Does a read of the shape r take a part of a chunk of the kind k?
TakesPart(r, k) == Awaiter(r).cb[k] \in {"write", "first"} /\ r.some[Awaiter(r).buf[k]]

\* What is left of a chunk fits into a fresh buffer.
RestFits ==
  \A s \in Streams : \A i \in DOMAIN s : \A r \in Shapes :
    TakesPart(r, s[i].kind) => s[i].n <= r.cap[Awaiter(r).buf[s[i].kind]] + 1

\* No read passes over the rest of a chunk without forgetting what was used of it.
RestIsRead ==
  \A r, q \in Shapes, k \in DataKinds :
    TakesPart(r, k) => Awaiter(q).cb[k] # "off" \/ q.mode \in DataKinds

\* The bytes read are those of the transfer, in order, none twice and none left
\* out, apart from chunks of a kind that was not asked for.
Before(x, y) == x[1] < y[1] \/ (x[1] = y[1] /\ x[2] < y[2])

DataInOrder == crashed = "none" =>
  /\ \A i \in 2..Len(bytesRead) : Before(bytesRead[i - 1], bytesRead[i])
  /\ \A c \in {bytesRead[i][1] : i \in DOMAIN bytesRead}, x \in 1..MaxByte :
       <<c, x>> \in ToSet(bytesRead) => \A y \in 1..x : <<c, y>> \in ToSet(bytesRead)
  /\ \A c \in (1..(lib.pos - 1)) \ skipped :
       \A x \in 1..lib.stream[c].n : <<c, x>> \in ToSet(bytesRead)

\* libcurl has the request exactly while it is running or paused, it refuses no
\* chunk unless the request is paused, and a suspended coroutine will be woken
\* exactly once: by the transfer, or by the one handler that is posted.  This
\* leaves out a call that has failed and not yet returned.
WokenOnce ==
  crashed = "none" /\ ~StartFailed =>
    /\ lib.added <=> rstate \in {"running", "paused"}
    /\ lib.held <=> rstate = "paused"
    /\ coro = "user" => posted = <<>> /\ aw = NoAwaiter
    /\ coro = "suspended" => Len(posted) = IF rstate = "running" THEN 0 ELSE 1

\* "BOOST_ASSERT(_pauseType == PauseType || (_pauseType == pause_type_none &&
\* _writeCbDataUsed == 0))": a callback that writes finds a pause of its kind.
PauseKindFits == crashed # "pause_kind"

=============================================================================
