# TLA+ models of jkl

jkl is a header-only C++ library of coroutine building blocks: tasks,
asynchronous generators, awaiters over asio, a resource pool, stop tokens, a
curl client, a protobuf DSL, URIs, HTML documents and an SQLite wrapper. All of
it is under `src/include/jkl`; paths below are relative to that directory unless
they start with `src/`. The repository has tests for the protobuf DSL, URIs and
HTTP messages, and none for anything in which threads, handlers or coroutines
meet. That is what these models start with.

`PROJECT.json` has the machine-readable side of this document: the components,
the runs, for each property a mutant of the model that breaks it, the source
lines of each definition, the hazards and the theorems.

## 1. Inventory

### Components, their state and operations

| component | source | state it keeps | operations | modelled by |
|---|---|---|---|---|
| resource pool | `res_pool.hpp` | mutex, capacity, `_inuse`, `_unused`, deque of waiters, id set and sequence | acquire (with timeout and stop), try_acquire, recycle, reserve, create_all, clear_unused, destructor | `ResPool`, `Allocator` |
| stop token | `std_stop_token.hpp` | one word of flags and two reference counts, list of callbacks, signalling thread | request_stop, construct and destroy a callback, copy and destroy sources and tokens | `StopState` |
| awaiter of an operation | `ec_awaiter.hpp`, `params.hpp` | error code, timer, stop callback, shared `anyReached` flag | await_suspend, completion, timeout, stop | `EcAwaiter` |
| generators, `while_next` | `gen.hpp` | generator state, map of running tasks, `wpSuspended` | next, yield, emplace and start a task, a task ends, resume the awaiting coroutine | `WhileNext` |
| tasks | `task.hpp`, `std_coro.hpp`, ... | continuation, result variant; in `sync_await` a mutex, a flag and a condition variable | start, continue, final_suspend, sync_await | `SyncAwait`, `WhileNext`; in part |
| io contexts | `ioc.hpp` | contexts, work guards and threads, round-robin index | start, join, stop, get_ioc | `IocPool`; in part |
| curl client | `client.hpp` | request states, pause, partly used chunk, socket table, timer, options and header list, defaults of the client | read, write and header callbacks, pause, continue, finish, recycle, socket and timer callbacks, setters, parse the header | `CurlTransfer`, `CurlSockets`, `CurlClient`, `CurlOptions`, `HttpText`; in part |
| libcurl wrappers | `curl/` | handles, lists of lines | set and reset options, build lists | by `CurlOptions`, as far as a request uses them |
| protobuf DSL | `pb/` | length cache, read and write cursors, the object read into | sizes, tags, fields, messages, integers | `PbMessage`, `Varint`; in part |
| URI | `uri/`, `url.hpp` | none (algorithms), the components read into | read, write, encode, decode, resolve, data URLs | `UriText`, `UriResolve`, `HttpText`; in part |
| SQLite | `sqlite3/` | connection, its settings, prepared statements, scoped transactions and savepoints | open, clear, set, exec, next, begin, commit, release, roll back | `SqliteScopes`, `SqliteStmt`, `SqliteConn`, `NestedScopes`; in part |
| documents and text data | `html.hpp`, `charset/`, `mime.hpp` | the parsed document, the collection of elements found | parse a selector, search, detect the charset | `HtmlSearch`; in part |
| HTTP and connections | `http_msg.hpp`, `http.hpp`, `stream.hpp`, `conn.hpp`, ... | sockets, buffers | asio operations wrapped by `make_ec_awaiter`; media types | media types by `HttpText`; in part |
| timed_awaiter, until_one, until_all, stop.hpp, DNS (`ares.hpp`), JSON, LMDB, MySQL, utilities, `res_pool prev.hpp`, `certify/` | | | | not modelled, see section 6 |

### How they interact

* A coroutine that co_awaits `pool.acquire()` or an `ec_awaiter` is suspended
  and has handed its handle to up to three parties: the one that has the
  result, a timer handler on the io_context, and a stop callback run by
  whoever calls `request_stop()`. The first one resumes it. Resuming it
  destroys the awaiter, with the timer and the stop callback in it, because
  the awaiter is a temporary of the co_await expression.
* `StopState` is underneath: a stop callback runs on the thread that requests
  the stop, or inside the constructor of the callback if the stop came first.
  Its destructor waits for a callback on another thread, but not for one on its
  own thread. `ResPool` and `EcAwaiter` use the callback with exactly these
  promises (a destroyed callback does not run; the inline run happens before
  `emplace()` has stored the object; a callback may destroy itself).
* `while_next` starts one task per item of the generator. Tasks, generator and
  `while_next` share a `while_helper` that lives in the frame of `while_next`,
  which the awaiting coroutine destroys as soon as it goes on.
* The pool posts the resumption of a waiter through the waiter's executor;
  timers and completions arrive as handlers of an io_context, on one thread or
  on several (`ioc.hpp` runs one thread or more per context).
* `curl_client` takes its requests from a `res_pool`, whose on_recycle callback
  resets them. libcurl calls back while the client calls it, under the client's
  mutex, and may do so several times in one call; sockets and the timer come
  back as handlers of the io_context.
* A writer of messages, URIs or headers and its reader meet only in the text
  between them: what one leaves out or escapes is what the other relies on.
* The scopes of an SQLite transaction are objects on the C++ side and names on a
  stack in SQLite, where a name means the latest savepoint that has it.

### What is hard

* *Lifetime under resumption.* Code that runs after `resume()`, after a
  callback was registered or after an operation was started may work in an
  object that no longer exists (`res_pool.hpp:178`, `ec_awaiter.hpp:138`,
  `gen.hpp:262`, `gen.hpp:280`, `task.hpp:357`).
* *Late handlers.* A timer handler already queued survives `cancel()` and runs
  in a later wait (`res_pool.hpp:181`); an event for a socket that libcurl
  closed arrives when the number belongs to another one (`client.hpp:1041`).
* *Unlocked windows.* `recycle()` unlocks between choosing a waiter and
  completing it; `request_stop()` executes callbacks without its lock;
  `join()` takes the work guard away while handlers still post.
* *Bookkeeping in several places.* The pool describes a wait by a deque slot
  that may be null, by an id in a set, and by the awaiter itself; lengths of
  messages are cached in one pass and consumed, by position, in the next.
* *Things used again.* Requests out of the pool, prepared statements, objects
  that were read into before: what the last user left must be gone.
* *Counters and flags in one word.* The last reference of a stop state is
  recognised by comparing the old word with a threshold.
* *In-place algorithms and double paths.* Dot segments are removed in the buffer
  they are read from (`uri/resolve.hpp:30`); `read_varint` has one loop for a
  long buffer and another for the end of a buffer (`pb/varint.hpp:254`).
* *Partial failure.* A timeout calls `cancel()` on the shared I/O object; a step
  of a prepared statement throws; SQLite abandons a transaction by itself.

The hazards are listed one by one, with their lines, in `PROJECT.json`.

### What makes each component correct

* Pool: a resource has one owner; the capacity holds; waiters are served first
  come, first served and never passed over; a timeout ends its own wait only;
  slots, ids and waiters agree; the assertions in the code hold; nobody waits
  for ever while resources come back.
* Stop token: freed exactly with the last reference; each callback runs at most
  once and is not lost; none runs after its destructor returned; destructors
  return.
* Awaiter: resumed at most once; no handler touches a dead awaiter; no operation
  survives its wait; a wait with an expiry ends.
* while_next: the awaiting coroutine is resumed once, when all is through, with
  the generator's own result.
* Tasks: `sync_await` returns, with the result of its task and not before it.
  io contexts: `join()` leaves nothing undone.
* Curl client: a read wakes its coroutine once; data is neither lost nor
  repeated over pauses; there is a wait for every direction of every socket
  that libcurl waits for; a request is sent with the options and header lines its
  user gave it, and with nothing of an earlier user.
* Protobuf: what one version of a schema writes another reads, into an object
  used before, except for the fields it does not have. Integers: decoding
  inverts encoding, and the fast and the slow path accept the same input.
* URIs: what was written is read back; taken apart, a URI loses nothing; no
  more is written than was reserved; resolution agrees with RFC 3986.
* SQLite: scopes nest whatever fails between and whichever names they have, and
  their destructors do not throw; uses of a statement do not affect each other; a
  setting reads as it was set.
* Documents: a search finds what its selector means, each element once;
  headers and data URLs yield the media type they were written with.

## 2. Modules

| module | what it is |
|---|---|
| `Allocator` | what `res_pool` promises: an exclusive, bounded, first-come-first-served allocator |
| `ResPool` | `res_pool.hpp` with awaiter, `res_holder`, timer and stop callback; refines `Allocator` |
| `StopState` | `__stop_state`, `stop_source`, `stop_token`, `stop_callback` |
| `EcAwaiter` | `ec_awaiter` for several coroutines on one I/O object |
| `WhileNext` | `while_next` with its helper, tasks and generator |
| `SyncAwait` | `sync_await` and the chain of tasks under it |
| `IocPool` | `ioc_pool` over an external `io_context` |
| `CurlTransfer`, `CurlSockets` | one request of the client; its sockets and timer |
| `CurlClient` | composes the two under the client's mutex, with libcurl external |
| `CurlOptions` | what a request is sent with when requests are used again |
| `Varint`, `PbMessage` | the integer codec and the messages of `pb/` |
| `UriResolve` | reference resolution and the removal of dot segments |
| `UriText` | reader, writer and percent codec of `uri/` |
| `HtmlSearch`, `HttpText` | searches and charset of documents; media types of headers and data URLs |
| `SqliteScopes`, `NestedScopes` | scoped transactions and savepoints; the nested scopes they implement |
| `SqliteStmt`, `SqliteConn` | a prepared statement; a connection and its settings |
| `Strings` | find, substr and trim on sequences, used by the text modules |
| `ResPoolProofs`, `StopStateProofs`, `TaskProofs`, `CurlProofs`, `VarintProofs`, `UriResolveProofs`, `SqliteProofs` | theorems, see section 4 |
| `NaturalRecursion` | induction and recursion over the natural numbers, for the proofs about recursive functions |
| `MCResPool`, `MCStopState`, `MCTasks`, `MCData`, `MCDatabase`, `MCDocs`, `MCCurlClient` | model values, inputs and symmetry for TLC |

`MCTasks`, `MCData` and `MCDocs` put components next to each other that do not
interact; `MCDatabase` and `MCDocs` have the inputs of some of them. A behaviour is one of them, chosen by `part` in the
initial state; the others keep their initial state. That is a matter of running
them, not a composition. Components that do interact are composed in
`CurlClient`.

### ResPool

`mut` is the owner of `_mut`, which `acquire()` locks and the awaiter it returns
unlocks in `await_suspend()` or in its destructor; code that locks and unlocks
within one function is one action. `inuse` and `unused` are the two containers
(the pool keeps the number in use; the set tells resources apart), `queue` the
deque of slots (`NoCoro` is the null pointer), `awaiters` the id set, `idSeq` the
id sequence. For each coroutine `pc` says where its co_await stands, `myId`,
`rh` and `ec` are the awaiter's members, `held` the `res_holder` of the user,
`next` the awaiter that its `recycle()` has taken out of the deque and not yet
completed. `susp` is the rest of `await_suspend()` after the mutex is released:
arm the timer, register the callback, store it. `timers` holds
armed and expired timers with the id their handler captured.

`await_suspend()` is `SuspendAborted`, `SuspendAcquired`, `SuspendThrows` (the
creator may throw) or `SuspendQueued`, then `ArmTimer` and `RegisterStop` (or
`RegisterStopLate`, the callback run in the constructor) and `OwnStop`.
`recycle()` is `RecycleUnused`, or `RecycleToWaiter` followed by `Complete` after
the unlock. Timer and stop handlers are `TimerHandler` and `StopCallback`.

With `MultiThread = FALSE` no handler starts while `await_suspend()` is on the
stack. With `TRUE` it may, and then a coroutine may be resumed and its awaiter
destroyed under `await_suspend()`. The model records this in `dangling` and
claims nothing of what follows (`Undefined`); that the code is safe with one
thread and not with several is what `NoDangling` separates.

### StopState

The word `__state_` is kept as its four parts `stop`, `locker`, `tok`, `src`;
`Word` puts them together with the code's increments, because the code
recognises the last reference by comparing the old word. A step of a thread is
one atomic operation on the word or what is done under the spin lock.
`request_stop()` is `RequestStop`, then `Pop`, `Mark`, `ExecReturn`, `After` and
`Relock` per callback; a constructor is `Construct`, `Push`, `Constructed`; a
destructor `Destroy`, `UnlinkCb`, `Await`, `Release`. A callback that runs during
`request_stop()` may do all of this itself on the same thread. The execution of
a callback inside its own constructor is one step.

A stop_source is not destroyed while `request_stop()` runs on it, except by the
callback that `request_stop()` executes as its last (`DropSource`): the class
promises nothing to a user who does, and the code then locks freed memory.

### EcAwaiter

Wait `n` of coroutine `c` has its own operation, timer and `anyReached` flag;
`alive[c]` is the number of the awaiter that exists. A handler is
split at the unsynchronised points: it enters (looks at the flag, cancels
the timer) and finishes (resets the callback, cancels the operation, resumes).
`cancel()` on the shared object aborts the operations of all coroutines, and an
aborted completion handler returns without resuming.
`stale` collects the coroutines one of whose handlers used a dead awaiter,
`lost` says that `await_suspend()` did. `mode` fixes for a behaviour whether
handlers run on several threads and which coroutines can be stopped; `Expiring`
are those that pass an expiry. Coroutines that can be stopped and have no expiry
have no flag (`Unflagged`), and for them `OneHandlerResumes` claims nothing: the
code does not decide between stop and completion there (section 5).
`optional_stop_callback` has no `reset()` at this commit although `ec_awaiter`
calls it; the model takes it as destroying the callback held, if `emplace()` has
stored one.

### WhileNext, SyncAwait, IocPool

`WhileNext`: the frame of `while_next` (`wpc`), the generator (`gen`), the tasks
(`tpc`) and the map `pts` with the flag `wpSuspended`. One action per stretch
between two lock operations, suspensions or resumptions. `dangling` is set when a
thread goes on in the destroyed frame, or uses a reference into the flat hash map
after an erase has moved the element.

`SyncAwait`: `waiter` is the calling thread, `body` each task of a chain of
`Depth`, task 0 being the lambda of `sync_await`; `thread` and `level` say who
runs which task. The lambda locks, sets the flag, notifies after unlocking and
ends (`LambdaLocks`, `LambdaSetsDone`, `LambdaNotifies`, `LambdaEnds`); the
waiting thread locks, tests, sleeps, and may wake by itself.

`IocPool`: a job goes through `LoadNext`, `ExchangeNext` (the round-robin CAS,
which may fail for no reason) and `PostPicked`, or is posted by a handler to its
own context. `guard`, `stopped`, `running` are asio's work guards, stopped flags
and threads in `run()`; `join()` is `BeginJoin`, then `ResetGuard` and
`JoinThreads` per source. `owed` collects what was posted to a source before
`join()` took its guard away, or by its own handlers later.

### CurlTransfer, CurlSockets, CurlClient

`CurlTransfer` is one `curl_request`: `rstate`, `aw`, `pause` are `_state`, `_aw`,
and `_pauseType` with `_writeCbDataUsed`. `lib` is what libcurl knows: its chunks,
which comes next, and whether that one was refused and will be offered again.
`Callback` is the write or header callback the mode has installed, `ResumedWrite`
the first one after a pause, `Fitting` how a chunk meets the room of a buffer.
`Posted` handlers (`PostUnderLock`, `Resume`) wake the coroutine.

`CurlSockets` has `_sds`, the outstanding `async_wait()`s and their due handlers
(counted, since chains of them can double), the timer, and `action`: who is
inside `socket_action()`, as this mutex is held over it. `CurlClient` puts both
together: `InLibcurl` is what libcurl may do in a call (socket and timer
callbacks, data, end of the transfer), `LibcurlMayReturn` what it has done before
it returns, namely that it waits on a socket or the timer for a transfer that runs.

### CurlOptions

`req` is a request in the pool or with a user: the options of its easy handle,
the pointer to a header list libcurl holds (by number) and the list `_fields`
itself. `ResetAll` is `reset_all()` in the code's order, `ResetFields`,
`AppendLine`, `ApplyDefaults` what they are named after. `AcquireRequest` takes a
request from the pool or makes one, `ReadAtOnce` is `client.read_body()` and its
relatives, `GiveBack` on_recycle. `wanted` follows, for the property, what the
user and the defaults at the time of the reset asked for; of the header lines, the
three that the comment above `body()` says are there, those added and those
replaced. The defaults are read in one step; the code reads them without the mutex
their setters take.

### Varint, PbMessage

`wire` is a buffer to which `Write` appends values of three kinds (bool, unsigned,
zig-zag), or which `Receive` fills with bytes from elsewhere. A reader takes values
(`Read`) or passes over them (`Skip`) at `rpos`, from a buffer that ends at any
`e`: this is what selects between the path of `read_varint` without a test for the
end (`FastPath`) and the one without a test for the size (`SlowPath`). A byte has
`GroupBits` payload bits, an integer `Width` bits, so that the boundary cases of
the code's 7 and 8..64 bits appear at sizes TLC can enumerate; `ConstAssumption`
says what the code's numbers have in common with the small ones (the last byte of
the longest encoding is only partly used). The macros `__ONE_BYTE` and `__LAST_BYTE`
are one rule: a byte below `High` stops, the last possible one only if it does not
exceed `max_varint_last_byte`.

`PbMessage`: a field is a record of kind, number, options and parts, a message a
sequence of fields, a value what the field holds. `WriteMessage` is `wire_size()`
with its cache of lengths and `write_impl()` that consumes it; `ReadMessage` is
`read_sub_flds()` with `exam_sub_flds()`. Every varint, fixed value and byte is one
unit on the wire, so that this module is about tags, lengths, order and presence
only. The pack expansions over fields, whose order C++ leaves open, go from left to
right.

### UriResolve, UriText

`Resolve` is `uri_resolve_append` up to the path: it chooses the components of the
target and the path to be cleaned (`Merge` is `uri_resolve_path_append`). Each
iteration of the loop that removes dot segments is an action, named after its
branch: `DropLeadingDots` (A), `DropDot` (B), `DropDotDot` (C), `DropLoneDots` (D),
`MoveSegment` (E). `buf` is the one buffer, `in` the first character not yet read,
`op` the number of characters written. The reference `Target`, `TargetPath` is
RFC 3986, 5.2: `ReadUpTo(p)[i]` is what has become of the first `i` characters of
a path, where a slash makes the segment before it complete and `Settle` drops "."
and, for "..", the segment before it. It has no buffer and no look-ahead.
`MoveSegment` copies from the lowest character on; the source uses
`string_view::copy`, whose result the standard leaves undefined when the ranges
overlap, as they do for a segment longer than what was dropped before it.

`UriText`: a text is a sequence of characters. `Chosen` is the writer's choice
among the components it was given, `AppendTo` and `MaxWriteSize` its two walks over
them, `SplitComp` and `Escape` the encoding of each, `Pieces` the reader's cuts
and `ReadInto` what it leaves in the components, which may hold anything before.
A query may be given as pairs and is read back as one text. Only characters that
some table escapes are written as escapes, in upper case; a port is a text of
digits; what is given to the writer is decoded.

### SqliteScopes, SqliteStmt, SqliteConn

`scopes` are the C++ objects, `sps` and `log` SQLite's stack of savepoints and the
writes of its transaction. A destructor rolls back and releases by name, and SQLite
takes the latest savepoint of that name. Names may be used again, as the
constructor's default "sp" is. A destructor whose statement fails throws out of a
noexcept function: `Terminate`, after which nothing happens (`dead`). `hidden` marks
a scope around one of its name that was left by its destructor; what its own
destructor then does is `ClosesHidden`.

`SqliteStmt` follows a prepared statement through uses that may throw at every step.

`SqliteConn` has a table of settings (`Entry`) that says how a setter tests, sets and
reads back, where SQLite keeps the value (file, connection, or as it keeps WAL), and
what SQLite does with it: keep, cap, refuse, ignore or delay it until `VACUUM`. A
behaviour is about one of them, `inUse`, or about the size of the cache and the page
size it is counted in: some settings of SQLite depend on others (the file of a
database in WAL mode stays locked), and every pair would need a row of its own. A
database is in a file or `temporary`: "main" with an empty path, an attached one in
memory. A temporary one is locked for good, and an attached one always has its
journal in memory (`TemporaryOf`). Changes of the schema and `VACUUM` count
schema_version up (`Counted`). `clear()` turns RESET_DATABASE on, runs `VACUUM` and
turns it off again; if `VACUUM` throws, as within a transaction, the option stays on
and SQLite takes every database for empty in the next statement that writes one
(`resetting`). `asked` is, for the property, what was promised: the value of a setter
that returned, for all databases but temporary ones, those attached later included,
when it was `set_all_locking_mode()` (its comment), and for main when it was
`set_all_journal_mode()`, of which the code reads back no more. It ends with what
SQLite kept the value in. SQLite is external. The rows of the table, what they do
under `VACUUM`, `ATTACH`, a failed `clear()` and read-only files were compared with
SQLite 3.40 by random sequences of these calls.

### HtmlSearch, HttpText

A document is a tree of numbered nodes, a selector a sequence of words and
separators. `ReadSelector` is `parse()`, `Matches` and `Combined` the selectors,
`ForeachIf` is `foreach_if()` for the kinds of searches, `Elms` one search in a chain.
`SearchFinds` says what a search is meant to find, `FirstFound` what the comment on
`hs_until_found_first` promises. The selectors of the run `data` have no attribute
with "=" and none without a value at the end; `html_search` has both (section 5).
`HttpText` writes headers and data URLs from a media type and reads them with
`parse_header_trailer`, `http_field_content_type` and `parse_data_url`.

## 3. Runs

| run | module | shows |
|---|---|---|
| `pool_single` | `MCResPool` | `NoDangling`, `WaiterServed` |
| `pool_threads` | `MCResPool` | `WaiterAccounting`, `ExclusiveOwnership`, `PoolAsserts`, `TimeoutOwnWait`, and the refinement `ImplementsAllocator` |
| `stop` | `MCStopState` | `NoUseAfterFree`, `DeletedWhenUnreferenced`, `ExecutedOnce`, `QuietAfterDestroy`, `Signalled`, `DestroyReturns` |
| `tasks` | `MCTasks` | while_next: `NoDangling`, `ResumedOnce`, `ResumedWhenAllDone`, `ResultForwarded`, `Completes`; sync_await: `ResultAwaited`, `SyncReturns`; io contexts: `JoinedMeansDone`; awaiter: `OneHandlerResumes`, `NoOrphanOperation`, `SuspendedGoesOn` |
| `data` | `MCData` | URIs: `ResolvedAsRFC`, `InPlaceSafe`, `EveryIterationReads`, `ReadsBack` (with `NothingLost` and `FitsReserved`); integers and messages: `RoundTrip`, `PathsAgree`, `ReadGivesWritten`; curl client: `WokenOnce`, `DataInOrder`, `InterestKept`, `NothingStale`; texts: `SearchFinds`, `MediaTypeRead`; SQLite: `ApartScopesNest` (the refinement of `NestedScopes` but for one kind of destructor, with `ThrowsOnlyAborted`), `UsesApart`, `ReadsAsSet` |
| `uri_relative` | `MCData` | **violated**: `RelativeResolved` |
| `uri_userinfo` | `MCData` | **violated**: `UserinfoKept` |
| `client_data` | `MCCurlClient` | **violated**: `DataInOrder`, with a chunk three times the buffer |
| `client_trailer` | `MCCurlClient` | **violated**: `PauseKindFits` |
| `client_fields` | `CurlOptions` | **violated**: `SentAsWanted` |
| `scope_names` | `SqliteScopes` | **violated**: `ScopesNest` |
| `html_search` | `MCDocs` | **violated**: `SearchAsDocumented` (`SearchFinds` and `FirstFound`) |

The runs that are violated are findings about the code: section 5.

Why the bounds are enough to be interesting:

* *Pool.* `pool_single`: 3 coroutines, 1 resource, one thread, `MaxId` 2; one
  coroutine has a timeout and can be stopped. `pool_threads`: 3 coroutines, 2
  resources, capacity 1..2, `MaxId` 3, one coroutine with a timeout, one that can
  be stopped, symmetry. One holder and two waiters give an order to get wrong; a
  third id lets a coroutine wait again while the late timer of its first wait is
  about; capacity 1..2 lets `reserve()` grow and shrink around a resource in use.
  `pool_single` has one resource, as liveness is checked without symmetry.
* *Stop token.* 2 threads, 3 callbacks, 2 sources, 1 token. Two callbacks are
  listed while a third is registered or destroyed during `request_stop()`: with
  two, nothing is registered late enough to be executed twice. Two sources are
  needed for one to outlive `request_stop()`, two threads for a destructor to
  meet a running callback. `SourceInc` is 64 instead of 2^33, above what the
  token counts can reach (`ConstAssumption`).
* *Tasks.* `MaxItems` 4: four tasks finish in any order, inline or late. `Depth`
  3: a task in the middle of the chain that is neither the lambda nor awaits the
  operation. 2 contexts, 2 threads, 3 jobs, 2 starts: handlers that post to a
  source that is being joined, and jobs left over from a first start. Awaiter: 2
  coroutines on one object, one with an expiry, one at a time that can be stopped,
  on one thread or several, 2 waits each, so that handlers of the first wait meet
  the second and a cancel hits the other coroutine, and cancels from outside.
* *Integers.* 2 payload bits a byte, integers of 5 and 7 bits: encodings of up to
  3 and 4 bytes, the last with 1 and 3 usable bits (the code: 1 to 4); all values
  and up to 4 foreign bytes, which fill the longest one with every pattern.
* *Messages.* Two versions of a schema with every kind of field, repeated,
  optional, checked, nested, oneof and map, with fields that only one version has
  or that have become another kind; each read into an object read into before.
* *Resolution.* Bases of up to 2 and references of up to 4 path segments out of
  "", ".", "..", "x", ".x", with and without scheme, authority and query. Four
  segments let two ".." meet segments on both sides, and the end of the path be a
  dot segment or empty.
* *URIs as text.* Every component with a delimiter in the wrong place, ports
  with and without their scheme, wide components and mixtures, up to two query
  pairs; 504 foreign URIs put together from heads, paths and ends.
* *Curl client.* 1 descriptor, used twice (`MaxSockId` 2), up to 2 waits of a
  kind, 2 reads, headers, body and trailer in chunks of at most twice the smallest
  buffer, two kinds of reads, which fit what is left of a chunk. `ReadsAreKept` in
  `MCData` has TLC check that these are the reads `DataStaysInOrder` is proved for;
  the one of `client_data` is not. Options:
  2 settable options, 1 value, 1 header line, at most twice, 4 lists: two users, and
  what the first leaves to the second.
* *Documents.* Trees of 5 nodes, chains of 2 searches, single selectors, and,
  or, but and not.
* *Database.* 2 names, depth 3, so that a scope has one of its own name and one of
  another around it, 3 writes, SQLite aborting at any time; 3 uses of a statement
  with 4 pairs of arguments and up to 3 rows with columns that some types cannot
  hold; 2 databases, each in a file or not, the numbers -3 and 0 to 4 with a cap of 1
  (`Cap`), so that every setting has values that are in its range, out of it and
  capped; schema versions counted to 2 (`MaxVersion`), enough for one that was set to
  be counted on; cache sizes of -3, 0 and 2 with pages of 1 and 4. `scope_names` has
  one name, depth 2 and 2 writes.

Deadlock is checked in the pool runs. It is not in the others: a stop state
whose references are all gone, coroutines that have used up their waits, a text
that was read back, really are at an end. A coroutine without an expiry whose
operation somebody else cancelled stays suspended for good; this is what the code
does, and `SuspendedGoesOn` is stated for coroutines with an expiry.

### Fairness

* Pool: threads inside the pool's functions, posted resumptions and running
  callbacks go on (weak); a holder recycles in the end, and a thread blocked on
  the mutex is let in (strong, as the mutex is free again and again). The NOTE
  at `acquire()` obliges its caller to await at once. Nothing obliges timers to
  expire or stops to be requested.
* Stop token: threads go on and callbacks return (weak); a spinning
  `__lock()` succeeds in the end (strong).
* Awaiter: queued handlers run, timers expire, callbacks return (weak), as long as
  nothing was touched that is gone. The operation itself need not complete.
* while_next: `while_next`, generator and tasks are resumed by what they await
  (weak) and come to an end; the generator yields finitely many items (strong,
  because a generator and a task may wait any number of times in between).
* sync_await: both threads go on and the operation completes (weak); a mutex that
  is free again and again is got in the end (strong).

`Undefined` steps are never forced: `WaiterServed` and `Completes` claim nothing
after `dangling`, which in these runs is shown never to hold on one thread.
Everything else that is checked is a safety property and assumes no fairness.

## 4. Proofs

The theorems hold for every value of the constants that satisfies the named
assumption of the module (`ConstAssumption`, `BoundAssumption`, ...): bounds that
are natural numbers, null values outside their sets, and what the code itself
demands: at least one thread per source (asserted at `ioc.hpp:206`), a source
increment above every token count (true of 2^33 with fewer than 2^31 tokens and
callbacks), finitely many sources and tokens, and in `Varint` what the code's 7 bits
and 8..64 bits have in common with the small ones. TLC evaluates them on every run.
`PathAssumption` of `UriResolve` says that paths are sequences of characters,
`TransferAssumption` that a stream is a sequence of chunks, `ConnAssumption` and
`TogetherAssumption` of `SqliteConn` that settings are tried with numbers and come
from the module's table.

One theorem has hypotheses of its own, as the property is false without them:
`DataStaysInOrder` assumes `RestFits` (what is left of a chunk fits into a fresh
buffer of every read that takes some bytes) and `RestIsRead` (no read passes over the
rest of a chunk that another has begun, without forgetting what was used of it). The
reads of the run `data` satisfy both (`ReadsAreKept`, evaluated there), those of
`client_data` break the first; `client.hpp:489` breaks the second (section 5).

| module | theorem | property |
|---|---|---|
| `ResPoolProofs` | `TypeCorrect`, `WaitersAgree`, `OwnedOnce`, `CapacityKept`, `AssertsHold` | `TypeOK`, `WaiterAccounting`, `ExclusiveOwnership`, `Capacity`, `PoolAsserts` |
| | `HandsOver`, `OwnTimeout` | the action properties `HandOverNotIdle`, `TimeoutOwnWait` |
| | `SingleThreadSafe` | `NoDangling` with one thread |
| | `Implements` | the refinement `ImplementsAllocator` |
| `StopStateProofs` | `NothingFreedUsed`, `DeletedInTime`, `AtMostOnce`, `QuietWhenDestroyed` | `NoUseAfterFree`, `DeletedWhenUnreferenced`, `ExecutedOnce`, `QuietAfterDestroy` |
| `TaskProofs` | `ResumesOnce`, `ResumesLast`, `ForwardsResult`, `SingleThreadSafe` | `ResumedOnce`, `ResumedWhenAllDone`, `ResultForwarded`, `NoDangling` |
| | `ReturnsResult`, `NeverMissed` | `ResultAwaited`, `NotificationDue` |
| | `JoinLosesNothing`, `JoinLeavesNoHandler` | `JoinedMeansDone`, `JoinedMeansQuiet` |
| | `OneResumption`, `NoOrphan` | `OneHandlerResumes`, `NoOrphanOperation` |
| `CurlProofs` | `InterestAlways`, `WokenAlways`, `SendsNothingStale` | `InterestKept`, `WokenOnce`, `NothingStale` |
| | `DataStaysInOrder` | `DataInOrder`, under `RestFits` and `RestIsRead` |
| `VarintProofs` | `ValuesComeBack`, `PathsAlwaysAgree` | `RoundTrip`, `PathsAgree` |
| `UriResolveProofs` | `NeverOverwrites`, `ReadsOn` | `InPlaceSafe`, the action property `EveryIterationReads` |
| | `ResolvesAsRFC` | `ResolvedAsRFC` |
| `SqliteProofs` | `ScopesAreNested` | `ApartScopesNest`: the refinement of `NestedScopes`, with `ThrowsOnlyAborted` |
| | `ScopesFindTheirSavepoints`, `UsesAreApart` | `ThrowsOnlyAborted` by itself, `UsesApart` |
| | `ReadAsTheyWereSet` | `ReadsAsSet` |

Every proof of a safety property has the same shape: an inductive invariant that
implies it, a lemma that the initial states satisfy the invariant, one lemma per
action that the step keeps it, and the temporal step at the end. Each inductive
invariant was checked by TLC on small instances before it was proved.

What the code does in loops over data is modelled with recursive functions, about
which the provers know nothing but their defining equation, and not even that there
is a function that satisfies it. `NaturalRecursion` derives both from the least
element of a set of numbers: `Induction` and `CompleteInduction` are about sets, not
predicates, so that they can be used with a set named for the purpose, and
`Recursion` says that a step function determines a sequence of values. `Pow2Def` and
`ReadUpToDef` unfold the models' functions with it.

### Why the invariants are what they are

* *Pool.* `SafeInv == TypeInv /\ LinkInv /\ PoolInv`. `TypeOK` is not inductive
  alone: `MutexInv` adds that the awaiter under construction owns the mutex and was
  let in while an id was left, and that only a coroutine which was given an id
  arms a timer. A wait can be ended by a recycling coroutine, a timer handler or a
  stop callback, which know it only by its id. `WaiterAccounting` alone is not
  inductive either: nothing in it stops a late timer from holding the id of
  another coroutine's wait. `IdInv` adds that an id belongs to one coroutine for
  good, `WaitInv` that a waiting coroutine is in the set or in the hands of exactly
  one recycling coroutine. `OwnInv` and `StoreInv` add who owns what, and that a
  slot in the deque implies a resource in use, which the destructor's assertion
  needs: null slots are popped only by `recycle()`. `SingleInv` says that on one
  thread whoever is in `await_suspend()` still waits, or has been handed a resource
  and not been resumed yet, and that no callback runs meanwhile.
* *Refinement of the allocator.* Under `SafeInv`, what a coroutine owns and the
  queue of waiters are functions of the pool's state (`OwnsByState`,
  `WaitsById`). `await_suspend()` and `try_acquire()` that find a resource are
  `Grant`, queueing is `Enqueue`, a timer or stop that removes the wait is
  `GiveUp`, `recycle()` without a live slot is `Free`, `recycle()` that takes an
  awaiter out is `HandOver`, `reserve()` is `SetLimit`. `complete()`, the
  resumption and everything about the mutex are stutters.
* *Stop token.* `StopInv` says what each thread that is inside a constructor, a
  destructor or `request_stop()` may rely on (`OpInv`, `RsInv`), what state each
  callback is in (`CbInv`), who has the lock (`LockInv`), and `CountInv`: `tok` is
  the number of live tokens and of callbacks that have a reference (`Counted`: one
  under construction has it before `__state_` is stored, unless it is the moved
  token's). From `CountInv` and the assumption on `SourceInc` follows
  (`LastReference`) that the comparisons with the old word find exactly the last
  reference. The delicate case is a callback that was popped: it may be in the
  hands of `request_stop()` and of its destructor at once.
* *Awaiter.* `AwaitInv` is stated per coroutine, and while nothing was lost and no
  handler of an `Unflagged` coroutine is stale: the coroutine's pending handlers
  belong to its latest wait or to one whose flag is set (`FlagInv`), a flag that is
  not set belongs to the suspended coroutine (`UnsetInv`), one without expiry and
  stop is resumed by its operation only (`PlainInv`).
* *while_next.* `OweInv` says who owes the resumption of the awaiting coroutine:
  `while_next` until its final look at the map, then the tasks in the map, then
  the one task that found it empty.
* *sync_await.* `ChainInv` says that up to the task that runs each awaits the next
  one, `MutexInv` where the mutex is held and the flag set, `NotificationDue` that
  a thread that sleeps although the flag is set is about to be notified.
* *io contexts.* A source keeps its guard until its turn in `join()`, and with it
  only a signal stops it (`GuardInv`); threads leave only a stopped context
  (`ThreadsInv`); a context that stopped by itself has handled what it owed
  (`OwedInv`, with `BusyInv`, that a running handler occupies a thread).
* *Integers.* `CodecInv` says where each value that was written lies on the wire
  (`Laid`), that what was read is a prefix of what was written and the reader stands
  behind it (`GotIsPrefix`), and that a failed read is one whose buffer ended inside
  a value (`FailedInside`). The rest is arithmetic over `Pow2`: the groups of a value
  make it up again, its last group is not zero, so that no shorter encoding exists,
  and the last byte of the longest one is within `max_varint_last_byte` exactly if
  the value fits. Then the tests of `FastPath` and `SlowPath` come down to the same
  condition on the bytes.
* *Resolution.* Every branch writes at most as many characters as it reads, and
  the output starts one character behind the input (`IInv`), which is all that the
  in-place copy needs. That the result is right (`ResolveInv`) needs the relation
  to the reference between two iterations: the input begins with a slash and is the
  rest of the path, and what is written is `Settle` of what the reference has made
  of the part before that slash (`RestInv`). "/." and "/.." at the end are rewritten
  to "/" in the buffer, so that the input is no rest of the path any more
  (`RewrittenInv`). The branch for a segment is correct because a slash that is
  followed by characters other than slashes makes these the last segment
  (`BehindSlash`), and the one for ".." because the last slash is unique
  (`LastSlashUnique`). For a relative path neither holds, and the result is wrong
  (`uri_relative`).
* *SQLite.* While a transaction is active, the savepoint that each scope made is on
  the stack, in the scopes' order; one of its name above it is that of a scope inside,
  or the scope is `hidden` (`StackInv`). Marks on the stack only grow (`MarksUp`), so
  that what SQLite takes instead of a scope's own savepoint never undoes more.
  Without a transaction there is no stack and every mark is 0 (`ScopesInv`). Then
  `Insert` is `Write`, `OpenScope` `Open`, `ReleaseScope` `Keep`, `CloseScope` `Drop`
  or `ClosesHidden`, `CommitTransaction` `Commit`, `EndTransaction` and
  `StatementAborts` `Abandon`. That some savepoint of its name is always there is
  what `ThrowsOnlyAborted` rests on.
  A statement outside a use is reset; within one it is bound to the arguments
  given, and has stepped as often as rows were seen (`ResetInv`, `GoingInv`).
  For the settings, `ConnInv` says by what a promise is kept (`Kept`): the connection,
  the file it is read from when it is opened again, or, for the locking mode, what
  databases attached later are given. Values that SQLite caps stay below the cap, a
  page size is one of the two SQLite takes, in force or delayed, and a file knows no
  journal but a deleted one and WAL (`Legal`). In a file that may only be read,
  auto_vacuum and WAL are in force exactly if the file has them (`Stored`), since
  SQLite refuses to change them there; and what is opened so is not without its
  first page (`AttachedInv`).
* *Curl client.* `InterestInv` counts, for every direction of every socket,
  outstanding waits, due handlers and the one wait that `event_cb()` holds on its
  stack. `WokenInv` ties the state of the request to what is posted and to what
  libcurl holds, unless a start has failed (`crashed`; see section 5).
  `OptionsInv`: between two resets a request holds what its user and the defaults
  asked for, and libcurl's pointer is the current list if the user has called
  `reset_fields()` and 0 if not, which is why the lines of the others are not sent. `DataInv` ties the bytes
  read to what libcurl offers next: of the current chunk they are the first
  `_writeCbDataUsed`, of an earlier one all or, if it was not asked for, none; and
  if any are used, the request is paused on a chunk of that kind which has more.

### What is only model-checked, and why

* Liveness (`WaiterServed`, `Signalled`, `DestroyReturns`, `SuspendedGoesOn`,
  `Completes`, `SyncReturns`): the prover does not reason about fairness and
  ENABLED. The loop of the removal of dot segments does end for every path: each
  iteration reads on (`ReadsOn`).
* `ReadGivesWritten`: `PbMessage` needs RECURSIVE operators, as the parts of a field
  are fields again; the prover has no backend for modules that have them.
* `ReadsBack`, `SearchFinds`, `MediaTypeRead`: readers and writers of text and searches
  of trees. They hold for inputs of a form that the code demands nowhere in one place
  (no delimiter in a token, no escaped quote, a document of the parser's), so that a
  theorem would have to begin with a grammar for them; their recursion is over two
  structures at once, the text and what is read from it. TLC checks them for every
  input of the sets in `MCData` and `MCDocs`.
* Which mutants break a property, and that the properties that are refuted are
  violated: these are runs.

## 5. What the models show about the code

### Refuted by a run

* A relative path is not always cleaned (`uri/resolve.hpp:114`, run
  `uri_relative`). When dot segments remove its first segment, the next segment is
  moved without its leading slash, but `copy()` gets the length that includes it,
  and takes the slash behind the segment along. What follows is then read without
  its slash: "a/../b/../c" becomes "b/c" instead of "c", and "x/../x/." becomes
  empty instead of "x/". Paths that begin with "/" are cleaned as RFC 3986 says.
* A userinfo_at component "a@" is encoded without its "@"
  (`uri/url_codec.hpp:320`, run `uri_userinfo`): with the host "b" it is written
  as "//ab".
* A read that takes some bytes repeats data (`client.hpp:417`, run
  `client_data`): after a second pause on one chunk only the bytes copied last are
  remembered as used.
* A trailer meets the pause of the body (`client.hpp:287`, run `client_trailer`):
  with `read_hd_wd` and a bounded body buffer the assertion on `_pauseType` fails.
* A request is sent without its header lines (`client.hpp:305`, run
  `client_fields`): `reset_all()` resets the fields before the options, so that the
  handle forgets the list. A request whose user does not call `reset_fields()` sends
  none of its lines, neither those of `field()` and `field_line()` nor the "Expect:"
  that the comment at line 881 says is done already. Nothing of an earlier user is
  sent either, which is proved (`NothingStale`).
* Scopes with one name do not nest (`sqlite3/conn.hpp:1087`, run `scope_names`).
  Names of savepoints "do not have to be unique" (line 1043), and every scope is
  called "sp" unless it is given a name. The inner scope's destructor leaves its
  savepoint on SQLite's stack, and the outer's rolls back to that one: what the outer
  scope wrote before the inner one began stays, and is committed. That nothing else
  goes wrong with names is proved (`ApartScopesNest`).
* A selector that ends with a bare attribute is read past its end (`html.hpp:189`,
  run `html_search`). Two more searches are not what the comments say, and TLC finds
  them with the run's other questions left out: a selector's value begins with its
  "=" (with only the first of the selectors added in `MCAnyForm`; lines 97 and 189), and
  `hs_until_found_first` finds one in each branch (with `Asked <- MCAsked`; lines 338
  and 481), as its return leaves only the innermost loop.

### Seen while modelling, without a run of their own

Awaiters and tasks:

* With several threads, `res_pool`'s `await_suspend()` can go on with a
  destroyed awaiter (a waiter may be handed a resource and resumed between the
  unlock and `_timer.async_wait()`), and so can `ec_awaiter`'s and `while_next`.
  With all handlers on one thread none of this happens, which is proved for all
  three (an `ec_awaiter` with a stop token and no expiry excepted).
* That one has no flag: a stop that meets a completion already queued resumes the
  coroutine twice, on one thread too. An operation without expiry that somebody
  else cancels never resumes its coroutine.
* `ec_awaiter.hpp:34` says that members defined before the stop callback are
  alive inside it until it returns. That holds when the awaiter is destroyed on
  another thread; the callback itself resumes the coroutine (line 147), which
  destroys it. The code touches nothing after `resume()`.
* `request_stop()` must not be the last user of its state if a callback drops
  the last source and other callbacks are registered.
* `reserve()` to a larger capacity wakes no waiter.
* `sync_await` notifies after unlocking: the waiting thread may have seen the flag
  and destroyed the condition variable (`task.hpp:357`).
* A handler that posts to another source which was joined already is promised
  nothing. `mtd_ioc_src::start()` makes no work guard, so that its `join()` does
  nothing; the pending wait of the default signal set keeps `join()` waiting;
  `signal_set_request_stop_guard` (`ioc.hpp:280`): a queued signal handler survives
  `cancel()` and uses the task that is gone, and an inner guard ends the outer's
  wait.

Curl client:

* A read that passes over the rest of a chunk keeps what was used of it
  (`client.hpp:489`): `read_hd_until_wd` and `read_wd_until_hd` do not clear the
  pause, so that the next read of that kind, even of another transfer, leaves out
  as many bytes. TLC finds it in `client_data` with a body of two bytes and a
  second shape, `Shape("hd_until_wd", 1, Big, FALSE, 0, FALSE)`; `RestIsRead` is
  the condition that leaves it out.
* A start that fails both posts a resumption and lets the coroutine go on
  (`client.hpp:582`), and its assignment of the error overwrites one that a
  callback inside the call has set (571). Waits on one direction can be doubled
  when libcurl asks for IN, OUT and IN again. `exam_stop` tests the opposite of
  what its name says (365). `parse_header_trailer` refuses texts under 16 bytes.
* Defaults are applied when a request is made or given back, not when it
  is acquired, and read without the mutex that their setters take;
  `default_proxy()` and `no_proxy_list()` return references after unlocking.
  `curl_easy_reset` keeps cookies.

Protobuf: `wire_size()` of an empty packed repeated field asserts that the length
is positive (`pb/dsl.hpp:1169`). Elements of a repeated field that come with other
fields in between replace the earlier ones; the library's own writer never does
that. `starts_with_varint_bytes` uses `<` where a varint that ends the buffer needs
`<=` (`pb/varint.hpp:221`).

URIs:

* `uri_authority_tag` is never filled by the reader; the writer writes "//"
  without any authority and "." before an empty extension, drops a password
  without user, and splits a scheme_authority without scheme at the colon of its
  port. A dir_path without its last "/" is written one character longer than
  `max_write_size()` counts (`FitsReserved` leaves it out).
* Query pairs: "&" and "=" in keys and values are not escaped; reading a list of
  pairs has the arguments of find and remove_prefix wrong and does not end;
  `foreach_pair` has no base case. `uri_ipaddr_comp` reads an IPv6 address with
  `make_address_v4`. `append_to(buffer)` does not compile when it is used.
* Normalisation drops "//" and asserts a "/" that a scheme_authority need not have,
  skips a leading "%", and takes "%2F" for "/"; `url_decode_ret` ignores errors;
  the reader's `clear()` is disabled under clang.
* `parse_data_url` takes the first ";charset=" even if it is empty and splits at the
  first comma; the content-type reader ends a quoted value at an escaped quote.

SQLite:

* When SQLite has abandoned the transaction by itself, the destructors of scopes and
  transaction throw, and the program is terminated.
* A failed `clear()` leaves RESET_DATABASE on, so that the next statement that
  writes the schema of a database, or `VACUUM`, empties it, be it main or an
  attached one. Setters throw although the value has been set: `set_limit()` unless
  the previous limit was the same, `set_encoding("UTF-16")`, which reads back as
  "UTF-16le", `enable_case_sensitive_like()`, a clamped value, and
  `set_auto_vacuum()` on a database with content, which takes effect at the next
  VACUUM. `set_all_journal_mode()` looks at main only, `set_all_locking_mode()` at
  no database, and the cache in bytes is counted in main's pages for every schema
  and overflows an int from 2 GiB on.
* `sqlite3_db_backup::step()` throws on SQLITE_OK and SQLITE_DONE and is false only
  when the database is busy. `to_uri_query()` with nothing but nomutex flags pops
  from an empty string, and `mem()` yields mode=rwc.

HTML: every document is taken to be UTF-8, against the comment at `html.hpp:784`: the
literals of the byte order marks in `charset/bom.hpp:22` begin with a NUL and are empty
C strings, the first of which is always found (`DetectBom`). Only the first `<meta>` is
looked at; chained searches for all yield duplicates.

## 6. Not modelled, and why

* Does not compile at this commit, or uses names that do not exist, so that there
  is no behaviour to translate: `timed_awaiter.hpp`, `until_one.hpp`,
  `until_all.hpp`, `stop.hpp`, `ares.hpp`, `json/write.hpp`, `lmdb.hpp`, `http.hpp`,
  `conn.hpp`, `res_pool_map` and `res_pool<void>` with a creator.
* Wrappers of libraries without control of their own: `json/read.hpp` (simdjson),
  MySQL, ICU, base64, the curl option tables; tables of MIME types and characters;
  `doc.hpp`, which holds notes.
* `stream.hpp` and its relatives wrap asio and beast operations in
  `make_ec_awaiter`, the class `EcAwaiter` models.
* Parts of components: several requests of the curl client at once and a stop
  request; sets, fixed-size arrays and malformed input in the protobuf DSL; URI
  normalisation and typed IP addresses; blobs, backup and statistics of SQLite, its
  settings for encoding, page count and deferred foreign keys, several settings in
  one behaviour, and `clear()` in a database in WAL mode; the stop source handed
  down a chain of tasks and `start_join`; `mtd_ioc_src`.
* Memory exhaustion, and exceptions out of containers.
* Weak memory: steps are sequentially consistent. The stop state
  publishes with acquire and release on one word, and the other components use
  a mutex or a single thread.
* Generated code, vendored code, the test suite, and `res_pool prev.hpp`, which
  nothing includes.

## 7. Plan

1. Several requests at once in `CurlClient`: the multi handle's list of messages,
   `finish()` of one request inside the callback of another, and the pool of
   requests as `ResPool` promises it.
2. Proofs: `MediaTypeRead` for data URLs, which need no recursion; that `ForeachIf` visits
   each node of a tree at most once, by induction over the depth.
3. The stop source down a chain of tasks over `StopState`'s promises, as an
   abstract specification of `StopState` that `ResPool` and `EcAwaiter` use.
4. Normalisation of URIs over `UriText`; sets and fixed-size arrays in `PbMessage`.

Runs stay few: components that work on their own share one, and safety and
liveness share a run where its size permits.
