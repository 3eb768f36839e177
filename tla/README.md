# A TLA+ verification of http2d

http2d (`src/src/`) is an experimental SPDY/HTTP server in C: one acceptor
thread, a pool of worker threads with a libev loop each, connections that are
state machines stepped by their worker, and a library of containers, caches and
configuration code around them. This project models the parts that carry the
server's own logic, model-checks them with TLC on small instances, and proves
the most important results with TLAPS for every instance.

`PROJECT.json` lists, machine-readably, the components, the runs, the source
lines that every definition translates, a mutant for every checked property,
the hazards and the theorems.

## 1. Inventory

| Component | State | Operations | Hard behaviour | What makes it correct |
|---|---|---|---|---|
| acceptor (`bind.c` io_cb) | static `prev_thd`, the new descriptor and connection | accept, create, assign, error path | runs concurrently with all workers | round robin over all workers, no descriptor leaked or closed twice |
| worker (`thread.c`) | `conns.active`, `conns.polling`, `new_conns` with mutex and async signal | thread_main, add_conn, new_conn_cb, recycle_conn | hand-off between threads, merged signals, lists changed while being walked | a connection is in one list of one worker, no wake-up lost, nothing stale is stepped, everything active is stepped |
| connection (`connection.c`) | list node, I/O watcher, socket, three buffers, requests | move_to_polling/active, do_read, do_write, do_shutdown, do_linger_read, mrproper | watcher and list change separately; partial writes; TLS write retries | watcher started iff polled; output is a FIFO |
| SPDY connection (`connection-spdy.c`) | phase, `ID`, `going_away`, zlib streams | conn_spdy_step, do_io, frame handlers | peer and kernel change between any two system calls | every stream answered once, under its id; a dead peer's connection does not stay |
| SPDY request (`request-spdy.c`) | phase, rendered header | req_spdy_step | stepped by every do_io until it ends | renders once |
| framing (`connection-spdy.c`, `spdy.c`, `spdy-zlib.c`, `buffer.c`) | read buffer, its memory behind `len`, local `pos`, inflate state | spdy_process_buffer, spdy_process_frame, move_to_begin | segmentation of TCP; unsigned arithmetic; stale memory | frames handled in order, once, only when complete; the loop ends |
| socket, TLS socket (`socket.c`, `socket-ssl.c`) | descriptor, `closed`, `is_tls`, SSL session | accept, read, write, shutdown, close, handshake | error codes that mean retry, end or failure | each code reaches the right branch above |
| ARC cache (`cache.c`) | AVL, lists T1 T2 B1 B2, counters, target, reference counts | get, entry_unref | entries evicted while in use; failing fetches | lists, counters, references and AVL agree; size bounds |
| I/O cache (`iocache.c`) | entries of the ARC cache with a stat, a mapping and their expiry | autoget, update, clean_info, unref | got under the cache's mutex, updated under the entry's; open, stat and mmap fail half-way | a mapping is unmapped once, known while it exists, and not replaced in use |
| HTTP connection (`connection-http.c`) | phase, request | step | its request pointer is never set | not modelled |
| resolver cache (`resolv_cache.c`) | default resolver, table of entries, reader/writer lock | get_default, get_ipstr, get_host, get_addrinfo | lazy global without a lock; check and insert under separate locks | answers stay valid, losses are bounded |
| AVL tree (`avl.c`, `avl_generic.c`) | threaded nodes with balances and child flags | add, get, del, walk, mrproper | rebalancing with threads after a deletion | a search tree, balanced, threads in order; a dictionary to its users |
| lists (`list.c`, `list.h`) | ring of pointers | add, del, reparent, invert, sort | merge sort in place | both directions agree; the sort is stable |
| buffer (`buffer.c`) | memory, length, size | editing, growth, conversions | terminator, ends of memory, lengths computed ahead | holds the text meant; conversions come back |
| access lists (`access.c`) | addresses, subnets | add, ip_match | masks at byte boundaries, IPv4 mapped into IPv6, entries that fail half-way | a peer matches iff an entry covers it |
| plug-ins (`plugin_loader.c`) | table of modules, open handles | load, load_no_global, unload, mrproper | dependencies, failures at each stage | initialised once and behind what it depends on |
| utilities (`util.c`) | - | iovec helpers, header end, query string, host, path info | partial writes; a header in several reads; a string changed while it is cut | bytes once and in order; the answer does not depend on the portions |
| configuration (`config_node.c`, `config_reader.c`, `server-cfg.c`, `virtual_server-cfg.c`) | tree of nodes | add, read, include, sort, configure | includes of files and directories, overridden values | what is read is what the files say |
| server, binds, virtual servers (`main.c`, `server.c`, `bind.c`, `virtual_server.c`) | threads, binds, virtual servers, listening sockets | start-up, TLS contexts, SNI | fallbacks and failures of each step | a server that runs has all it was asked for |
| tables, headers, logging, checksums | - | formatting, lookup | - | not modelled |

Interaction: the acceptor calls `http2d_thread_add_conn`, which shares
`new_conns` and its mutex with the worker and wakes it by `ev_async_send`.
libev calls back `new_conn_cb` and `io_cb`, which move connections between
lists. `thread_main` calls `http2d_connection_step`, virtual to the SPDY or
HTTP step, which calls the socket layer and the requests; a step ends by leaving
the connection active, by moving it to polling, or by `ret_eof` and recycling.
The caches, the resolver, the access lists, the plug-in loader and the vector and
request helpers are library code that the server does not call yet.

The hazards that follow from this are listed, line by line, in `PROJECT.json`.

## 2. Modules

| Module | Models |
|---|---|
| `ConnLifecycle` | abstract: the life of a connection (unborn, accepted, queued, polled, served, closed) and its owner |
| `Worker` | acceptor and workers in detail; a connection step is reduced to its three outcomes |
| `WorkerProofs` | proofs about `Worker` and its refinement of `ConnLifecycle` |
| `SpdyConnection` | one connection: its step, system call by system call, against a peer and the kernel |
| `SpdyConnectionProofs` | proofs about `SpdyConnection` |
| `SpdyFraming` | the parsing loop over one read buffer, word by word |
| `SpdyFramingProofs` | proofs about `SpdyFraming` |
| `Cache` | the ARC cache and its clients |
| `CacheProofs` | proofs about `Cache` |
| `IOCache` | extends `Cache`: the cached information of files, shared by clients |
| `IOCacheProofs` | extends `CacheProofs`: proofs about `IOCache` |
| `Dictionary` | abstract: a map with add, get, delete and release |
| `Avl` | the tree, pointer by pointer; implements `Dictionary` |
| `Lists` | the ring of list nodes, pointer by pointer, with its sort |
| `Buffer` | the string buffer, byte by byte |
| `BufferProofs` | proofs about `Buffer` |
| `Codecs` | the conversions of `buffer.c`, as functions |
| `Access` | access lists |
| `Resolver` | the resolver cache and its threads |
| `PluginLoader` | the plug-in loader |
| `Iovec` | writev and the helpers that continue it |
| `HttpText` | the scanners of `util.c` |
| `ConfigTree` | the configuration tree and the reader, as operators |
| `Startup` | extends `ConfigTree`: `main` up to the running server |
| `LibraryProofs` | proofs about `Access`, `Resolver`, `PluginLoader`, `Iovec` and `HttpText` |
| `SequenceFacts` | lemmas on sequences, induction and recursive functions that the proofs share |
| `MCWorker`, `MCSpdyConnection`, `MCSpdyFraming`, `MCCache`, `MCIOCache`, `MCLibrary` | constants, symmetry and view for TLC |

### Worker

Variables carry the names of the C fields. `pc[t]` is the place of thread `t` in
`thread_main` (pass over the active list, `ev_run`, callbacks, inside
`new_conn_cb`), `todo[t]` the rest of the pass, `pendIO[t]` and `pendAsync[t]`
the watchers that `ev_run` has collected and not yet called, `bindpc` the place
of the acceptor in `io_cb` and `add_conn`. Lock, list insertion, unlock and
signal of `add_conn` are separate steps, as are the locking and the body of
`new_conn_cb`, so that all interleavings that the code allows are there; the
body under the mutex is one step, since nothing else touches the list then.
`StepStays`, `StepPolls` and `StepRecycles` are the outcomes of
`http2d_connection_step`; `EventArrives` is the kernel. A connection object is
allocated once, so that use after free is visible; descriptors are reused.
An allocation failure in `io_cb` is left out: it computes the connection pointer
from an uninitialised local and is undefined at once.

### SpdyConnection

`place` and `IO` are the worker's view (proved consistent in `Worker`);
`conn_pc` is the next system call of the running step. A frame is a type and a
stream id, a reply two units (SYN_REPLY and DATA). The loop of `do_io` over
`conn->requests` takes one step per request: `cur` is the request it has come to,
`RequestReplies` and `RequestEnds` are the two phases of `req_spdy_step`, and
`RequestsDone` leaves the loop. Return codes that come from
`errno` or `SSL_get_error` are chosen by what the peer has done: a connection ends
by a FIN (`closed`), a RST (`reset`), output that is never acknowledged (`lost`:
ETIMEDOUT, EHOSTUNREACH, which do not close the socket), or a TLS record that does
not decrypt (`garbled`); `dead` is a connection whose error a call has been given.
`send` is called without MSG_NOSIGNAL and nothing in the program handles or ignores
SIGPIPE, so a write on a connection that is gone ends the process
(`WriteKilled`, `HandshakeKilled`, `conn_pc = "killed"`); the branch for EPIPE in
`http2d_socket_write` is not reached. SSL_read and SSL_write may want either event
or none. The lingering close reads once more when the first read fills its buffer
(`LingerMore`). `queued` and
`sent` are histories for the properties. After a malformed frame `do_io`
continues on a freed connection; the model ends there (`freed_in_use`).
A read delivers one whole frame; anything else is the subject of `SpdyFraming`.

### SpdyFraming

The unit is a 4-byte word. Cells of the buffer's memory hold the index of the
stream word last copied there, so that what lies behind `len` is known and can
be misread as a frame, as in the code. A script is the peer's frames, each with
the word at which it starts. `segments` says how a peer's bytes are
cut into reads: frame by frame, frames split anywhere, several frames in one
read, or any of these. The inflater is modelled by what it consumes: everything
up to the end of the buffer, one stream for the life of the connection. What
`NotAHeader` reads from the middle of a frame is taken to be no header of a known
type; a body that contains such words is outside the model.

### Cache

`http2d_cache_get` and `http2d_cache_entry_unref` hold the cache's mutex from
their first to their last access and are one action each, composed of operators
named after the functions and macros. `cache.segv` is set when the code would
follow a NULL entry. `relisted` remembers that an entry evicted while in use has
come back, the case in which the size bounds are not kept.

### IOCache

Clients get an entry under the mutex of the cache and update it under that of
the entry: two steps (`AutogetNew`, `AutogetGhost` or a hit, then `Update`), with
other clients in between. One entry, `File`, has its information followed; the
other keys push it through the lists. Expiry is a flag that `Expire` sets; stat,
open and mmap answer anything. `using` says what each client thinks it has mapped.
`clean_info` takes effect only when an entry is freed: `replace` calls
`entry_parent_info_clean` for the entry that becomes a ghost, which returns at
once while `ref_count > 0`, and an entry in a list always has the cache's
reference (`RefsExact`). A ghost keeps its mapping.

### Avl and Dictionary

Nodes are named by their keys, numbers in place of texts, in the order in which
`http2d_buffer_cmp_buf` puts them: by length, then by text. `KeyLen` gives the
lengths. The difference that it returns is an int, which insertion, deletion and
lookup keep in a `short`; `Cmp` does the same. The tree therefore relies on what
nothing in the code ensures, that no two lengths differ by 2^15 or more
(`LengthsFit`, an assumption of the run): keys whose lengths differ by more change
their order, by 2^16 they are one key, and neither property holds. An empty key
is refused; the node that `http2d_avl_add` made for it is leaked. Rotation, insertion and
deletion are the pointer assignments of the source in its order. `WellFormed`
is what `node_check` tests and more: the search order, the balances, the flags
and the threads, and that a walk over the threads visits all keys in order.
`ImplementsDictionary` maps the tree to the function it stands for.

### Lists, Buffer, Codecs

Pointers and memory are explicit: an item's two pointers, each byte of a buffer
with the ones nobody wrote yet. Next to them runs the value that is meant (`ref`,
`text`), by plain definitions on sequences. The loops of `buffer.c` are recursive
functions on the number of turns, of which there are no more than characters
(`DupTurn`, `RemoveOne`, `ReplaceOne` and `CommaAt` are a turn each). `Codecs` has no state of its own but the
enumeration of inputs; a conversion returns what it writes and the length it
claims, which the code computes separately. They meet for every source but one
without text: there `escape_with_table`, whose loop tests at its end, escapes the
terminator, writes `%00` and claims two characters; `ComesBack` says so
(`EmptyEscaped`). A file size is shown to half a unit of its last digit. In
`DecodeBase64` bytes from 128 on are skipped; the code indexes its table with a
signed char there, which reads in front of it. Allocations succeed.

### Access, Resolver, PluginLoader

Addresses are sets of bits, of two and of six bits in the instance, with bytes of
two bits so that every relation of a mask to the byte boundaries occurs. A text
carries what the code looks at: what `inet_pton` says, which of `:` and `.` are
in it, the number that `strtol` reads behind the slash, and whether it has more than the
three characters that `parse_netmask` allows. With a `.` anywhere in
the text and 32 behind the slash, or `:` and 128, `http2d_access_add` adds a single
address, in `::1.2.3.4/32`, `1.2.3.4/32.0.0.0` and `1.2.3.4/0032` too (`MaskDropped`); `Covers` says
of these entries what the code does, and of all others what they mean. In
`Resolver` the test of the global, its creation and each lock section are
separate steps; `RacesHarmless` says that every answer stays usable and how much
the races can leak. In `PluginLoader` `frames` is the stack of the calls of `load_common`
that have not returned, each with the dependency it comes to next: `CheckDeps` makes a
call or passes over what is in the table, `LoadDone` opens the file, links the module,
initialises it and returns. The files are arbitrary. With a cycle of dependencies
the loader calls itself until its stack is full; the instance stops at `MaxDepth`
frames, and a model without a bound goes on for ever, as the code would.

### Iovec, HttpText

The server sends no vectors yet; the caller in `Iovec` is the one that the helpers
are written for: skip what was sent, write, add up what was written. The loop of
`http2d_iovec_skip_sent` is a recursive function, `SkipSent`, with one round in
`SkipStep`. `HttpText` lets
a text arrive character by character and asks each scanner about every
prefix; the query scanner works on the memory of the string, NULs included.
The comment in `http2d_find_header_end_cstr` (util.c:2191) forbids one CR with two
LFs; the code returns `ret_ok` at the second LF before it gets to that test, and so
does `HeaderStep`. `TextScanned` states what the code does: CR LF LF ends a header,
and of the situations that the comment forbids only two CRs are an error. It is
no evidence for the comment. The loops over a header and over a query string are recursive functions
on the number of characters and of arguments passed.

### ConfigTree and Startup

A line is given as scanned: an assignment, an include, a comment, or one that
cannot be read. `Include` and `ParseString` call each other as in the source.
`Startup` follows `main`; each step of it may fail, and then the process exits.
`Script` says what the files say without building a tree. A number that `strtol`
refuses (`Fits`) is not read and leaves the default, or ends the start where it is
the key of a virtual server. The kernel of
`Startup` knows only which port each socket has.

## 3. Runs

| Run | Checks | Instance |
|---|---|---|
| `worker` | `OneHome`, `WatchedIffPolling`, `NoLostWakeup`, `DescriptorsOwned`, `NoStaleWork`, `Balanced`, `LifecycleKept`, `HandoffCompletes`, `EventServed`, `ActiveStepped` | 3 connections, 2 descriptors, 2 workers, fair threads |
| `spdy` | `WireFifo`, `SendsSomething`, `ReplyNamesItsStream`, `AnsweredOnce`, `SslRetryStable`, `PeerGoneFreed`, `SynAnswered` | plain and TLS, 3 frames of any type, room for 3 units, a client that reads |
| `framing` | `HandledInOrder`, `NoStreamAfterGoaway`, `CompleteFrames`, `LoopEnds`, `EveryFrameHandled` | all scripts of 1 to 3 frames of 4 types, all segmentations |
| `cache` | `ListsAgree`, `RefsExact`, `WithinMaxSize` | 9 keys, 2 clients, max_size 4 |
| `iocache` | `MapsAccounted`, `FreshInfoUsable`, `ResidentMapKept` | the file and 4 other keys, 2 clients, max_size 4, sizes that may and may not be mapped |
| `library` | `WellFormed`, `ImplementsDictionary`, `MatchIffCovered`, `HoldsText`, `ConversionsExact`, `Linked`, `RacesHarmless`, `LoadedInOrder`, `SentInOrder`, `TextScanned`, `ConfigAsSaid`, `RunsAsConfigured` | one part at a time, see below |
| `spdy_stall`, `framing_split`, `framing_skip`, `cache_full`, `iocache_in_use`, `iovec_skip` | one property each, violated | as above, or smaller |

The type invariants of `SpdyConnection`, `SpdyFraming` and `Cache` are conjuncts of
`WireFifo`, `HandledInOrder` and `ListsAgree`; that of `Worker` is proved.

What the violated ones show (the quotes are in `PROJECT.json`):

- `spdy_stall`: after a partial write the connection is polled for EV_WRITE; the
  step that follows reads first, gets EAGAIN, polls for EV_READ and returns. The
  rest of the output waits for the client to send something.
- `framing_split`: "Is the frame complete?" is answered with `ret_ok` and an
  unchanged position; the loop runs for ever on half a frame.
- `framing_skip`: `pos` is not reset after the buffer was moved; of several
  frames in one read some are never seen.
- `cache_full`: entries that were evicted in use and asked for again go back to T1
  without room being made; later an eviction finds its list empty and follows NULL.
- `iocache_in_use`: "It shouldn't update the object if somebody else is using it": a
  ghost hit is fetched before its own reference is taken, so that the count the
  test reads is too small by one, and another client's mapping is replaced.
- `iovec_skip`: of pieces of 2 and 1 bytes with one byte sent, the second is left
  out as "Already sent": the total does not count a piece that was sent in part.

Bounds. Two workers and three connections on two descriptors let one worker's
closed descriptor be accepted for another while a third connection is queued
behind a signal under way, and wrap the round robin around. Three frames
give a reply left over, one behind it, and a GOAWAY between; the send room is
both larger and smaller than a reply. Three frames in the framing run are enough
to have a stale frame behind the length of the moved buffer. The code rounds
`max_size` up to a multiple of four, so four is the smallest cache; nine keys fill
its eight places and one more, two clients hold one entry while another is
evicted. The cache run identifies states that differ only in the names of keys
and clients (`VIEW Shape`): `Shape` keeps the order of the lists, the holders and
counts at each place, and the rest of the cache. Every action treats the names
alike and none of the properties distinguishes them. Which client holds which key
matters only through the number of holders of each, since a client holds one
pointer at most.

The file of the `iocache` run needs four other keys to be pushed from T1 to the
ghosts and out while two clients share it. The parts of `library` share no state
and run one at a time (`MCLibrary`), so that their states add up: seven keys with
two values, which make all AVL shapes of up to four levels and deletions that
rotate twice, of lengths from 1 to 32768, the largest difference that a short holds; all pairs of access entries with all masks and notations; up to two buffer
calls after any text of three characters, and longer texts for the comma marks; byte strings of up to four
out of thirteen bytes, all numbers of eight bits; five list items with ties, in
which a sort has three passes and an odd rest; two threads with two calls
each in the resolver; three modules, each whole or broken at one of three stages, with
and without a cycle of dependencies, and six frames;
vectors of three pieces of up to three bytes; texts of six characters and a
header limit of five; main files of five lines.

Deadlock is not checked where the instance can end: all connections closed,
all frames sent, or the process gone.

Fairness. `Worker!Spec` assumes that each thread that can take a step eventually
does, and that a connection step returns: preemptive scheduling, and
non-blocking sockets. Nothing is assumed of clients. `Worker` describes the process
while it lives: a SIGPIPE (`SpdyConnection`) ends it with all that is pending. `SpdyConnection!Spec`
assumes the same of the worker (justified by `EventServed` and `ActiveStepped`);
`ReadingClientSpec`, the one of the run, adds a client that keeps reading what it is
sent (the safety properties of the run do not need it). `SpdyFraming!Spec` assumes that what was sent arrives.

`PeerGoneFreed` says that the connection is freed or, when there is output for the
peer that is gone, that writing it kills the server. It is limited to plain
connections: after a failed TLS
handshake or a broken TLS session, `thread_main` ignores the error and the
connection stays active. `WithinMaxSize` is limited to behaviours in which
no evicted entry came back, `SentInOrder` to vectors without a piece shorter than
one before it (`iovec_skip`), `ResidentMapKept` to entries that are no ghosts
(`iocache_in_use`); `cache_full` shows why. `LoopEnds`, `EveryFrameHandled`
and `CompleteFrames` are limited to the segmentations for which the loop works.

## 4. Proofs

A theorem holds for every value of the constants that the named assumptions
admit; TLC evaluates the assumptions on the instances of the runs. `Spec => []P`
is proved by an inductive invariant that implies `P`. TLC confirms each of
them on the instance of its component's run, except `RoundRobin`, which quantifies
over all numbers. A lemma shows what an operator or an action does
to one part of it; the theorem `Invariance` of the module combines the lemmas,
and the theorems below follow.

| Module | Theorem | States |
|---|---|---|
| `WorkerProofs` | `TypeCorrect`, `OneHomeAlways`, `WatchedIffPollingAlways`, `NoLostWakeupAlways`, `NoStaleWorkAlways`, `DescriptorsOwnedAlways`, `BalancedAlways` | the type invariant and all safety invariants of `worker` |
| | `Refinement` | `Worker` implements `ConnLifecycle` (`LifecycleKept`) |
| `SpdyConnectionProofs` | `WireIsFifo`, `WritesData`, `RepliesMatch`, `NoSecondAnswer` | the invariants of `spdy`: `WireFifo`, `SendsSomething`, `ReplyNamesItsStream`, `AnsweredOnce` |
| | `RetryUnchanged` | the action property `SslRetryStable` |
| `SpdyFramingProofs` | `NeverTwice`, `NothingAfterGoaway`, `OnlyWholeFrames` | `HandledInOrder`, `NoStreamAfterGoaway`, `CompleteFrames` |
| `CacheProofs` | `ListsAlwaysAgree`, `RefsAlwaysExact` | `ListsAgree`, `RefsExact` |
| | `PolicyKeepsBounds` | `WithinMaxSize`, if `MaxSize > 0` |
| `IOCacheProofs` | `MapsAlwaysAccounted`, `FreshAlwaysUsable` | `MapsAccounted`, `FreshInfoUsable` |
| | `ResidentsKeepMaps` | the action property `ResidentMapKept` |
| `BufferProofs` | `BufferAlwaysHolds` | `HoldsText` |
| `LibraryProofs` | `MatchesWhatIsCovered` | `MatchIffCovered` |
| | `RacesAreHarmless` | `RacesHarmless`, for finitely many threads |
| | `PluginsLoadedInOrder` | `LoadedInOrder` |
| | `VectorSentInOrder` | `SentInOrder` |
| | `TextAlwaysScanned` | `TextScanned` |

**Worker** (`IInv`; any connections and descriptors, one worker or more). None of
the invariants is inductive alone. `IInv` is their conjunction with `ControlOK`,
the discipline of mutex, program counters and pending work. They need each
other: `new_conn_cb` keeps `OneHome` only because it has the mutex, so that the
acceptor is not inside the list; a callback keeps `WatchedIffPolling` only because
what was collected is still polled (`NoStaleWork`); that holds because a connection
leaves the polling list only by its own callback, so `OneHome` again; and
`NoLostWakeup` survives a callback because it empties the whole list under the
mutex. `Balanced` counts: `RoundRobin` says that for some `m` the workers up to the
last one served have been dealt `m + 1` connections and the others `m`. The
refinement rests on `StageOf`, which says which stage the list memberships
determine under `IInv`, and `RefinementStep`, one case per action.

**SpdyConnection** (`ConnInv`; any streams, frames and send room, plain and TLS).
`ReplyNamesItsStream` is the interesting one: the code keeps the id of the *last*
SYN_STREAM in the connection and writes that id in every reply. `FreshOK` is
why it is right: at most one request has no reply, it is the head of the list,
its id is `conn->ID`, and it exists only between the frame's handler and the request
loop of the same step. `AnsweredOnce` needs `StreamsOK`, that a stream opened by the
peer is in one place: the kernel, the read buffer, a fresh request, or answered.
`WireFifo` needs only the arithmetic of partial writes (`WriteFacts`), which do_write
does on two buffers; `SslRetryStable` needs `PlainOK` and `ControlOK`, that TLS is
turned off only on the way out.

**SpdyFraming** (`FrameInv`; streams of any length, any segmentation). `pos` is not
reset when the buffer is moved to its beginning, so the loop looks for headers in
the middle of what is left, or behind it (`framing_skip`). `AtPos` says what it can
find: a word of the buffer, or, behind its end, the word right behind the last frame
handled, which the move left there. Frames can therefore be passed over but never
handled twice or out of order. `OneFrame` is why all is well while no read holds
more than one frame. That frame `j` ends before frame `k > j` starts is not assumed
of a script but follows from what is, that each frame ends where the next one
starts, by induction over the script (`ScriptFacts`).

**Cache** (`CacheInv`; any keys, finitely many clients, any `max_size`). Each macro
and function of `cache.c` has a lemma about any state in which the links, `in_list`
and the counters agree (`Linked`) and the reference counts are right for a given
number of users (`Owned`); the actions follow by composition. With the bounds
(`PolicyKeepsBounds`) the case analysis is that of the paper's policy: a miss makes
room by `evict` or `replace` exactly when T1 and B1 are full or the four lists
are. `MaxSize > 0` is needed: `http2d_cache_configure` accepts a `max_size` of 0, and
such a cache evicts from an empty T1 at its first miss.

**IOCache** (`IOInv`; any file sizes and limits). `EntryOK` is `FreshInfoUsable` with the
flags it needs: a map is announced only while there is one, and made only after a
stat. `UpdateFacts` shows that every path through the two updates keeps it,
whatever stat, open and mmap answer, and reports what it mapped and unmapped.
`MapsAccounted` then needs that an entry with a client is in the AVL, which is
`RefsExact` of the cache below; `ResidentMapKept` needs `SharedRefs`: with the list's
reference, two clients make a count of three, which the test on `ref_count` refuses.

**Resolver** (`ResInv`; finitely many threads, any names and calls). The races lose
memory, but a thread loses only what it holds: `ResolversBounded` charges each
resolver to a thread that created it, `EntriesBounded` each entry that no table
leads to to a thread about to add it, until one of them did.

**Access** (`AccessInv`; addresses, bytes and prefixes of any length, any entries).
The lists are the union of what each entry adds to empty lists, so the theorem
comes down to one entry and one address (`EntryHits`). The hard part is
`MaskFacts`: whole bytes and the shifted bits of the last one are the mask of
the length, at every byte boundary, by the arithmetic of division (`WholeBytes`).
`EntriesAssumption` types the texts; it says that `inet_pton` accepts no IPv6
address without `:` and no IPv4 one without `.`, which the proof needs: with 128 as
its length such an entry would get the mask of zeros of `parse_netmask`'s special
case. A subnet that was refused stays in the list with such a mask, and then its
whole family matches (`Refused`).

**PluginLoader** (`LoaderInv`; any modules, files and dependencies). `LoadedInOrder` says
that a module of the table was initialised once and behind what it depends on. It
holds for a module that is linked when its frame returns only because its
dependencies were seen to before, so the invariant speaks of the frames:
`FramesLinked` (a frame is not in the table yet and waits for the one above it) and
`DepsLoaded` (the dependencies it is done with are in the table, if they can be
loaded). A module may be on the stack twice, by a cycle, and would be initialised
twice if both calls came to their end. `NeverPast` is why they do not: the second
call meets the same dependencies in the table as the first, so it comes to the one
that the first waits for and calls again.

**Iovec** (`IovecInv`; vectors of any number of pieces of any length). `TotalsFacts` and
`SkipSentFacts` say what the sum over a vector and the loop of
`http2d_iovec_skip_sent` compute, by induction over the pieces: the entries that are
left are a suffix of the vector, the first of them possibly cut. `ByteAt` finds the
piece of a byte. In a growing vector the loop's wrong total (`iovec_skip`) never
passes a piece over, and then what is left is what was not sent (`LeftFacts`).

**HttpText** (`TextTypeOK`; texts of any length, any characters but NUL, any header
limit). The state is the text alone; the work is in what the loops compute.
`HeaderOK` is the invariant of the loop over a header: no blank line and no two CRs
at the beginning of a run so far, and the
counters are those of the run of CRs and LFs that the loop is in; `HeaderScanFront`
says that a text with one more character gives the same answer once there is one.
`QueryState` gives the memory and the arguments at each place where `strsep` can
go on, and a turn leads from one of them to a later one (`QueryTurnFacts`), so the
loop ends with all arguments taken, each with its first value, and one NUL to put
back. `HostFacts` and `PathinfoFacts` are about positions: a text cut at a colon or
a bracket, and the first component that is no directory.

**Buffer** (`BufInv`; texts of any length, any strings and characters but NUL, any
`REALLOC_EXTRA_SIZE`). `HoldsText` is nearly inductive: `BufInv` adds the types, that a
buffer without memory has no text, and `Marked`, that a buffer with a text was written
to, so that its terminator is there for `strstr`. Each operation has a lemma about any
buffer that holds any text (`Holds`); the work is in the loops, each of which runs
beside a definition on sequences that does not know of it. In `replace_string` what
was copied is what the definition has made of the text before `p` (`Copied`). In
`remove_string` each turn takes the first occurrence from the memory and from the
text, terminator included. In `remove_dups` the memory up to `a` is the definition's
text so far and the memory from `a + offset` is untouched; a character is read before it is
overwritten because `offset` never gets smaller. In `add_comma_marks` the buffer after
`k` marks is the marked beginning followed by the unmarked rest (`Half`), and the next
mark is four characters on because the groups counted from the right are (`GroupOfThree`).
The room is enough: `len / 3 + 2` more bytes for the marks and the terminator.
`BufferAssumption` says that callers pass no NUL inside a text.

What induction needs. The library's induction theorems take an operator as a
parameter, which the provers cannot instantiate. `InductionTo` takes a set instead
and is proved from the well-foundedness of the naturals (`LeastNat`); `Recursion`
proves from it that the function that a step defines exists, so that what a recursive
function on `0..n` computes can be proved for every `n`.

What the proofs changed in the models: `UpdateFd` of `IOCache`
and `LoadRet` of `PluginLoader` were CASE expressions with overlapping arms, of which
TLA+ does not say which is taken; they follow the order of the source now. `Access`
had left out the notations in which the test for a whole address and the test for
the family disagree, and a number that `http2d_atoi` refuses. `PluginLoader` had no
cycles of dependencies, and loaded all that a module needs in one step.

Only model-checked:

- liveness (`HandoffCompletes`, `EventServed`, `ActiveStepped`, `PeerGoneFreed`,
  `SynAnswered`, `LoopEnds`, `EveryFrameHandled`): fairness is out of the proof
  system's reach;
- the parts whose loops are written with recursive operators, which take the
  arithmetic backend away from every module that reaches them: `Lists` (`Linked`, with the
  merge sort), `ConfigTree` and `Startup` (`ConfigAsSaid`,
  `RunsAsConfigured`, which speak of what the reader made);
- `Avl` (`WellFormed`, `ImplementsDictionary`): order, balance and threads of trees of any
  size, under rotations at any depth;
- `Codecs` (`ConversionsExact`): each conversion is a loop of its own, with an
  induction of its own.

## 5. Not modelled, and what is left

- HTTP connection and request: the connection never gets a request, and its step
  dereferences the pointer; there is no defined behaviour to model.
- `http2d_thread_free` and `http2d_server_mrproper`: no running server reaches them.
- `http2d_buffer_multiply`, which appends the buffer's own memory to itself while the
  append may reallocate it, and `http2d_buffer_split_lines`: `Buffer` takes what is
  added to be separate from the buffer.
- The retry of system calls on EINTR (`http2d_fd_close`, `send`, `recv`): the program
  installs no signal handler, so no call is interrupted.
- printf-style formatting, comparisons and searches of `buffer.c`, the tables of
  `http.c`, `header.c`, `protocol.c` and `version.c`, `error_log.c`, `trace.c`: text.
- `md5.c`, `sha1.c`, `crc32.c`: published algorithms, taken over.
- The system-call wrappers of `util.c` and `socket.c` that nothing calls: connect,
  sendfile, pton and ntop, directory and user lookups.
- libev, OpenSSL, zlib and the kernel are external: they are modelled as far as
  the code uses them.
- What the code does after undefined behaviour (a step on a freed connection, a
  connection pointer from an uninitialised local): the models stop there.

What is left to prove is data of any size in the parts named in section 4: that a
rotation keeps the order and the threads of `Avl`, that the merge of `Lists` keeps the
ring, that a conversion of `Codecs` and its inverse meet.
