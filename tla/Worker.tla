------------------------------- MODULE Worker -------------------------------
(***************************************************************************)
(* The worker threads of http2d and the hand-off of accepted connections   *)
(* to them: thread.c (thread_main, add_conn, new_conn_cb, recycle_conn),   *)
(* the list and watcher moves of connection.c, and the accept callback of  *)
(* bind.c.                                                                 *)
(*                                                                         *)
(* The main thread accepts a descriptor, allocates a connection, picks the *)
(* next worker of the circular list, puts the connection into that         *)
(* worker's new_conns list under its mutex, and wakes the worker's event   *)
(* loop with an async signal.  A worker alternates between one pass over   *)
(* its active connections and one run of its event loop, whose callbacks   *)
(* move new connections to polling and polled connections to active.       *)
(*                                                                         *)
(* What a connection step does inside is abstracted to its effect on the   *)
(* worker: the connection stays active, asks for polling, or is recycled   *)
(* (SpdyConnection has the step itself).  The intrusive lists are          *)
(* sets: their order decides nothing here, and http2d_list_del takes an    *)
(* entry out of whichever list it is in.                                   *)
(***************************************************************************)
EXTENDS Integers, FiniteSets

CONSTANTS
  Conns,      \* connection objects, each allocated at most once
  NoConn,     \* a NULL http2d_connection_t pointer
  Fds,        \* descriptors the process may have open for connections
  NThreads    \* length of srv->threads (server.c launches ncpus * 2)

ASSUME ConnsAssumption    == NoConn \notin Conns
ASSUME FdsAssumption      == Fds \subseteq Nat
ASSUME NThreadsAssumption == NThreads \in Nat \ {0}

VARIABLES
  life,       \* is the connection object not yet allocated, live, or freed
  fd,         \* conn->socket.socket
  thread,     \* conn->thread, 0 for NULL
  IO,         \* conn->IO: never initialised, stopped, or started for an event
  openFds,    \* descriptors open in the process
  ready,      \* connections whose socket has the event they would wait for
  newConns,   \* thd->new_conns.list
  mutex,      \* thd->new_conns.mutex: who holds it
  signal,     \* thd->new_conns.signal was sent and not yet collected
  active,     \* thd->conns.active
  polling,    \* thd->conns.polling
  pc,         \* where thread_main is
  todo,       \* active connections this pass has still to step
  pendIO,     \* I/O watchers ev_run collected and has still to call back
  pendAsync,  \* the async watcher was collected and has still to be called
  bindpc,     \* where the accept callback of the main thread is
  bindConn,   \* its local conn
  prev_thd    \* its static prev_thd, 0 for NULL

connVars   == <<life, fd, thread, IO, openFds>>
listVars   == <<newConns, active, polling>>
workerVars == <<pc, todo, pendIO, pendAsync>>
bindVars   == <<bindpc, bindConn, prev_thd>>
vars == <<connVars, ready, listVars, mutex, signal, workerVars, bindVars>>

Threads  == 1..NThreads
EvModes  == {"EV_READ", "EV_WRITE"}
NoFd     == -1

-----------------------------------------------------------------------------
(* Lists and watchers. *)

\* http2d_list_del: the entry leaves whichever list it is linked in.
Del(list, c) == [t \in Threads |-> list[t] \ {c}]

\* http2d_list_del followed by http2d_list_add to one list of thread t.
DelAdd(list, c, t) == [Del(list, c) EXCEPT ![t] = @ \cup {c}]

\* Mutant: move_to_polling without ev_io_start.
MoveToPollingNotStarted(c, mode) ==
  /\ newConns' = Del(newConns, c)
  /\ active'   = Del(active, c)
  /\ polling'  = DelAdd(polling, c, thread[c])
  /\ IO'       = [IO EXCEPT ![c] = "stopped"]

\* http2d_connection_move_to_polling: from any list to the polling list of the
\* connection's own thread; the watcher is re-initialised and started.
MoveToPolling(c, mode) ==
  /\ newConns' = Del(newConns, c)
  /\ active'   = Del(active, c)
  /\ polling'  = DelAdd(polling, c, thread[c])
  /\ IO'       = [IO EXCEPT ![c] = mode]

\* Mutant: move_to_active without http2d_list_del.
MoveToActiveNotUnlinked(c) ==
  /\ newConns' = newConns
  /\ active'   = DelAdd(active, c, thread[c])
  /\ polling'  = polling
  /\ IO'       = [IO EXCEPT ![c] = "stopped"]

\* Mutant: move_to_active without ev_io_stop.
MoveToActiveNotStopped(c) ==
  /\ newConns' = Del(newConns, c)
  /\ active'   = DelAdd(active, c, thread[c])
  /\ polling'  = Del(polling, c)
  /\ UNCHANGED IO

\* http2d_connection_move_to_active: the watcher is stopped first.
MoveToActive(c) ==
  /\ newConns' = Del(newConns, c)
  /\ active'   = DelAdd(active, c, thread[c])
  /\ polling'  = Del(polling, c)
  /\ IO'       = [IO EXCEPT ![c] = "stopped"]

\* http2d_socket_close.  The loop of http2d_fd_close on EINTR is not taken: the
\* program installs no signal handler, so that no signal interrupts a close.
CloseSocket(c) ==
  /\ openFds' = openFds \ {fd[c]}
  /\ fd'      = [fd EXCEPT ![c] = NoFd]

\* Mutant: mrproper without http2d_socket_close.
FreeConnNotClosed(c) ==
  /\ fd'   = [fd EXCEPT ![c] = NoFd]
  /\ IO'   = [IO EXCEPT ![c] = "stopped"]
  /\ life' = [life EXCEPT ![c] = "freed"]
  /\ UNCHANGED <<openFds, thread>>

\* http2d_connection_mrproper and free: the socket is closed, the watcher
\* stopped, the object released.
FreeConn(c) ==
  /\ CloseSocket(c)
  /\ IO'   = [IO EXCEPT ![c] = "stopped"]
  /\ life' = [life EXCEPT ![c] = "freed"]
  /\ UNCHANGED thread

\* http2d_thread_recycle_conn: out of its list, then freed.
RecycleConn(c) ==
  /\ newConns' = Del(newConns, c)
  /\ active'   = Del(active, c)
  /\ polling'  = Del(polling, c)
  /\ FreeConn(c)

\* The watchers started in the event loop of thread t.
Watched(t) == {c \in Conns : thread[c] = t /\ IO[c] \in EvModes}

-----------------------------------------------------------------------------
(* The main thread: bind.c io_cb, then http2d_thread_add_conn. *)

\* Mutant: prev_thd is not static.
NextThreadFirst(prev) == 1

\* list_next_circular over srv->threads, from NULL to the first thread.
NextThread(prev) == IF prev = 0 \/ prev = NThreads THEN 1 ELSE prev + 1

\* http2d_socket_accept_fd: the kernel gives a descriptor that is not in use.
AcceptFd(f) == f \notin openFds /\ openFds' = openFds \cup {f}

\* http2d_socket_set_sockaddr
SetSockaddr(c, f) == fd' = [fd EXCEPT ![c] = f]

Accept(c, f) ==
  /\ bindpc = "idle"
  /\ life[c] = "unborn"
  /\ AcceptFd(f)
  /\ SetSockaddr(c, f)
  /\ life'     = [life EXCEPT ![c] = "live"]
  /\ bindConn' = c
  /\ prev_thd' = NextThread(prev_thd)
  /\ bindpc'   = "lock"
  /\ UNCHANGED <<thread, IO, ready, listVars, mutex, signal, workerVars>>

\* http2d_socket_set_sockaddr fails, before it stores the descriptor: the error
\* path closes the descriptor and frees the connection; prev_thd has not moved
\* and no thread has seen it.
AcceptFails(c) ==
  /\ bindpc = "idle"
  /\ life[c] = "unborn"
  /\ openFds # Fds
  /\ life' = [life EXCEPT ![c] = "freed"]
  /\ UNCHANGED <<fd, thread, IO, openFds, ready, listVars, mutex, signal,
                 workerVars, bindVars>>

AddConnLocked ==
  /\ bindpc = "lock"
  /\ mutex[prev_thd] = "free"
  /\ mutex'    = [mutex EXCEPT ![prev_thd] = "bind"]
  /\ thread'   = [thread EXCEPT ![bindConn] = prev_thd]
  /\ newConns' = [newConns EXCEPT ![prev_thd] = @ \cup {bindConn}]
  /\ bindpc'   = "unlock"
  /\ UNCHANGED <<life, fd, IO, openFds, ready, active, polling, signal,
                 workerVars, bindConn, prev_thd>>

\* Mutant: add_conn without ev_async_send.
AddConnUnlockNoSignal ==
  /\ bindpc = "unlock"
  /\ mutex'    = [mutex EXCEPT ![prev_thd] = "free"]
  /\ bindpc'   = "idle"
  /\ bindConn' = NoConn
  /\ UNCHANGED <<connVars, ready, listVars, signal, workerVars, prev_thd>>

AddConnUnlock ==
  /\ bindpc = "unlock"
  /\ mutex'  = [mutex EXCEPT ![prev_thd] = "free"]
  /\ bindpc' = "send"
  /\ UNCHANGED <<connVars, ready, listVars, signal, workerVars, bindConn,
                 prev_thd>>

\* ev_async_send: signals that are not collected yet coalesce.
AddConnSignal ==
  /\ bindpc = "send"
  /\ signal'   = [signal EXCEPT ![prev_thd] = TRUE]
  /\ bindpc'   = "idle"
  /\ bindConn' = NoConn
  /\ UNCHANGED <<connVars, ready, listVars, mutex, workerVars, prev_thd>>

-----------------------------------------------------------------------------
(* A worker: thread_main.  The pass over the active list *)

\* ret_ok, or any error code: thread_main leaves the connection where it is.
StepStays(t, c) ==
  /\ pc[t] = "pass" /\ c \in todo[t]
  /\ todo' = [todo EXCEPT ![t] = @ \ {c}]
  /\ UNCHANGED <<connVars, ready, listVars, mutex, signal, pc, pendIO,
                 pendAsync, bindVars>>

\* The step found nothing to do (EAGAIN) and moved itself to polling.
StepPolls(t, c, mode) ==
  /\ pc[t] = "pass" /\ c \in todo[t]
  /\ todo'  = [todo EXCEPT ![t] = @ \ {c}]
  /\ ready' = ready \ {c}
  /\ MoveToPolling(c, mode)
  /\ UNCHANGED <<life, fd, thread, openFds, mutex, signal, pc, pendIO,
                 pendAsync, bindVars>>

\* Mutant: list_for_each in place of list_for_each_safe.
StepRecyclesNotSafe(t, c) ==
  /\ pc[t] = "pass" /\ c \in todo[t]
  /\ ready' = ready \ {c}
  /\ RecycleConn(c)
  /\ UNCHANGED <<mutex, signal, pc, todo, pendIO, pendAsync, bindVars>>

\* The step returned ret_eof, or recycled the connection itself.
StepRecycles(t, c) ==
  /\ pc[t] = "pass" /\ c \in todo[t]
  /\ todo'  = [todo EXCEPT ![t] = @ \ {c}]
  /\ ready' = ready \ {c}
  /\ RecycleConn(c)
  /\ UNCHANGED <<mutex, signal, pc, pendIO, pendAsync, bindVars>>

PassDone(t) ==
  /\ pc[t] = "pass" /\ todo[t] = {}
  /\ pc' = [pc EXCEPT ![t] = "ev_run"]
  /\ UNCHANGED <<connVars, ready, listVars, mutex, signal, todo, pendIO,
                 pendAsync, bindVars>>

(* ... and one iteration of ev_run. *)

\* Mutant: ev_run without EVRUN_NOWAIT.
EvRunReturnsNoWait(t) == Watched(t) \cap ready # {} \/ signal[t]

\* EVRUN_ONCE blocks until there is an event, unless EVRUN_NOWAIT is set
\* because a connection is active.
EvRunReturns(t) ==
  \/ active[t] # {}
  \/ Watched(t) \cap ready # {}
  \/ signal[t]

EvRun(t) ==
  /\ pc[t] = "ev_run"
  /\ EvRunReturns(t)
  /\ pendIO'    = [pendIO EXCEPT ![t] = Watched(t) \cap ready]
  /\ pendAsync' = [pendAsync EXCEPT ![t] = signal[t]]
  /\ signal'    = [signal EXCEPT ![t] = FALSE]
  /\ pc'        = [pc EXCEPT ![t] = "callbacks"]
  /\ UNCHANGED <<connVars, ready, listVars, mutex, todo, bindVars>>

\* connection.c io_cb
IoCb(t, c) ==
  /\ pc[t] = "callbacks" /\ c \in pendIO[t]
  /\ pendIO' = [pendIO EXCEPT ![t] = @ \ {c}]
  /\ MoveToActive(c)
  /\ UNCHANGED <<life, fd, thread, openFds, ready, mutex, signal, pc, todo,
                 pendAsync, bindVars>>

\* new_conn_cb up to the acquisition of the mutex
NewConnCbLock(t) ==
  /\ pc[t] = "callbacks" /\ pendAsync[t]
  /\ mutex[t] = "free"
  /\ mutex' = [mutex EXCEPT ![t] = "worker"]
  /\ pc'    = [pc EXCEPT ![t] = "new_conn_cb"]
  /\ UNCHANGED <<connVars, ready, listVars, signal, todo, pendIO, pendAsync,
                 bindVars>>

\* The end of new_conn_cb: unlock and ev_break.
NewConnCbDone(t) ==
  /\ mutex'     = [mutex EXCEPT ![t] = "free"]
  /\ pendAsync' = [pendAsync EXCEPT ![t] = FALSE]
  /\ pc'        = [pc EXCEPT ![t] = "callbacks"]
  /\ UNCHANGED <<life, fd, thread, openFds, ready, signal, todo, pendIO,
                 bindVars>>

\* Mutant: one signal, one connection.
NewConnCbOne(t) ==
  /\ pc[t] = "new_conn_cb"
  /\ \/ newConns[t] = {} /\ UNCHANGED <<listVars, IO>>
     \/ \E c \in newConns[t] : MoveToPolling(c, "EV_READ")
  /\ NewConnCbDone(t)

\* Mutant: new connections go to the active list.
NewConnCbToActive(t) ==
  /\ pc[t] = "new_conn_cb"
  /\ \/ newConns[t] = {} /\ UNCHANGED <<listVars, IO>>
     \/ \E c \in newConns[t] : MoveToActive(c)
  /\ NewConnCbDone(t)

\* new_conn_cb: move_to_polling (EV_READ) of every new connection, unlock.
NewConnCb(t) ==
  /\ pc[t] = "new_conn_cb"
  /\ polling'   = [u \in Threads |->
                     polling[u] \cup {c \in newConns[t] : thread[c] = u}]
  /\ active'    = [u \in Threads |-> active[u] \ newConns[t]]
  /\ newConns'  = [newConns EXCEPT ![t] = {}]
  /\ IO'        = [c \in Conns |->
                     IF c \in newConns[t] THEN "EV_READ" ELSE IO[c]]
  /\ NewConnCbDone(t)

\* ev_run returns and list_for_each_safe starts over the active list.  Only
\* this thread changes the list, and a step takes out no entry but its own.
EvRunDone(t) ==
  /\ pc[t] = "callbacks" /\ pendIO[t] = {} /\ ~pendAsync[t]
  /\ pc'   = [pc EXCEPT ![t] = "pass"]
  /\ todo' = [todo EXCEPT ![t] = active[t]]
  /\ UNCHANGED <<connVars, ready, listVars, mutex, signal, pendIO, pendAsync,
                 bindVars>>

-----------------------------------------------------------------------------
\* The peer: an event becomes available on a connected socket.
EventArrives(c) ==
  /\ life[c] = "live" /\ c \notin ready
  /\ ready' = ready \cup {c}
  /\ UNCHANGED <<connVars, listVars, mutex, signal, workerVars, bindVars>>

-----------------------------------------------------------------------------
\* http2d_server_init and http2d_thread_new: every worker starts thread_main
\* with empty lists, its async watcher started.
Init ==
  /\ life      = [c \in Conns |-> "unborn"]
  /\ fd        = [c \in Conns |-> NoFd]
  /\ thread    = [c \in Conns |-> 0]
  /\ IO        = [c \in Conns |-> "uninit"]
  /\ openFds   = {}
  /\ ready     = {}
  /\ newConns  = [t \in Threads |-> {}]
  /\ active    = [t \in Threads |-> {}]
  /\ polling   = [t \in Threads |-> {}]
  /\ mutex     = [t \in Threads |-> "free"]
  /\ signal    = [t \in Threads |-> FALSE]
  /\ pc        = [t \in Threads |-> "pass"]
  /\ todo      = [t \in Threads |-> {}]
  /\ pendIO    = [t \in Threads |-> {}]
  /\ pendAsync = [t \in Threads |-> FALSE]
  /\ bindpc    = "idle"
  /\ bindConn  = NoConn
  /\ prev_thd  = 0

AddConn == AddConnLocked \/ AddConnUnlock \/ AddConnSignal

ThreadMain(t) ==
  \/ \E c \in Conns :
       \/ StepStays(t, c)
       \/ \E mode \in EvModes : StepPolls(t, c, mode)
       \/ StepRecycles(t, c)
       \/ IoCb(t, c)
  \/ PassDone(t) \/ EvRun(t) \/ EvRunDone(t)
  \/ NewConnCbLock(t) \/ NewConnCb(t)

Next ==
  \/ \E c \in Conns : \/ \E f \in Fds : Accept(c, f)
                      \/ AcceptFails(c)
                      \/ EventArrives(c)
  \/ AddConn
  \/ \E t \in Threads : ThreadMain(t)

SafetySpec == Init /\ [][Next]_vars

\* Every thread that can run is eventually scheduled, and a connection step
\* returns; nothing is assumed of clients.
Fairness == WF_vars(AddConn) /\ \A t \in Threads : WF_vars(ThreadMain(t))

Spec == SafetySpec /\ Fairness

-----------------------------------------------------------------------------
(* Properties. *)

\* The types of the fields and of the control state of the threads.
TypeOK ==
  /\ life      \in [Conns -> {"unborn", "live", "freed"}]
  /\ fd        \in [Conns -> Fds \cup {NoFd}]
  /\ thread    \in [Conns -> 0..NThreads]
  /\ IO        \in [Conns -> {"uninit", "stopped"} \cup EvModes]
  /\ openFds   \subseteq Fds
  /\ ready     \subseteq Conns
  /\ newConns  \in [Threads -> SUBSET Conns]
  /\ active    \in [Threads -> SUBSET Conns]
  /\ polling   \in [Threads -> SUBSET Conns]
  /\ mutex     \in [Threads -> {"free", "bind", "worker"}]
  /\ signal    \in [Threads -> BOOLEAN]
  /\ pc        \in [Threads -> {"pass", "ev_run", "callbacks", "new_conn_cb"}]
  /\ todo      \in [Threads -> SUBSET Conns]
  /\ pendIO    \in [Threads -> SUBSET Conns]
  /\ pendAsync \in [Threads -> BOOLEAN]
  /\ bindpc    \in {"idle", "lock", "unlock", "send"}
  /\ bindConn  \in Conns \cup {NoConn}
  /\ prev_thd  \in 0..NThreads

InList(c, t) == c \in newConns[t] \cup active[t] \cup polling[t]

\* conn->listed is one list node: a live connection that was handed over is
\* in exactly one of the three lists, of its own thread; any other connection
\* is in none (a freed object left in a list is a dangling pointer, a live one
\* in no list is never served again).
OneHome ==
  \A c \in Conns :
    /\ \A t \in Threads :
         /\ InList(c, t) => thread[c] = t /\ life[c] = "live"
         /\ ~(c \in newConns[t] /\ c \in active[t])
         /\ ~(c \in newConns[t] /\ c \in polling[t])
         /\ ~(c \in active[t] /\ c \in polling[t])
    /\ life[c] = "live" =>
         \/ c = bindConn /\ bindpc = "lock"
         \/ thread[c] \in Threads /\ InList(c, thread[c])

\* move_to_polling and move_to_active keep the watcher and the list together:
\* an I/O watcher is started exactly while its connection is in the polling
\* list, so ev_io_init never hits a started watcher, no callback reaches a
\* freed connection, and no idle connection is left without a watcher.
WatchedIffPolling ==
  \A c \in Conns :
    IO[c] \in EvModes <=> \E t \in Threads : c \in polling[t]

\* While a connection waits in new_conns, its worker has a wake-up under way:
\* the signal is pending, or the callback is about to run, or the main thread
\* is between its unlock and its ev_async_send.
NoLostWakeup ==
  \A t \in Threads : newConns[t] # {} =>
    \/ signal[t]
    \/ pendAsync[t]
    \/ bindpc \in {"unlock", "send"} /\ prev_thd = t

\* mrproper closes the descriptor a connection owns and no other: a live
\* connection owns a descriptor that no other connection has, even after the
\* kernel has handed out a closed one again, and none is leaked.
DescriptorsOwned ==
  /\ \A c \in Conns : life[c] = "live" <=> fd[c] # NoFd
  /\ \A c, d \in Conns : fd[c] = fd[d] /\ fd[c] # NoFd => c = d
  /\ openFds = {fd[c] : c \in {d \in Conns : life[d] = "live"}}

\* Whatever libev still has to call back, or the pass has still to step, is a
\* live connection of this thread in the list the code assumes it is in.
NoStaleWork ==
  \A t \in Threads :
    /\ pendIO[t] \subseteq polling[t]
    /\ todo[t] \subseteq active[t]

\* The discipline of the threads that the properties above rest on: who holds
\* a mutex and where it then is, what the main thread carries, which events
\* and connections a worker has left at each point of thread_main.
ControlOK ==
  /\ bindpc = "idle" <=> bindConn = NoConn
  /\ bindpc # "idle" => prev_thd \in Threads
  /\ bindpc = "lock" => life[bindConn] = "live" /\ thread[bindConn] = 0
  /\ \A c \in Conns : life[c] = "unborn" => thread[c] = 0
  /\ \A t \in Threads :
       /\ mutex[t] = "bind" <=> bindpc = "unlock" /\ prev_thd = t
       /\ mutex[t] = "worker" <=> pc[t] = "new_conn_cb"
       /\ pendAsync[t] => pc[t] \in {"callbacks", "new_conn_cb"}
       /\ pc[t] = "new_conn_cb" => pendAsync[t]
       /\ todo[t] # {} => pc[t] = "pass"
       /\ pendIO[t] # {} => pc[t] \in {"callbacks", "new_conn_cb"}

\* The inductive invariant of the proofs in WorkerProofs.
IInv ==
  /\ TypeOK
  /\ ControlOK
  /\ OneHome
  /\ WatchedIffPolling
  /\ NoStaleWork
  /\ NoLostWakeup
  /\ DescriptorsOwned

Assigned(t) == Cardinality({c \in Conns : thread[c] = t})

\* Assigned round-robin (io_cb of bind.c): between any two workers the number
\* of connections handed to them over the whole run differs by at most one.
Balanced == \A t, u \in Threads : Assigned(t) - Assigned(u) \in -1..1

\* A connection put in new_conns is eventually polled by its worker.
HandoffCompletes ==
  \A c \in Conns, t \in Threads : c \in newConns[t] ~> c \in polling[t]

\* An event on a polled connection eventually makes it active, however busy
\* the active connections of the worker keep it.
EventServed ==
  \A c \in Conns, t \in Threads :
    c \in polling[t] /\ c \in ready ~> c \in active[t]

\* An active connection is stepped again even when no event ever comes: the
\* loop must not block while the active list is not empty.
ActiveStepped ==
  \A c \in Conns, t \in Threads :
    c \in active[t] ~> c \in todo[t] \/ c \notin active[t]

\* The stage of ConnLifecycle that a connection is in.
Stage(c) ==
  IF life[c] = "unborn" THEN "unborn"
  ELSE IF life[c] = "freed" THEN "closed"
  ELSE IF \E t \in Threads : c \in newConns[t] THEN "queued"
  ELSE IF \E t \in Threads : c \in polling[t] THEN "polled"
  ELSE IF \E t \in Threads : c \in active[t] THEN "served"
  ELSE "accepted"

Lifecycle == INSTANCE ConnLifecycle
               WITH stage <- [c \in Conns |-> Stage(c)], owner <- thread

\* thread.c, connection.c and bind.c together keep the promise that
\* ConnLifecycle states, connection by connection.
LifecycleKept == Lifecycle!Spec
=============================================================================
