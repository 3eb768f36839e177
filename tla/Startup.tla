------------------------------- MODULE Startup -------------------------------
(***************************************************************************)
(* The start of the server: main, http2d_server_init, _read_conf and        *)
(* _initialize, the configuration of binds and virtual servers, the sockets *)
(* of the binds, and the choice of a virtual server in a TLS handshake.     *)
(* One thread runs this; what the system calls answer is up to the system.  *)
(***************************************************************************)
EXTENDS ConfigTree

CONSTANTS
  Configs,   \* the sets of files that a server may be started with
  MainFile,  \* the one it is started with (-C)
  NCpus      \* dcc_ncpus

VARIABLES
  pc,        \* where main is
  files,     \* the files on the disk
  config,    \* srv->config
  parsed,    \* what http2d_config_reader_parse returned
  nthreads,  \* srv->threads
  binds,     \* srv->binds: [id, ip, port, tls, spdy, fd]
  vservers,  \* srv->vservers: [key, priority, ctx]
  todo,      \* the keys of the nodes, or the binds, that a loop has still to do
  socks,     \* the kernel's sockets: [port, listening], by descriptor
  watchers,  \* the ev_io watchers of the main loop: [bind, fd]
  served     \* the virtual server of the last handshake

vars == <<pc, files, config, parsed, nthreads, binds, vservers, todo, socks, watchers, served>>

Closed == 0
NoOne  == "none"

Init ==
  /\ pc = "init" /\ files \in Configs
  /\ config = EmptyTree /\ parsed = "none"
  /\ nthreads = 0 /\ binds = <<>> /\ vservers = <<>> /\ todo = <<>>
  /\ socks = <<>> /\ watchers = {} /\ served = NoOne

Exit == pc' = "exit"

\* main: http2d_init has no failure; parameters that are not understood, -h and
\* -V end the process.
ProcessParameters ==
  /\ pc = "init"
  /\ pc' = "server_init" \/ Exit
  /\ UNCHANGED <<files, config, parsed, nthreads, binds, vservers, todo, socks, watchers, served>>

\* http2d_server_init: a thread of the loop cannot be created, or all are.
ServerInit ==
  /\ pc = "server_init"
  /\ \E n \in 0..2 * NCpus :
       /\ nthreads' = n
       /\ IF n < 2 * NCpus THEN Exit ELSE pc' = "parse"
  /\ UNCHANGED <<files, config, parsed, binds, vservers, todo, socks, watchers, served>>

\* http2d_server_read_conf: the parser, ...
Parse ==
  LET r == Include(files, config, MainFile)
  IN  /\ pc = "parse"
      /\ config' = r.tree /\ parsed' = r.ret
      /\ IF r.ret = "ok" THEN pc' = "server" ELSE Exit
      /\ UNCHANGED <<files, nthreads, binds, vservers, todo, socks, watchers, served>>

-----------------------------------------------------------------------------
(* _http2d_server_config *)

BindPath(k)    == <<"server", "bind", k>>
VserverPath(k) == <<"vserver", k>>

\* http2d_bind_new, http2d_bind_configure: the port is needed.
BindConfigured(k) ==
  LET read(key) == BindPath(k) \o <<key>>
  IN  [id |-> Num(k), ip |-> ReadVal(config, read("interface")),
       port |-> Num(config.val[read("port")]),
       tls |-> ReadBool(config, read("tls")), spdy |-> ReadBool(config, read("spdy")),
       fd |-> Closed]

\* The children of server: configure_server_property knows one property, bind;
\* configure_binds stops at the first bind whose number or port cannot be read.
ConfigureServer ==
  LET props == IF Has(config, <<"server">>) THEN Children(config, <<"server">>) ELSE <<>>
      keys  == IF Has(config, <<"server", "bind">>) THEN Children(config, <<"server", "bind">>)
               ELSE <<>>
      ok(k) == Fits(k) /\ ReadInt(config, BindPath(k) \o <<"port">>)
      n     == Cardinality({i \in DOMAIN keys : \A j \in 1..i : ok(keys[j])})
      ahead == IF props = <<>> THEN FALSE ELSE props[1] # "bind"
  IN  /\ pc = "server"
      /\ binds' = IF ahead THEN <<>> ELSE [i \in 1..n |-> BindConfigured(keys[i])]
      /\ IF n < Len(keys) \/ Range(props) \ {"bind"} # {} THEN Exit /\ UNCHANGED todo
         ELSE /\ pc' = "vservers"
              /\ todo' = IF Has(config, <<"vserver">>) THEN Children(config, <<"vserver">>)
                         ELSE <<>>
      /\ UNCHANGED <<files, config, parsed, nthreads, vservers, socks, watchers, served>>

Disabled(k) == ReadBool(config, VserverPath(k) \o <<"disabled">>)

\* http2d_virtual_server_initialize: init_ssl, with or without TLS binds, needs a
\* certificate and its key.
SslOk(k) == ReadVal(config, VserverPath(k) \o <<"ssl_certificate_file">>) = "good"

\* add_vserver: a disabled one is dropped, one with a priority that is negative or
\* out of range, or whose context cannot be made, ends the configuration.
AddVserver ==
  LET k == Head(todo)
      v == [key |-> k, priority |-> Num(k), ctx |-> TRUE]
  IN  /\ pc = "vservers" /\ todo # <<>>
      /\ todo' = Tail(todo)
      /\ IF ~Fits(k) \/ Num(k) < 0 THEN Exit /\ UNCHANGED vservers
         ELSE IF Disabled(k) THEN UNCHANGED <<pc, vservers>>
         ELSE IF SslOk(k) THEN vservers' = Append(vservers, v) /\ UNCHANGED pc
         ELSE Exit /\ UNCHANGED vservers
      /\ UNCHANGED <<files, config, parsed, nthreads, binds, socks, watchers, served>>

VserverCmp(a, b) == b.priority - a.priority

\* http2d_list_sort (&srv->vservers, vserver_cmp)
SortVservers(s) ==
  LET before(i, j) == VserverCmp(s[i], s[j]) < 0 \/ (VserverCmp(s[i], s[j]) = 0 /\ i < j)
      place(i)     == 1 + Cardinality({j \in DOMAIN s : before(j, i)})
  IN  [k \in DOMAIN s |-> s[CHOOSE i \in DOMAIN s : place(i) = k]]

\* The end of the configuration, post_config_checks, and the release of the tree.
PostConfigChecks ==
  /\ pc = "vservers" /\ todo = <<>>
  /\ vservers' = SortVservers(vservers)
  /\ IF vservers = <<>> \/ binds = <<>> THEN Exit /\ UNCHANGED <<config, todo>>
     ELSE /\ pc' = "initialize"
          /\ todo' = [i \in DOMAIN binds |-> i]
          /\ config' = EmptyTree
  /\ UNCHANGED <<files, parsed, nthreads, binds, socks, watchers, served>>

-----------------------------------------------------------------------------
(* http2d_server_initialize: http2d_bind_init_port of each bind, in order.   *)

\* A port is taken as long as a socket of this process is bound to it.
Free(port) == \A fd \in DOMAIN socks : socks[fd].port # port

NextFd == Len(socks) + 1

\* A socket was bound: the bind has it, and its watcher is started.
Bound(b, fd) ==
  /\ socks' = Append(socks, [port |-> binds[b].port, listening |-> FALSE])
  /\ binds' = [binds EXCEPT ![b].fd = fd]
  /\ watchers' = watchers \cup {[bind |-> b, fd |-> fd]}

\* http2d_bind_init_port: init_socket for IPv6.  It may fail, at
\* http2d_socket_create_fd, set_socket_opts or http2d_socket_bind, with the
\* socket closed again; then IPv4 is tried.
InitSocket6 ==
  LET b == Head(todo)
  IN  /\ pc = "initialize" /\ todo # <<>>
      /\ \/ Free(binds[b].port) /\ Bound(b, NextFd) /\ pc' = "listen"
         \/ pc' = "ipv4" /\ UNCHANGED <<socks, binds, watchers>>
      /\ UNCHANGED <<files, config, parsed, nthreads, vservers, todo, served>>

\* Mutant: a bind without a socket does not end the start.
InitSocket4Ignored ==
  LET b == Head(todo)
  IN  /\ pc = "ipv4"
      /\ \/ Free(binds[b].port) /\ Bound(b, NextFd) /\ pc' = "listen" /\ UNCHANGED todo
         \/ pc' = "initialize" /\ todo' = Tail(todo) /\ UNCHANGED <<socks, binds, watchers>>
      /\ UNCHANGED <<files, config, parsed, nthreads, vservers, served>>

InitSocket4 ==
  LET b == Head(todo)
  IN  /\ pc = "ipv4"
      /\ \/ Free(binds[b].port) /\ Bound(b, NextFd) /\ pc' = "listen"
         \/ Exit /\ UNCHANGED <<socks, binds, watchers>>
      /\ UNCHANGED <<files, config, parsed, nthreads, vservers, todo, served>>

\* ... http2d_socket_listen and build_strings.  After a failure the socket is
\* closed, but its watcher stays started.
Listen ==
  LET b  == Head(todo)
      fd == binds[b].fd
  IN  /\ pc = "listen"
      /\ \/ /\ socks' = [socks EXCEPT ![fd].listening = TRUE]
            /\ todo' = Tail(todo) /\ pc' = "initialize"
            /\ UNCHANGED binds
         \/ /\ socks' = [socks EXCEPT ![fd].port = Closed]
            /\ binds' = [binds EXCEPT ![b].fd = Closed]
            /\ Exit /\ UNCHANGED todo
      /\ UNCHANGED <<files, config, parsed, nthreads, vservers, watchers, served>>

\* http2d_server_run
ServerRun ==
  /\ pc = "initialize" /\ todo = <<>>
  /\ pc' = "run"
  /\ UNCHANGED <<files, config, parsed, nthreads, binds, vservers, todo, socks, watchers, served>>

\* SNI_servername_cb: find_vserver, http2d_server_get_vserver takes the first.
ServernameCb ==
  /\ pc = "run" /\ served = NoOne
  /\ served' = Head(vservers).key
  /\ UNCHANGED <<pc, files, config, parsed, nthreads, binds, vservers, todo, socks, watchers>>

Next ==
  \/ ProcessParameters \/ ServerInit \/ Parse \/ ConfigureServer \/ AddVserver
  \/ PostConfigChecks \/ InitSocket6 \/ InitSocket4 \/ Listen \/ ServerRun
  \/ ServernameCb

Spec == Init /\ [][Next]_vars

-----------------------------------------------------------------------------
(* Properties. *)

Said == Script(files, MainFile)
SaidNodes == UNION {Prefixes(Said.sets[i][1]) : i \in DOMAIN Said.sets} \cup {<<>>}

\* config_reader.c: what was read in any order of includes is what the files say:
\* a value is the last one given, wherever, each node is listed once by its
\* parent, numbered children come largest first; the parser fails exactly for a
\* line it cannot read, a file that is missing (unless only tried) or two keys
\* of the top level that differ in case only.
ConfigAsSaid ==
  /\ parsed = "ok" /\ config # EmptyTree =>
       /\ Said.ok
       /\ DOMAIN config.val = SaidNodes
       /\ \A p \in SaidNodes :
            /\ config.val[p] = LastSet(Said.sets, p)
            /\ LET keys == Children(config, p)
               IN  /\ IsInjective(keys)
                   /\ Range(keys) = {Last(q) : q \in {r \in SaidNodes : r # <<>> /\ Front(r) = p}}
                   /\ AllNum(keys) => \A i, j \in DOMAIN keys : i < j => Num(keys[i]) >= Num(keys[j])
  /\ parsed = "error" =>
       \/ ~Said.ok
       \/ \E p, q \in SaidNodes : Len(p) = 1 /\ Len(q) = 1 /\ p # q /\ Fold(p[1]) = Fold(q[1])

\* server.c, bind.c: a server that runs has what the configuration asked for, all
\* of it: every bind listens on a socket of its own, and its watcher waits for
\* that socket; every virtual server that is enabled (for which "disabled" is not
\* given as a number other than 0) has a context, and the one with the highest
\* priority is first and serves.
RunsAsConfigured ==
  pc = "run" =>
    LET said(path) == LastSet(Said.sets, path)
        ids == {p[3] : p \in {q \in SaidNodes : Len(q) = 3 /\ SubSeq(q, 1, 2) = <<"server", "bind">>}}
        vs  == {p[2] : p \in {q \in SaidNodes : Len(q) = 2 /\ q[1] = "vserver"}}
        disabled(k) == LET v == said(VserverPath(k) \o <<"disabled">>) IN Fits(v) /\ Num(v) # 0
        enabled == {k \in vs : ~disabled(k)}
    IN  /\ nthreads = 2 * NCpus
        /\ {binds[i].id : i \in DOMAIN binds} = {Num(k) : k \in ids}
        /\ Len(binds) = Cardinality(ids)
        /\ \A i \in DOMAIN binds :
             /\ \E k \in ids : LET v == said(BindPath(k) \o <<"port">>)
                               IN  Fits(v) /\ binds[i].port = Num(v)
             /\ binds[i].fd \in DOMAIN socks /\ socks[binds[i].fd].listening
             /\ socks[binds[i].fd].port = binds[i].port
             /\ {w.fd : w \in {x \in watchers : x.bind = i}} = {binds[i].fd}
             /\ \A j \in DOMAIN binds : i # j => binds[i].fd # binds[j].fd
        /\ {vservers[i].key : i \in DOMAIN vservers} = enabled /\ enabled # {}
        /\ served # NoOne => \A k \in enabled : Num(served) >= Num(k)
=============================================================================
