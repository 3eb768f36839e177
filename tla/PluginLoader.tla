----------------------------- MODULE PluginLoader -----------------------------
(***************************************************************************)
(* The plug-in loader of plugin_loader.c: modules are loaded after those    *)
(* that their .deps file names, once, and their init function is called.    *)
(* A module file is [opens, info, init, deps]: whether dlopen accepts it,   *)
(* whether it has the info structure and the init function, and the modules *)
(* it depends on, in the order of the .deps file.  load_common calls itself *)
(* for each of these, so that its frames are state: a module is entered in  *)
(* the table after its dependencies, and a cycle among them makes the calls *)
(* go on until the stack is used up.                                        *)
(***************************************************************************)
EXTENDS Integers, Sequences, SequencesExt, FiniteSets

CONSTANTS
  Modules,
  Disks,     \* the sets of module files
  MaxLoads,  \* bound on the calls
  MaxDepth   \* bound on the frames of load_common

Files == [opens : BOOLEAN, info : BOOLEAN, init : BOOLEAN, deps : Seq(Modules)]
ASSUME DisksAssumption == Disks \subseteq [Modules -> Files]

VARIABLES
  disk,      \* disk[m]: the file of m
  loader,    \* [table, handles, inits]: the modules in the table; the handles
             \* of dlopen that are open, for each module; the init functions
             \* called, in order, since the module was loaded last
  frames,    \* the calls of load_common under way, the innermost last: [mod, next],
             \* next being the dependency to load next
  first,     \* the position in inits of the first call of the last load
  lastRet,   \* what the last call returned, for which module
  nloads

pluginVars == <<disk, loader, frames, first, lastRet, nloads>>

PluginInit ==
  /\ disk \in Disks
  /\ loader = [table |-> {}, handles |-> [m \in Modules |-> 0], inits |-> <<>>]
  /\ frames = <<>>
  /\ first = 1 /\ lastRet = <<"ok", "none">> /\ nloads = 0

\* dylib_open
DylibOpen(s, m) == [s EXCEPT !.handles[m] = @ + 1]

\* The new entry is in the table before its init function is called; without
\* one the call fails, but the module stays loaded.
ExecuteInit(s, m) ==
  LET t == [s EXCEPT !.table = @ \cup {m}]
  IN  IF disk[m].init THEN [t EXCEPT !.inits = Append(@, m)] ELSE t

\* get_info, whose failure leaves the handle open, and the rest of load_common
\* once the dependencies are done.
LoadSelf(s, m) ==
  IF ~disk[m].opens THEN s
  ELSE IF ~disk[m].info THEN DylibOpen(s, m)
  ELSE ExecuteInit(DylibOpen(s, m), m)

LoadRet(m) ==
  IF disk[m].opens /\ disk[m].info /\ disk[m].init THEN "ok"
  ELSE IF disk[m].opens THEN "not_found" ELSE "error"

\* Mutant: the last line of the .deps file is not read.
DepsDoneEarly(f) == f.next >= Len(disk[f.mod].deps)

\* The end of the .deps file.
DepsDone(f) == f.next > Len(disk[f.mod].deps)

\* A call of load_common: nothing to do for a module of the table.
Enter(fs, m) == IF m \in loader.table THEN fs ELSE Append(fs, [mod |-> m, next |-> 1])

\* http2d_plugin_loader_load, _load_no_global, _get
Load(m) ==
  /\ frames = <<>> /\ nloads < MaxLoads
  /\ frames' = Enter(frames, m)
  /\ first' = Len(loader.inits) + 1
  /\ lastRet' = <<IF m \in loader.table THEN "ok" ELSE "running", m>>
  /\ nloads' = nloads + 1
  /\ UNCHANGED <<disk, loader>>

\* check_deps_file: the next dependency, whatever becomes of it.
CheckDeps ==
  /\ frames # <<>> /\ ~DepsDone(Last(frames)) /\ Len(frames) < MaxDepth
  /\ LET f == Last(frames)
     IN  frames' = Enter([frames EXCEPT ![Len(frames)].next = @ + 1], disk[f.mod].deps[f.next])
  /\ UNCHANGED <<disk, loader, first, lastRet, nloads>>

\* The rest of load_common, which returns.
LoadDone ==
  /\ frames # <<>> /\ DepsDone(Last(frames))
  /\ LET m == Last(frames).mod
     IN  /\ loader' = LoadSelf(loader, m)
         /\ lastRet' = IF Len(frames) = 1 THEN <<LoadRet(m), m>> ELSE lastRet
  /\ frames' = Front(frames)
  /\ UNCHANGED <<disk, first, nloads>>

\* http2d_plugin_loader_unload: whoever depends on it.
Unload(m) ==
  /\ frames = <<>> /\ m \in loader.table
  /\ loader' = [table   |-> loader.table \ {m},
                handles |-> [loader.handles EXCEPT ![m] = @ - 1],
                inits   |-> RemoveFirst(loader.inits, m)]
  /\ first' = Len(loader'.inits) + 1 /\ lastRet' = <<"ok", "none">>
  /\ UNCHANGED <<disk, frames, nloads>>

\* http2d_plugin_loader_mrproper
LoaderMrproper ==
  /\ frames = <<>>
  /\ loader' = [table   |-> {},
                handles |-> [m \in Modules |-> loader.handles[m] -
                               IF m \in loader.table THEN 1 ELSE 0],
                inits   |-> <<>>]
  /\ first' = Len(loader'.inits) + 1 /\ lastRet' = <<"ok", "none">>
  /\ UNCHANGED <<disk, frames, nloads>>

PluginNext ==
  \/ CheckDeps \/ LoadDone \/ LoaderMrproper
  \/ \E m \in Modules : Load(m) \/ Unload(m)
PluginSpec == PluginInit /\ [][PluginNext]_pluginVars

-----------------------------------------------------------------------------
(* Properties. *)

Loadable(m) == disk[m].opens /\ disk[m].info

\* plugin_loader.c: whatever was loaded and unloaded before, and whatever depends
\* on whatever, a module of the table has one open handle and its init function
\* was called once; a handle without an entry is one of a file without its info
\* structure; and a call that initialises a module has loaded before it each
\* module it depends on that can be loaded.
LoadedInOrder ==
  /\ IsInjective(loader.inits) /\ \A m \in Modules : Contains(loader.inits, m) => m \in loader.table
  /\ \A m \in Modules : IF Loadable(m) THEN loader.handles[m] = IF m \in loader.table THEN 1 ELSE 0
                        ELSE m \notin loader.table
  /\ \A i \in first..Len(loader.inits) : \A e \in DOMAIN disk[loader.inits[i]].deps :
       LET d == disk[loader.inits[i]].deps[e]
       IN  Loadable(d) => d \in loader.table /\ \A k \in i..Len(loader.inits) : loader.inits[k] # d
  /\ lastRet[1] = "ok" /\ lastRet[2] # "none" => lastRet[2] \in loader.table
=============================================================================
