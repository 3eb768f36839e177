------------------------------- MODULE IOCache -------------------------------
(***************************************************************************)
(* The I/O cache of iocache.c: the entries of the ARC cache (module Cache)  *)
(* keep the stat and the memory map of the file they are named after.  A    *)
(* client gets an entry from the cache, under the cache's mutex, and then   *)
(* updates it under the mutex of the entry alone: other clients may move    *)
(* in between.  An entry that is in use is not to be updated; the test is   *)
(* on its reference count, which says how many use it only while the cache  *)
(* holds exactly one reference itself.                                      *)
(*                                                                         *)
(* Entries do not touch each other's information, so that the information   *)
(* of one entry, File, is followed.  The others compete with it for room;    *)
(* they are released as soon as they are got (module Cache has the rest).  *)
(* What stat, open and mmap answer is chosen anew at every call.            *)
(***************************************************************************)
EXTENDS Cache

CONSTANTS
  File,          \* the entry whose cached information is followed
  Sizes,         \* the sizes that stat may report
  MinFileSize,   \* iocache->min_file_size
  MaxFileSize    \* iocache->max_file_size

ASSUME FileAssumption   == File \in Keys
ASSUME SizesAssumption  == Sizes \subseteq Nat
ASSUME LimitsAssumption == MinFileSize \in Int /\ MaxFileSize \in Int

VARIABLES
  ioentry,   \* the http2d_iocache_entry_t of File
  todo,      \* todo[c]: c got File and is about to update it
  using,     \* the map of File that a client works with
  maps       \* how many maps of File exist in the process

ioVars == <<ioentry, todo, using, maps>>
allVars == <<cache, held, relisted, ioentry, todo, using, maps>>

\* What is asked for: a map comes with the stat.
Infos == {{"stat"}, {"stat", "mmap"}}
Stats == [known : {TRUE}, reg : BOOLEAN, size : Sizes]

\* iocache_entry_new_cb; the struct stat is not initialised.  An expiration
\* time is reduced to whether it has passed.
NewIOEntry ==
  [info |-> {}, state |-> [known |-> FALSE, reg |-> FALSE, size |-> 0],
   state_ret |-> "ok", stat_fresh |-> FALSE,
   mmaped |-> "null", mmaped_len |-> 0, mmap_fresh |-> FALSE]

IOInit ==
  /\ Init
  /\ ioentry = NewIOEntry
  /\ todo  = [c \in Clients |-> FALSE]
  /\ using = [c \in Clients |-> "none"]
  /\ maps  = 0

-----------------------------------------------------------------------------
(* What an update does to the entry.  An update is a set of outcomes: the   *)
(* entry, the answer and the number of maps that it made less those it      *)
(* removed, with unmapped TRUE if the map of before is gone.                *)

Outcome(e, ret) == [entry |-> e, ret |-> ret, made |-> 0, unmapped |-> FALSE]

\* What the switches make of the errno of stat and of open (ret_deny,
\* ret_not_found or ret_error): what follows only asks whether it is ret_ok.
Failures == {"failed"}

\* ioentry_update_stat
UpdateStat(e) ==
  IF e.stat_fresh
  THEN {Outcome(e, IF e.state_ret = "ok" THEN "ok_and_sent" ELSE "deny")}
  ELSE LET known == [e EXCEPT !.stat_fresh = TRUE, !.info = @ \cup {"stat"}]
       IN  {Outcome([known EXCEPT !.state = st, !.state_ret = "ok"], "ok") : st \in Stats}
             \cup {Outcome([known EXCEPT !.state_ret = r], "deny") : r \in Failures}

\* The error label of ioentry_update_mmap.
NoMap(e) == [e EXCEPT !.info = @ \ {"mmap"}]

\* Mutant: the new expiration is set before mmap() has answered.
MapFileEarly(e) ==
  LET before == IF e.mmaped = "map" THEN 1 ELSE 0
      mapped == [e EXCEPT !.mmaped = "map", !.mmaped_len = e.state.size,
                          !.mmap_fresh = TRUE, !.info = @ \cup {"mmap"}]
      failed == [e EXCEPT !.mmaped = "failed", !.mmaped_len = 0, !.mmap_fresh = TRUE]
  IN  {[entry |-> mapped, ret |-> "ok", made |-> 1 - before, unmapped |-> before = 1]}
        \cup {[entry |-> NoMap(failed), ret |-> r, made |-> -before,
               unmapped |-> before = 1] : r \in Failures}

\* The munmap of the previous map and the mmap of the file; a map that fails
\* leaves MAP_FAILED in the entry, with length 0.
MapFile(e) ==
  LET before == IF e.mmaped = "map" THEN 1 ELSE 0
      mapped == [e EXCEPT !.mmaped = "map", !.mmaped_len = e.state.size,
                          !.mmap_fresh = TRUE, !.info = @ \cup {"mmap"}]
      failed == [e EXCEPT !.mmaped = "failed", !.mmaped_len = 0]
  IN  {[entry |-> mapped, ret |-> "ok", made |-> 1 - before, unmapped |-> before = 1]}
        \cup {[entry |-> NoMap(failed), ret |-> r, made |-> -before,
               unmapped |-> before = 1] : r \in Failures}

\* ioentry_update_mmap: with no descriptor from the caller the file is opened
\* first, and a failure to open it counts as one of stat.
UpdateMmap(e, hasFd) ==
  IF e.mmap_fresh THEN {Outcome(e, "ok")}
  ELSE IF ~e.state.reg THEN {Outcome(NoMap(e), "deny")}
  ELSE MapFile(e) \cup
       IF hasFd THEN {}
       ELSE {Outcome(NoMap([e EXCEPT !.stat_fresh = TRUE, !.state_ret = r]), r) :
               r \in Failures}

\* Mutant: the reference of the cache is not allowed for.
UpdateRefusedLate(e, refs) == refs > 3 /\ e.info # {}

\* "It shouldn't update the object if somebody else is using it."
UpdateRefused(e, refs) == refs > 2 /\ e.info # {}

\* entry_update_fd, of an entry with refs references.  With the stat asked for
\* first, the second ioentry_update_stat finds it fresh.
UpdateFd(e, refs, info, hasFd) ==
  LET withMap(o) ==
        IF o.ret = "deny" THEN {o}
        ELSE IF o.entry.state.size < MinFileSize \/ o.entry.state.size > MaxFileSize
        THEN {[o EXCEPT !.ret = "no_sys"]}
        ELSE UpdateMmap(o.entry, hasFd)
  IN  IF UpdateRefused(e, refs) THEN {Outcome(e, "ok_and_sent")}
      ELSE IF "mmap" \in info THEN UNION {withMap(o) : o \in UpdateStat(e)}
      ELSE {[o EXCEPT !.ret = "ok"] : o \in UpdateStat(e)}

\* Mutant: the map is forgotten.
CleanInfoKeepsMap(e) == 0

\* clean_info_cb, when the entry is freed: how many maps it removes.
CleanInfo(e) == IF e.mmaped = "map" THEN 1 ELSE 0

-----------------------------------------------------------------------------
(* The operations of clients. *)

\* The clients but c lose the map they work with.
Lost(c) == [d \in Clients |-> IF d # c /\ using[d] = "mapped" THEN "gone" ELSE using[d]]

\* A step of the cache that leaves File in it, drops it or creates it.
EntryFollows ==
  /\ ioentry' = IF File \in cache.map /\ File \in cache'.map THEN ioentry ELSE NewIOEntry
  /\ maps' = IF File \in cache.map /\ File \notin cache'.map
             THEN maps - CleanInfo(ioentry) ELSE maps

\* http2d_iocache_autoget[_fd] with no entry yet: iocache_get asks the cache
\* for it.  The update follows in Update.
AutogetNew(c) ==
  /\ ~todo[c]
  /\ \/ GetListed(c, File, TRUE) /\ cache.in_list[File] \in {"t1", "t2"}
     \/ GetLingering(c, File)
     \/ GetMiss(c, File)
     \/ GetNoMemory(c, File)
  /\ EntryFollows
  /\ todo' = [todo EXCEPT ![c] = held'[c] = File]
  /\ UNCHANGED using

\* ... that is a ghost: the cache has it fetched before it takes the client's
\* reference.  fetch_info_cb answers ret_ok whatever the update answered.
AutogetGhost(c) ==
  /\ ~todo[c]
  /\ cache.in_list[File] \in {"b1", "b2"}
  /\ GetListed(c, File, TRUE)
  /\ \E o \in UpdateFd(ioentry, cache.ref_count[File], {"stat", "mmap"}, FALSE) :
       /\ ioentry' = o.entry
       /\ maps' = maps + o.made
       /\ using' = IF o.unmapped THEN Lost(c) ELSE using
  /\ todo' = [todo EXCEPT ![c] = TRUE]

\* entry_update_fd under entry->mutex: the second half of iocache_get, or an
\* http2d_iocache_autoget[_fd] of the entry that the client has.  It then
\* works with the map, if it asked for one and there is one.
Update(c, info, hasFd) ==
  /\ ~cache.segv /\ held[c] = File
  /\ \E o \in UpdateFd(ioentry, cache.ref_count[File], info, hasFd) :
       /\ ioentry' = o.entry
       /\ maps' = maps + o.made
       /\ using' = [(IF o.unmapped THEN Lost(c) ELSE using) EXCEPT
                      ![c] = IF /\ "mmap" \in info
                                /\ o.ret \in {"ok", "ok_and_sent"}
                                /\ "mmap" \in o.entry.info
                             THEN "mapped" ELSE IF o.unmapped THEN "none" ELSE @]
  /\ todo' = [todo EXCEPT ![c] = FALSE]
  /\ UNCHANGED vars

\* A client gets another file and is done with it: the entry of File may be
\* moved, evicted or, when nobody uses it, freed.
GetOther(k) ==
  /\ ~cache.segv
  /\ LET got == IF k \in cache.map THEN Ref(UpdateCache(cache, k, TRUE), k)
                ELSE Created(OnNewAdded(cache), k)
     IN  cache' = IF got.segv THEN got ELSE Unref(got, k)
  /\ EntryFollows
  /\ UNCHANGED <<held, relisted, todo, using>>

\* http2d_iocache_entry_unref
IOEntryUnref(c) ==
  /\ ~todo[c]
  /\ EntryUnref(c)
  /\ EntryFollows
  /\ using' = [using EXCEPT ![c] = "none"]
  /\ UNCHANGED todo

\* HTTP2D_BOGONOW passes the expiration of the stat, of the map, or of both.
Expire ==
  /\ ioentry.stat_fresh \/ ioentry.mmap_fresh
  /\ \E s, m \in BOOLEAN :
       ioentry' = [ioentry EXCEPT !.stat_fresh = @ /\ s, !.mmap_fresh = @ /\ m]
  /\ UNCHANGED <<cache, held, relisted, todo, using, maps>>

IONext ==
  \/ Expire
  \/ \E k \in Keys \ {File} : GetOther(k)
  \/ \E c \in Clients :
       \/ AutogetNew(c)
       \/ AutogetGhost(c)
       \/ \E info \in Infos, hasFd \in BOOLEAN : Update(c, info, hasFd)
       \/ IOEntryUnref(c)

IOSpec == IOInit /\ [][IONext]_allVars

-----------------------------------------------------------------------------
(* Properties. *)

\* Every mmap is undone by one munmap, over failed updates, failed maps,
\* evictions and late releases: the maps of a file in the process are the one
\* that its entry refers to, if it does.
MapsAccounted ==
  maps = IF File \in cache.map /\ ioentry.mmaped = "map" THEN 1 ELSE 0

\* The short paths of the two updates may answer for the entry, although stat
\* and map are refreshed at different times: an entry whose map has not expired
\* has one, of a size within the limits, and one whose stat is fresh and good
\* has a struct stat that some stat() filled in, not the memory of malloc.
FreshInfoUsable ==
  /\ ioentry.mmap_fresh => ioentry.mmaped = "map" /\ "mmap" \in ioentry.info
  /\ ioentry.mmaped = "map" => ioentry.mmaped_len \in MinFileSize..MaxFileSize
  /\ ioentry.stat_fresh /\ ioentry.state_ret = "ok" => ioentry.state.known

\* What the test on ref_count achieves: while the entry is in T1 or T2, nobody
\* loses the map it works with to the update of another client.
ResidentMapKept ==
  [][\A c \in Clients :
       using[c] = "mapped" /\ using'[c] = "gone" =>
         cache.in_list[File] \in {"b1", "b2", "no_list"}]_allVars

\* "It shouldn't update the object if somebody else is using it" (the comment
\* of entry_update_fd): no client loses the map it works with.
MapInUseKept == \A c \in Clients : using[c] # "gone"
=============================================================================
