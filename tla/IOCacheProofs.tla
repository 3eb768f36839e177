---------------------------- MODULE IOCacheProofs ----------------------------
(***************************************************************************)
(* Proofs about IOCache, for every set of files, every finite set of        *)
(* clients, every max_size and every limit on the size of a map.  What an    *)
(* update does to an entry is stated first, for any entry and whatever       *)
(* stat, open and mmap answer; the rest follows with the lemmas about the    *)
(* cache, above all that a client's reference keeps the entry in the AVL.    *)
(***************************************************************************)
EXTENDS IOCache, CacheProofs

\* The http2d_iocache_entry_t.
IOEntries ==
  [info       : SUBSET {"stat", "mmap"},
   state      : [known : BOOLEAN, reg : BOOLEAN, size : Nat],
   state_ret  : {"ok", "failed"},
   stat_fresh : BOOLEAN,
   mmaped     : {"null", "map", "failed"},
   mmaped_len : Nat,
   mmap_fresh : BOOLEAN]

\* What an entry says of itself is right: FreshInfoUsable, and what it needs.
\* A map is only announced while there is one, and only made after a stat.
EntryOK(e) ==
  /\ e \in IOEntries
  /\ e.mmap_fresh => e.mmaped = "map" /\ "mmap" \in e.info
  /\ e.mmaped = "map" => e.mmaped_len \in MinFileSize..MaxFileSize
  /\ e.stat_fresh /\ e.state_ret = "ok" => e.state.known
  /\ e.stat_fresh => "stat" \in e.info
  /\ "mmap" \in e.info => e.mmaped = "map"
  /\ e.mmaped = "map" => "stat" \in e.info

\* What an update may do: it leaves a right entry and says what became of the
\* maps.
Updated(e, o) ==
  /\ EntryOK(o.entry)
  /\ o.made = CleanInfo(o.entry) - CleanInfo(e)
  /\ o.unmapped \in BOOLEAN
  /\ ~o.unmapped /\ e.mmaped = "map" => o.entry.mmaped = "map"

-----------------------------------------------------------------------------
(* Updates. *)

\* An update that leaves the map alone.
LEMMA MapLeft ==
  ASSUME NEW e, NEW o, EntryOK(o.entry), o.made = 0, o.unmapped = FALSE,
         o.entry.mmaped = e.mmaped
  PROVE  Updated(e, o) /\ ~o.unmapped
<1>1. CleanInfo(o.entry) = CleanInfo(e) /\ CleanInfo(e) \in {0, 1}
  BY DEF CleanInfo
<1>2. o.made = CleanInfo(o.entry) - CleanInfo(e)
  BY <1>1
<1> QED
  BY <1>2, Zenon DEF Updated

\* ioentry_update_stat leaves the map alone and the entry with a stat.
LEMMA StatFacts ==
  ASSUME NEW e, EntryOK(e), NEW o \in UpdateStat(e)
  PROVE  /\ EntryOK(o.entry) /\ o.made = 0 /\ o.unmapped = FALSE
         /\ o.entry.mmaped = e.mmaped /\ "stat" \in o.entry.info
         /\ o.ret # "deny" => o.entry.state.size \in Nat
<1>1. e \in IOEntries
  BY DEF EntryOK
<1>2. CASE e.stat_fresh
  <2>1. o.entry = e /\ o.made = 0 /\ o.unmapped = FALSE
    BY <1>2 DEF UpdateStat, Outcome
  <2> QED
    BY <1>1, <1>2, <2>1 DEF EntryOK, IOEntries
<1>3. CASE ~e.stat_fresh
  <2> DEFINE known == [e EXCEPT !.stat_fresh = TRUE, !.info = @ \cup {"stat"}]
  <2>1. /\ known \in IOEntries /\ known.stat_fresh = TRUE
        /\ known.info = e.info \cup {"stat"} /\ known.mmaped = e.mmaped
        /\ known.mmaped_len = e.mmaped_len /\ known.mmap_fresh = e.mmap_fresh
        /\ known.state = e.state
    BY <1>1 DEF IOEntries
  <2>2. \/ \E st \in Stats : o = Outcome([known EXCEPT !.state = st, !.state_ret = "ok"], "ok")
        \/ o = Outcome([known EXCEPT !.state_ret = "failed"], "deny")
    BY <1>3 DEF UpdateStat, Failures
  <2> HIDE DEF known
  <2>3. ASSUME NEW st \in Stats,
               o = Outcome([known EXCEPT !.state = st, !.state_ret = "ok"], "ok")
        PROVE  /\ EntryOK(o.entry) /\ o.made = 0 /\ o.unmapped = FALSE
               /\ o.entry.mmaped = e.mmaped /\ "stat" \in o.entry.info
               /\ o.entry.state.size \in Nat
    <3> DEFINE f == [known EXCEPT !.state = st, !.state_ret = "ok"]
    <3>1. o.entry = f /\ o.made = 0 /\ o.unmapped = FALSE
      BY <2>3 DEF Outcome
    <3>2. st \in [known : BOOLEAN, reg : BOOLEAN, size : Nat] /\ st.known = TRUE
      BY SizesAssumption DEF Stats
    <3>3. /\ f \in IOEntries /\ f.state = st /\ f.info = known.info
          /\ f.mmaped = known.mmaped /\ f.mmaped_len = known.mmaped_len
          /\ f.mmap_fresh = known.mmap_fresh
      BY <2>1, <3>2 DEF IOEntries
    <3> HIDE DEF f
    <3>4. EntryOK(f)
      BY <2>1, <3>2, <3>3 DEF EntryOK
    <3> QED
      BY <2>1, <3>1, <3>2, <3>3, <3>4
  <2>4. ASSUME o = Outcome([known EXCEPT !.state_ret = "failed"], "deny")
        PROVE  /\ EntryOK(o.entry) /\ o.made = 0 /\ o.unmapped = FALSE
               /\ o.entry.mmaped = e.mmaped /\ "stat" \in o.entry.info
               /\ o.ret = "deny"
    <3> DEFINE f == [known EXCEPT !.state_ret = "failed"]
    <3>1. o.entry = f /\ o.made = 0 /\ o.unmapped = FALSE /\ o.ret = "deny"
      BY <2>4 DEF Outcome
    <3>2. /\ f \in IOEntries /\ f.state_ret = "failed" /\ f.info = known.info
          /\ f.mmaped = known.mmaped /\ f.mmaped_len = known.mmaped_len
          /\ f.mmap_fresh = known.mmap_fresh
      BY <2>1 DEF IOEntries
    <3> HIDE DEF f
    <3>3. EntryOK(f)
      BY <2>1, <3>2 DEF EntryOK
    <3> QED
      BY <2>1, <3>1, <3>2, <3>3
  <2> QED
    BY <2>2, <2>3, <2>4
<1> QED
  BY <1>2, <1>3

\* The error label of ioentry_update_mmap, of an entry whose map has expired.
LEMMA NoMapFacts ==
  ASSUME NEW e, EntryOK(e), ~e.mmap_fresh
  PROVE  EntryOK(NoMap(e)) /\ NoMap(e).mmaped = e.mmaped
<1> DEFINE f == NoMap(e)
<1>1. /\ f \in IOEntries /\ f.info = e.info \ {"mmap"} /\ f.state = e.state
      /\ f.state_ret = e.state_ret /\ f.stat_fresh = e.stat_fresh
      /\ f.mmaped = e.mmaped /\ f.mmaped_len = e.mmaped_len
      /\ f.mmap_fresh = e.mmap_fresh
  BY DEF NoMap, EntryOK, IOEntries
<1> HIDE DEF f
<1>2. EntryOK(f)
  BY <1>1 DEF EntryOK
<1> QED
  BY <1>1, <1>2 DEF f

\* munmap and mmap.
LEMMA MapFileFacts ==
  ASSUME NEW e, EntryOK(e), ~e.mmap_fresh, "stat" \in e.info,
         e.state.size \in MinFileSize..MaxFileSize, NEW o \in MapFile(e)
  PROVE  Updated(e, o)
<1> DEFINE mapped == [e EXCEPT !.mmaped = "map", !.mmaped_len = e.state.size,
                               !.mmap_fresh = TRUE, !.info = @ \cup {"mmap"}]
           failed == [e EXCEPT !.mmaped = "failed", !.mmaped_len = 0]
           before == IF e.mmaped = "map" THEN 1 ELSE 0
<1>1. e \in IOEntries
  BY DEF EntryOK
<1>2. EntryOK(mapped) /\ mapped.mmaped = "map"
  <2>1. /\ mapped \in IOEntries /\ mapped.info = e.info \cup {"mmap"}
        /\ mapped.state = e.state /\ mapped.state_ret = e.state_ret
        /\ mapped.stat_fresh = e.stat_fresh /\ mapped.mmaped = "map"
        /\ mapped.mmaped_len = e.state.size /\ mapped.mmap_fresh = TRUE
    BY <1>1 DEF IOEntries
  <2> HIDE DEF mapped
  <2> QED
    BY <2>1 DEF EntryOK
<1>3. EntryOK(NoMap(failed)) /\ NoMap(failed).mmaped = "failed"
  <2> DEFINE f == NoMap(failed)
  <2>1. /\ f \in IOEntries /\ f.info = e.info \ {"mmap"} /\ f.state = e.state
        /\ f.state_ret = e.state_ret /\ f.stat_fresh = e.stat_fresh
        /\ f.mmaped = "failed" /\ f.mmap_fresh = e.mmap_fresh
    BY <1>1 DEF NoMap, IOEntries
  <2> HIDE DEF f
  <2>2. EntryOK(f)
    BY <2>1 DEF EntryOK
  <2> QED
    BY <2>1, <2>2 DEF f
<1>4. \/ o = [entry |-> mapped, ret |-> "ok", made |-> 1 - before, unmapped |-> before = 1]
      \/ o = [entry |-> NoMap(failed), ret |-> "failed", made |-> -before,
              unmapped |-> before = 1]
  BY DEF MapFile, Failures
<1> HIDE DEF mapped, failed
<1>5. before = CleanInfo(e) /\ before \in {0, 1} /\ (before = 1 <=> e.mmaped = "map")
  BY DEF CleanInfo
<1> HIDE DEF before
<1>6. CASE o = [entry |-> mapped, ret |-> "ok", made |-> 1 - before, unmapped |-> before = 1]
  <2>1. /\ o.entry = mapped /\ o.made = 1 - before /\ o.unmapped = (before = 1)
    BY <1>6
  <2>2. CleanInfo(o.entry) = 1
    BY <1>2, <2>1 DEF CleanInfo
  <2>3. EntryOK(o.entry) /\ o.entry.mmaped = "map"
    BY <1>2, <2>1
  <2>4. o.made = CleanInfo(o.entry) - CleanInfo(e)
    BY <1>5, <2>1, <2>2
  <2>5. o.unmapped \in BOOLEAN
    BY <2>1
  <2> QED
    BY <2>3, <2>4, <2>5, Zenon DEF Updated
<1>7. CASE o = [entry |-> NoMap(failed), ret |-> "failed", made |-> -before,
                unmapped |-> before = 1]
  <2>1. /\ o.entry = NoMap(failed) /\ o.made = -before /\ o.unmapped = (before = 1)
    BY <1>7
  <2>2. CleanInfo(o.entry) = 0
    BY <1>3, <2>1 DEF CleanInfo
  <2>3. EntryOK(o.entry)
    BY <1>3, <2>1
  <2>4. o.made = CleanInfo(o.entry) - CleanInfo(e)
    BY <1>5, <2>1, <2>2
  <2>5. o.unmapped \in BOOLEAN /\ (e.mmaped = "map" => o.unmapped = TRUE)
    BY <1>5, <2>1
  <2> QED
    BY <2>3, <2>4, <2>5, Zenon DEF Updated
<1> QED
  BY <1>4, <1>6, <1>7

\* ioentry_update_mmap
LEMMA MmapFacts ==
  ASSUME NEW e, EntryOK(e), "stat" \in e.info, NEW hasFd \in BOOLEAN,
         e.state.size \in MinFileSize..MaxFileSize, NEW o \in UpdateMmap(e, hasFd)
  PROVE  Updated(e, o)
<1>1. CASE e.mmap_fresh
  <2>1. o.entry = e /\ o.made = 0 /\ o.unmapped = FALSE
    BY <1>1 DEF UpdateMmap, Outcome
  <2> QED
    BY <2>1, MapLeft
<1>2. CASE ~e.mmap_fresh /\ ~e.state.reg
  <2>1. o.entry = NoMap(e) /\ o.made = 0 /\ o.unmapped = FALSE
    BY <1>2 DEF UpdateMmap, Outcome
  <2>2. EntryOK(NoMap(e)) /\ NoMap(e).mmaped = e.mmaped
    BY <1>2, NoMapFacts
  <2> QED
    BY <2>1, <2>2, MapLeft
<1>3. CASE ~e.mmap_fresh /\ e.state.reg
  <2> DEFINE f == [e EXCEPT !.stat_fresh = TRUE, !.state_ret = "failed"]
  <2>1. o \in MapFile(e) \/ o = Outcome(NoMap(f), "failed")
    BY <1>3 DEF UpdateMmap, Failures
  <2>2. CASE o \in MapFile(e)
    BY <1>3, <2>2, MapFileFacts
  <2>3. CASE o = Outcome(NoMap(f), "failed")
    <3>1. o.entry = NoMap(f) /\ o.made = 0 /\ o.unmapped = FALSE
      BY <2>3 DEF Outcome
    <3>2. /\ f \in IOEntries /\ f.info = e.info /\ f.state = e.state
          /\ f.state_ret = "failed" /\ f.mmaped = e.mmaped
          /\ f.mmaped_len = e.mmaped_len /\ f.mmap_fresh = e.mmap_fresh
      BY DEF EntryOK, IOEntries
    <3> HIDE DEF f
    <3>3. EntryOK(f)
      BY <3>2 DEF EntryOK
    <3>4. ~f.mmap_fresh
      BY <1>3, <3>2
    <3>5. EntryOK(NoMap(f)) /\ NoMap(f).mmaped = f.mmaped
      BY <3>3, <3>4, NoMapFacts
    <3> QED
      BY <3>1, <3>2, <3>5, MapLeft
  <2> QED
    BY <2>1, <2>2, <2>3
<1> QED
  BY <1>1, <1>2, <1>3

\* entry_update_fd; an update that is refused changes nothing.
LEMMA UpdateFacts ==
  ASSUME NEW e, EntryOK(e), NEW refs, NEW info \in Infos, NEW hasFd \in BOOLEAN,
         NEW o \in UpdateFd(e, refs, info, hasFd)
  PROVE  Updated(e, o) /\ (UpdateRefused(e, refs) => ~o.unmapped)
<1>1. CASE UpdateRefused(e, refs)
  <2>1. o = Outcome(e, "ok_and_sent")
    BY <1>1 DEF UpdateFd
  <2>2. o.entry = e /\ o.made = 0 /\ o.unmapped = FALSE
    BY <2>1 DEF Outcome
  <2> QED
    BY <2>2, MapLeft
<1>2. CASE ~UpdateRefused(e, refs) /\ info = {"stat"}
  <2>1. o \in {[x EXCEPT !.ret = "ok"] : x \in UpdateStat(e)}
    BY <1>2 DEF UpdateFd
  <2>2. PICK x \in UpdateStat(e) : o = [x EXCEPT !.ret = "ok"]
    BY <2>1
  <2>3. /\ EntryOK(x.entry) /\ x.made = 0 /\ x.unmapped = FALSE
        /\ x.entry.mmaped = e.mmaped
    BY StatFacts
  <2>4. o.entry = x.entry /\ o.made = x.made /\ o.unmapped = x.unmapped
    <3>1. \E f, r : x = Outcome(f, r)
      BY DEF UpdateStat
    <3> QED
      BY <2>2, <3>1 DEF Outcome
  <2> QED
    BY <1>2, <2>3, <2>4, MapLeft
<1>3. CASE ~UpdateRefused(e, refs) /\ info # {"stat"}
  <2> DEFINE withMap(x) ==
               IF x.ret = "deny" THEN {x}
               ELSE IF x.entry.state.size < MinFileSize \/ x.entry.state.size > MaxFileSize
               THEN {[x EXCEPT !.ret = "no_sys"]}
               ELSE UpdateMmap(x.entry, hasFd)
  <2>1. info = {"stat", "mmap"}
    BY <1>3 DEF Infos
  <2>2. o \in UNION {withMap(x) : x \in UpdateStat(e)}
    BY <1>3, <2>1 DEF UpdateFd
  <2>3. PICK x \in UpdateStat(e) : o \in withMap(x)
    BY <2>2
  <2>4. /\ EntryOK(x.entry) /\ x.made = 0 /\ x.unmapped = FALSE
        /\ x.entry.mmaped = e.mmaped /\ "stat" \in x.entry.info
        /\ x.ret # "deny" => x.entry.state.size \in Nat
    BY StatFacts
  <2>5. CleanInfo(x.entry) = CleanInfo(e)
    BY <2>4 DEF CleanInfo
  <2>6. CASE o.entry = x.entry /\ o.made = x.made /\ o.unmapped = x.unmapped
    BY <1>3, <2>4, <2>6, MapLeft
  <2>7. CASE /\ x.ret # "deny" /\ o \in UpdateMmap(x.entry, hasFd)
             /\ ~(x.entry.state.size < MinFileSize \/ x.entry.state.size > MaxFileSize)
    <3>1. x.entry.state.size \in MinFileSize..MaxFileSize
      BY <2>4, <2>7, LimitsAssumption
    <3>2. Updated(x.entry, o)
      BY <2>4, <2>7, <3>1, MmapFacts
    <3> QED
      BY <1>3, <2>4, <2>5, <3>2 DEF Updated
  <2>8. \/ o = x
        \/ o = [x EXCEPT !.ret = "no_sys"]
        \/ /\ x.ret # "deny" /\ o \in UpdateMmap(x.entry, hasFd)
           /\ ~(x.entry.state.size < MinFileSize \/ x.entry.state.size > MaxFileSize)
    BY <2>3
  <2>9. ASSUME o = [x EXCEPT !.ret = "no_sys"]
        PROVE  o.entry = x.entry /\ o.made = x.made /\ o.unmapped = x.unmapped
    <3>1. \E f, r : x = Outcome(f, r)
      BY DEF UpdateStat
    <3> QED
      BY <2>9, <3>1 DEF Outcome
  <2> QED
    BY <2>6, <2>7, <2>8, <2>9
<1> QED
  BY <1>1, <1>2, <1>3

-----------------------------------------------------------------------------
(* The inductive invariant. *)

\* A client that works with a map has the entry, and the entry has the map.
UsersHaveMap ==
  \A c \in Clients : using[c] = "mapped" => held[c] = File /\ ioentry.mmaped = "map"

IOInv ==
  /\ CacheInv
  /\ \A c \in Clients : held[c] \in {File, NoKey}
  /\ todo \in [Clients -> BOOLEAN]
  /\ using \in [Clients -> {"none", "mapped", "gone"}]
  /\ EntryOK(ioentry)
  /\ MapsAccounted
  /\ UsersHaveMap

\* A client's reference keeps the entry in the AVL.
LEMMA HeldMapped ==
  ASSUME CacheInv, NEW c \in Clients, held[c] \in Keys
  PROVE  held[c] \in cache.map
<1>1. Linked(cache) /\ Owned(cache, UsersOf(held))
  BY DEF CacheInv, Sound
<1>2. UsersOf(held)[held[c]] \in Nat /\ UsersOf(held)[held[c]] >= 1
  BY UsersType, HeldUsed
<1>3. /\ cache.ref_count[held[c]] =
           UsersOf(held)[held[c]] + (IF cache.in_list[held[c]] = "no_list" THEN 0 ELSE 1)
      /\ held[c] \in cache.map <=> cache.ref_count[held[c]] > 0
  BY <1>1 DEF Owned
<1> QED
  BY <1>2, <1>3

\* Two clients and the cache: the entry has three references.
LEMMA SharedRefs ==
  ASSUME CacheInv, NEW c \in Clients, NEW d \in Clients, c # d,
         held[c] = File, held[d] = File, cache.in_list[File] \in Lists
  PROVE  cache.ref_count[File] > 2
<1> DEFINE H == HoldersIn(held, File)
<1>1. IsFiniteSet(H) /\ UsersOf(held)[File] = Cardinality(H)
  BY FileAssumption, UsersType
<1>2. c \in H /\ d \in H
  BY DEF HoldersIn
<1> HIDE DEF H
<1>3. IsFiniteSet(H \ {c}) /\ Cardinality(H \ {c}) = Cardinality(H) - 1
  BY <1>1, <1>2, FS_RemoveElement
<1>4. d \in H \ {c}
  BY <1>2
<1>5. Cardinality(H \ {c}) # 0
  BY <1>3, <1>4, FS_EmptySet
<1>6. Cardinality(H) \in Nat /\ Cardinality(H \ {c}) \in Nat
  BY <1>1, <1>3, FS_CardinalityType
<1>7. Cardinality(H) >= 2
  BY <1>3, <1>5, <1>6
<1>8. cache.ref_count[File] = UsersOf(held)[File] + 1
  BY FileAssumption DEF CacheInv, Sound, Owned, Lists
<1> QED
  BY <1>1, <1>6, <1>7, <1>8

\* The initial state.
LEMMA IOInitOK == IOInit => IOInv
<1> SUFFICES ASSUME IOInit PROVE IOInv
  OBVIOUS
<1>1. CacheInv
  BY CacheInit DEF IOInit
<1>2. cache.map = {} /\ held = [c \in Clients |-> NoKey]
  BY DEF IOInit, Init
<1>3. EntryOK(ioentry)
  <2>1. NewIOEntry \in IOEntries
    BY DEF NewIOEntry, IOEntries
  <2> QED
    BY <2>1 DEF IOInit, NewIOEntry, EntryOK
<1>4. /\ todo = [c \in Clients |-> FALSE] /\ using = [c \in Clients |-> "none"]
      /\ maps = 0
  BY DEF IOInit
<1>5. MapsAccounted
  BY <1>2, <1>4 DEF MapsAccounted
<1>6. UsersHaveMap
  BY <1>4 DEF UsersHaveMap
<1> QED
  BY <1>1, <1>2, <1>3, <1>4, <1>5, <1>6 DEF IOInv

\* The entry after a step of the cache: a client that still has it after the
\* step finds it as it was.
LEMMA EntryFollowsFacts ==
  ASSUME IOInv, CacheInv', EntryFollows
  PROVE  /\ EntryOK(ioentry') /\ MapsAccounted'
         /\ \A c \in Clients : held[c] = File /\ held'[c] = File => ioentry' = ioentry
<1>1. EntryOK(ioentry)
  BY DEF IOInv
<1>2. EntryOK(NewIOEntry) /\ NewIOEntry.mmaped = "null"
  <2>1. NewIOEntry \in IOEntries
    BY DEF NewIOEntry, IOEntries
  <2> QED
    BY <2>1 DEF NewIOEntry, EntryOK
<1>3. /\ ioentry' = IF File \in cache.map /\ File \in cache'.map THEN ioentry ELSE NewIOEntry
      /\ maps' = IF File \in cache.map /\ File \notin cache'.map
                 THEN maps - CleanInfo(ioentry) ELSE maps
  BY DEF EntryFollows
<1>4. maps = IF File \in cache.map /\ ioentry.mmaped = "map" THEN 1 ELSE 0
  BY DEF IOInv, MapsAccounted
<1>5. EntryOK(ioentry')
  BY <1>1, <1>2, <1>3
<1>6. maps' = IF File \in cache'.map /\ ioentry'.mmaped = "map" THEN 1 ELSE 0
  BY <1>2, <1>3, <1>4 DEF CleanInfo
<1>7. ASSUME NEW c \in Clients, held[c] = File, held'[c] = File
      PROVE  ioentry' = ioentry
  <2>1. File \in cache.map
    BY <1>7, FileAssumption, HeldMapped DEF IOInv
  <2>2. File \in cache'.map
    <3>1. /\ Linked(cache') /\ Owned(cache', UsersOf(held'))
      BY DEF CacheInv, Sound
    <3>2. UsersOf(held')[File] \in Nat /\ UsersOf(held')[File] >= 1
      BY <1>7, FileAssumption, UsersType, HeldUsed
    <3>3. /\ cache'.ref_count[File] =
               UsersOf(held')[File] + (IF cache'.in_list[File] = "no_list" THEN 0 ELSE 1)
          /\ File \in cache'.map <=> cache'.ref_count[File] > 0
      BY <3>1, FileAssumption DEF Owned
    <3> QED
      BY <3>2, <3>3
  <2> QED
    BY <1>3, <2>1, <2>2
<1> QED
  BY <1>5, <1>6, <1>7 DEF MapsAccounted

\* A client that gets another file and releases it at once leaves the cache as
\* sound as before.
LEMMA GetOtherSound ==
  ASSUME CacheInv, \A c \in Clients : held[c] \in {File, NoKey},
         NEW k \in Keys \ {File}, GetOther(k)
  PROVE  CacheInv'
<1> DEFINE users == UsersOf(held)
           more  == More(users, k)
           got   == IF k \in cache.map THEN Ref(UpdateCache(cache, k, TRUE), k)
                    ELSE Created(OnNewAdded(cache), k)
<1>1. /\ ~cache.segv /\ cache' = IF got.segv THEN got ELSE Unref(got, k)
      /\ held' = held /\ relisted' = relisted
  BY DEF GetOther
<1>2. users \in [Keys -> Nat]
  BY UsersType
<1>3. users[k] = 0
  <2>1. HoldersIn(held, k) = {}
    BY KeysAssumption DEF HoldersIn
  <2> QED
    BY <2>1, UsersType, FS_EmptySet
<1>4. Linked(cache) /\ Owned(cache, users)
  BY DEF CacheInv, Sound
<1>5. Bounded
  BY DEF CacheInv
<1>6. held \in [Clients -> Keys \cup {NoKey}] /\ relisted \in BOOLEAN
  BY DEF CacheInv, Sound
<1> HIDE DEF users
<1>7. more \in [Keys -> Nat] /\ more[k] >= 1 /\ Less(more, k) = users
  <2>1. more \in [Keys -> Nat] /\ more[k] = 1
    BY <1>2, <1>3 DEF More
  <2>2. \A j \in Keys : Less(more, k)[j] = users[j]
    BY <1>2, <1>3 DEF More, Less
  <2>3. Less(more, k) = [j \in Keys |-> Less(more, k)[j]]
    BY <2>1 DEF Less
  <2>4. users = [j \in Keys |-> users[j]]
    BY <1>2
  <2> QED
    BY <2>1, <2>2, <2>3, <2>4
<1>8. ASSUME got.segv, Linked(got), Owned(got, users), ~(MaxSize > 0 /\ ~relisted)
      PROVE  CacheInv'
  BY <1>1, <1>6, <1>8 DEF CacheInv, Sound, Bounded, users
<1>9. ASSUME ~got.segv, Linked(got), Owned(got, more),
             MaxSize > 0 /\ ~relisted => Within(got)
      PROVE  CacheInv'
  <2> HIDE DEF more, got
  <2> DEFINE t == Unref(got, k)
  <2>1. Linked(t) /\ Owned(t, Less(more, k)) /\ t.len = got.len /\ t.segv = got.segv
    BY <1>7, <1>9, ReleaseFacts
  <2>2. cache' = t
    BY <1>1, <1>9
  <2> HIDE DEF t
  <2>3. Sound'
    BY <1>1, <1>6, <1>7, <2>1, <2>2 DEF Sound, users
  <2>4. Bounded'
    BY <1>1, <1>9, <2>1, <2>2 DEF Bounded, Within
  <2> QED
    BY <2>3, <2>4 DEF CacheInv
<1>10. CASE k \in cache.map
  <2>1. cache.in_list[k] \in Lists
    <3>1. /\ cache.ref_count[k] = users[k] + (IF cache.in_list[k] = "no_list" THEN 0 ELSE 1)
          /\ cache.ref_count[k] > 0
      BY <1>4, <1>10 DEF Owned
    <3>2. cache.in_list[k] \in Lists \cup {"no_list"}
      BY <1>4 DEF Linked, State
    <3> QED
      BY <1>3, <3>1, <3>2
  <2> DEFINE g == Ref(UpdateCache(cache, k, TRUE), k)
  <2>2. /\ Linked(g) /\ Owned(g, more) /\ g.segv = cache.segv
        /\ ~cache.segv /\ Within(cache) /\ MaxSize > 0 => Within(g)
    BY <1>2, <1>4, <2>1, HitFacts
  <2>3. got = g
    BY <1>10
  <2> HIDE DEF g, got, more
  <2>4. MaxSize > 0 /\ ~relisted => Within(got)
    BY <1>1, <1>5, <2>2, <2>3 DEF Bounded
  <2> QED
    BY <1>1, <1>9, <2>2, <2>3, <2>4
<1>11. CASE k \notin cache.map
  <2> DEFINE o == OnNewAdded(cache)
  <2>1. /\ Kept(cache, o, users)
        /\ MaxSize > 0 /\ ~relisted => HasRoom(o) /\ ~o.segv
    BY <1>1, RoomMade DEF users
  <2>2. got = Created(o, k)
    BY <1>11
  <2> HIDE DEF o, got, more
  <2>3. Linked(o) /\ Owned(o, users) /\ k \notin o.map
    BY <1>11, <2>1 DEF Kept
  <2>4. CASE o.segv
    <3>1. got = o
      BY <2>2, <2>4 DEF Created
    <3> QED
      BY <1>8, <2>1, <2>3, <2>4, <3>1
  <2>5. CASE ~o.segv
    <3>1. /\ Linked(got) /\ Owned(got, More(users, k)) /\ ~got.segv
          /\ HasRoom(o) => Within(got)
      BY <1>2, <2>2, <2>3, <2>5, CreatedFacts
    <3> QED
      BY <1>9, <2>1, <3>1 DEF more
  <2> QED
    BY <2>4, <2>5
<1> QED
  BY <1>10, <1>11

-----------------------------------------------------------------------------
(* The steps. *)

\* http2d_iocache_autoget[_fd] of an entry that is not a ghost.
LEMMA AutogetNewKeeps ==
  ASSUME IOInv, NEW c \in Clients, AutogetNew(c)
  PROVE  IOInv'
<1>1. CacheInv /\ held \in [Clients -> Keys \cup {NoKey}]
  BY DEF IOInv, CacheInv, Sound
<1>2. CacheInv'
  <2>1. CASE GetListed(c, File, TRUE)
    BY <1>1, <2>1, FileAssumption, GetListedKeeps
  <2>2. CASE GetLingering(c, File)
    BY <1>1, <2>2, FileAssumption, GetLingeringKeeps
  <2>3. CASE GetMiss(c, File)
    BY <1>1, <2>3, FileAssumption, GetMissKeeps
  <2>4. CASE GetNoMemory(c, File)
    BY <1>1, <2>4, FileAssumption, GetNoMemoryKeeps
  <2> QED
    BY <2>1, <2>2, <2>3, <2>4 DEF AutogetNew
<1>3. held[c] = NoKey /\ (held' = held \/ held' = [held EXCEPT ![c] = File])
  BY DEF AutogetNew, GetListed, GetLingering, GetMiss, GetNoMemory
<1>4. /\ EntryFollows /\ using' = using
      /\ todo' = [todo EXCEPT ![c] = (held'[c] = File)]
  BY DEF AutogetNew
<1>5. /\ EntryOK(ioentry') /\ MapsAccounted'
      /\ \A d \in Clients : held[d] = File /\ held'[d] = File => ioentry' = ioentry
  BY <1>2, <1>4, EntryFollowsFacts
<1>6. UsersHaveMap'
  <2> SUFFICES ASSUME NEW d \in Clients, using[d] = "mapped"
               PROVE  held'[d] = File /\ ioentry'.mmaped = "map"
    BY <1>4 DEF UsersHaveMap
  <2>1. held[d] = File /\ ioentry.mmaped = "map"
    BY DEF IOInv, UsersHaveMap
  <2>2. held'[d] = File
    BY <1>1, <1>3, <2>1
  <2> QED
    BY <1>5, <2>1, <2>2
<1>7. \A d \in Clients : held'[d] \in {File, NoKey}
  BY <1>1, <1>3 DEF IOInv
<1>8. todo' \in [Clients -> BOOLEAN] /\ using' \in [Clients -> {"none", "mapped", "gone"}]
  BY <1>4 DEF IOInv
<1> QED
  BY <1>2, <1>5, <1>6, <1>7, <1>8 DEF IOInv

\* What an update does to the clients' maps.
LEMMA UsingFacts ==
  ASSUME IOInv, NEW c \in Clients
  PROVE  /\ Lost(c) \in [Clients -> {"none", "mapped", "gone"}]
         /\ \A d \in Clients : d # c => Lost(c)[d] # "mapped"
BY DEF IOInv, Lost

\* ... of a ghost.
LEMMA AutogetGhostKeeps ==
  ASSUME IOInv, NEW c \in Clients, AutogetGhost(c)
  PROVE  IOInv'
<1>1. CacheInv /\ held \in [Clients -> Keys \cup {NoKey}] /\ EntryOK(ioentry)
  BY DEF IOInv, CacheInv, Sound
<1>2. GetListed(c, File, TRUE)
  BY DEF AutogetGhost
<1>3. CacheInv'
  BY <1>1, <1>2, FileAssumption, GetListedKeeps
<1>4. held[c] = NoKey /\ held' = [held EXCEPT ![c] = File] /\ File \in cache.map
  BY <1>2 DEF GetListed
<1>5. PICK o \in UpdateFd(ioentry, cache.ref_count[File], {"stat", "mmap"}, FALSE) :
        /\ ioentry' = o.entry
        /\ maps' = maps + o.made
        /\ using' = IF o.unmapped THEN Lost(c) ELSE using
  BY DEF AutogetGhost
<1>6. Updated(ioentry, o)
  BY <1>1, UpdateFacts DEF Infos
<1>7. File \in cache'.map
  <2>1. Linked(cache') /\ Owned(cache', UsersOf(held'))
    BY <1>3 DEF CacheInv, Sound
  <2>2. held'[c] = File
    BY <1>1, <1>4
  <2>3. UsersOf(held')[File] \in Nat /\ UsersOf(held')[File] >= 1
    BY <2>2, FileAssumption, UsersType, HeldUsed
  <2>4. /\ cache'.ref_count[File] =
             UsersOf(held')[File] + (IF cache'.in_list[File] = "no_list" THEN 0 ELSE 1)
        /\ File \in cache'.map <=> cache'.ref_count[File] > 0
    BY <2>1, FileAssumption DEF Owned
  <2> QED
    BY <2>3, <2>4
<1>8. MapsAccounted'
  <2>1. maps = CleanInfo(ioentry)
    BY <1>4 DEF IOInv, MapsAccounted, CleanInfo
  <2>2. o.made = CleanInfo(ioentry') - CleanInfo(ioentry)
    BY <1>5, <1>6 DEF Updated
  <2>3. CleanInfo(ioentry) \in {0, 1} /\ CleanInfo(ioentry') \in {0, 1}
    BY DEF CleanInfo
  <2>4. maps' = CleanInfo(ioentry')
    BY <1>5, <2>1, <2>2, <2>3
  <2> QED
    BY <1>7, <2>4 DEF MapsAccounted, CleanInfo
<1>9. using' \in [Clients -> {"none", "mapped", "gone"}]
  BY <1>5, UsingFacts DEF IOInv
<1>10. UsersHaveMap'
  <2> SUFFICES ASSUME NEW d \in Clients, using'[d] = "mapped"
               PROVE  held'[d] = File /\ ioentry'.mmaped = "map"
    BY DEF UsersHaveMap
  <2>1. using[d] = "mapped"
    BY <1>5 DEF Lost
  <2>2. held[d] = File /\ ioentry.mmaped = "map"
    BY <2>1 DEF IOInv, UsersHaveMap
  <2>3. d # c
    BY <1>4, <2>2, FileAssumption, KeysAssumption
  <2>4. ~o.unmapped
    BY <1>5, <2>3, UsingFacts
  <2>5. ioentry'.mmaped = "map"
    BY <1>5, <1>6, <2>2, <2>4 DEF Updated
  <2> QED
    BY <1>1, <1>4, <2>2, <2>5
<1>11. \A d \in Clients : held'[d] \in {File, NoKey}
  BY <1>1, <1>4 DEF IOInv
<1>12. todo' \in [Clients -> BOOLEAN]
  BY DEF IOInv, AutogetGhost
<1>13. EntryOK(ioentry')
  BY <1>5, <1>6 DEF Updated
<1> QED
  BY <1>3, <1>8, <1>9, <1>10, <1>11, <1>12, <1>13 DEF IOInv

\* An update of an entry that the client has.
LEMMA UpdateKeeps ==
  ASSUME IOInv, NEW c \in Clients, NEW info \in Infos, NEW hasFd \in BOOLEAN,
         Update(c, info, hasFd)
  PROVE  IOInv'
<1>1. CacheInv /\ EntryOK(ioentry)
  BY DEF IOInv
<1>2. /\ held[c] = File /\ cache' = cache /\ held' = held /\ relisted' = relisted
      /\ todo' = [todo EXCEPT ![c] = FALSE]
  BY DEF Update, vars
<1>3. PICK o \in UpdateFd(ioentry, cache.ref_count[File], info, hasFd) :
        /\ ioentry' = o.entry
        /\ maps' = maps + o.made
        /\ using' = [(IF o.unmapped THEN Lost(c) ELSE using) EXCEPT
                       ![c] = IF /\ "mmap" \in info
                                 /\ o.ret \in {"ok", "ok_and_sent"}
                                 /\ "mmap" \in o.entry.info
                              THEN "mapped" ELSE IF o.unmapped THEN "none" ELSE @]
  BY DEF Update
<1>4. Updated(ioentry, o)
  BY <1>1, UpdateFacts
<1>5. CacheInv'
  BY <1>1, <1>2 DEF CacheInv, Sound, Bounded
<1>6. File \in cache.map
  BY <1>1, <1>2, FileAssumption, HeldMapped
<1>7. MapsAccounted'
  <2>1. maps = CleanInfo(ioentry)
    BY <1>6 DEF IOInv, MapsAccounted, CleanInfo
  <2>2. o.made = CleanInfo(ioentry') - CleanInfo(ioentry)
    BY <1>3, <1>4 DEF Updated
  <2>3. CleanInfo(ioentry) \in {0, 1} /\ CleanInfo(ioentry') \in {0, 1}
    BY DEF CleanInfo
  <2>4. maps' = CleanInfo(ioentry')
    BY <1>3, <2>1, <2>2, <2>3
  <2> QED
    BY <1>2, <1>6, <2>4 DEF MapsAccounted, CleanInfo
<1> DEFINE before == IF o.unmapped THEN Lost(c) ELSE using
           own    == IF /\ "mmap" \in info
                        /\ o.ret \in {"ok", "ok_and_sent"}
                        /\ "mmap" \in o.entry.info
                     THEN "mapped" ELSE IF o.unmapped THEN "none" ELSE before[c]
<1>8. before \in [Clients -> {"none", "mapped", "gone"}]
  BY UsingFacts DEF IOInv
<1>9. using' = [before EXCEPT ![c] = own]
  BY <1>3, <1>8
<1>10. own \in {"none", "mapped", "gone"}
  BY <1>8
<1>11. EntryOK(ioentry')
  BY <1>3, <1>4 DEF Updated
<1>12. ASSUME NEW d \in Clients, using'[d] = "mapped"
       PROVE  held'[d] = File /\ ioentry'.mmaped = "map"
  <2>1. CASE d = c
    <3>1. held'[d] = File
      BY <1>2, <2>1
    <3>2. CASE "mmap" \in o.entry.info
      BY <1>3, <1>11, <3>1, <3>2 DEF EntryOK
    <3>3. CASE "mmap" \notin o.entry.info
      <4>1. using'[c] = own
        BY <1>8, <1>9
      <4>2. ~o.unmapped
        BY <1>12, <2>1, <3>3, <4>1
      <4>3. using[c] = "mapped"
        BY <1>12, <2>1, <3>3, <4>1, <4>2
      <4>4. ioentry.mmaped = "map"
        BY <4>3 DEF IOInv, UsersHaveMap
      <4> QED
        BY <1>3, <1>4, <3>1, <4>2, <4>4 DEF Updated
    <3> QED
      BY <3>2, <3>3
  <2>2. CASE d # c
    <3>1. before[d] = "mapped"
      BY <1>8, <1>9, <1>12, <2>2
    <3>2. ~o.unmapped
      BY <2>2, <3>1, UsingFacts
    <3>3. using[d] = "mapped"
      BY <3>1, <3>2
    <3>4. held[d] = File /\ ioentry.mmaped = "map"
      BY <3>3 DEF IOInv, UsersHaveMap
    <3> QED
      BY <1>2, <1>3, <1>4, <3>2, <3>4 DEF Updated
  <2> QED
    BY <2>1, <2>2
<1>13. UsersHaveMap'
  BY <1>12 DEF UsersHaveMap
<1>14. using' \in [Clients -> {"none", "mapped", "gone"}]
  <2> HIDE DEF before, own
  <2> QED
    BY <1>8, <1>9, <1>10
<1>15. todo' \in [Clients -> BOOLEAN] /\ \A d \in Clients : held'[d] \in {File, NoKey}
  BY <1>2 DEF IOInv
<1> QED
  BY <1>5, <1>7, <1>11, <1>13, <1>14, <1>15 DEF IOInv

\* Another file.
LEMMA GetOtherKeeps ==
  ASSUME IOInv, NEW k \in Keys \ {File}, GetOther(k)
  PROVE  IOInv'
<1>1. CacheInv'
  <2>1. CacheInv /\ \A c \in Clients : held[c] \in {File, NoKey}
    BY DEF IOInv
  <2> QED
    BY <2>1, GetOtherSound
<1>2. EntryFollows /\ held' = held /\ todo' = todo /\ using' = using
  BY DEF GetOther
<1>3. /\ EntryOK(ioentry') /\ MapsAccounted'
      /\ \A d \in Clients : held[d] = File /\ held'[d] = File => ioentry' = ioentry
  BY <1>1, <1>2, EntryFollowsFacts
<1>4. UsersHaveMap'
  BY <1>2, <1>3 DEF IOInv, UsersHaveMap
<1> QED
  BY <1>1, <1>2, <1>3, <1>4 DEF IOInv

\* http2d_iocache_entry_unref
LEMMA IOEntryUnrefKeeps ==
  ASSUME IOInv, NEW c \in Clients, IOEntryUnref(c)
  PROVE  IOInv'
<1>1. CacheInv /\ held \in [Clients -> Keys \cup {NoKey}]
  BY DEF IOInv, CacheInv, Sound
<1>2. CacheInv'
  BY <1>1, EntryUnrefKeeps DEF IOEntryUnref
<1>3. /\ EntryFollows /\ held' = [held EXCEPT ![c] = NoKey] /\ todo' = todo
      /\ using' = [using EXCEPT ![c] = "none"]
  BY DEF IOEntryUnref, EntryUnref
<1>4. /\ EntryOK(ioentry') /\ MapsAccounted'
      /\ \A d \in Clients : held[d] = File /\ held'[d] = File => ioentry' = ioentry
  BY <1>2, <1>3, EntryFollowsFacts
<1>5. using \in [Clients -> {"none", "mapped", "gone"}] /\ todo \in [Clients -> BOOLEAN]
  BY DEF IOInv
<1>6. ASSUME NEW d \in Clients, using'[d] = "mapped"
      PROVE  held'[d] = File /\ ioentry'.mmaped = "map"
  <2>1. d # c /\ using[d] = "mapped"
    BY <1>3, <1>5, <1>6
  <2>2. held[d] = File /\ ioentry.mmaped = "map"
    BY <2>1 DEF IOInv, UsersHaveMap
  <2>3. held'[d] = File
    BY <1>1, <1>3, <2>1, <2>2
  <2> QED
    BY <1>4, <2>2, <2>3
<1>7. \A d \in Clients : held'[d] \in {File, NoKey}
  BY <1>1, <1>3 DEF IOInv
<1> QED
  BY <1>2, <1>3, <1>4, <1>5, <1>6, <1>7 DEF IOInv, UsersHaveMap

\* The clock.
LEMMA ExpireKeeps ==
  ASSUME IOInv, Expire
  PROVE  IOInv'
<1>1. EntryOK(ioentry) /\ CacheInv
  BY DEF IOInv
<1>2. PICK s \in BOOLEAN, m \in BOOLEAN :
        ioentry' = [ioentry EXCEPT !.stat_fresh = @ /\ s, !.mmap_fresh = @ /\ m]
  BY DEF Expire
<1>3. /\ cache' = cache /\ held' = held /\ relisted' = relisted /\ todo' = todo
      /\ using' = using /\ maps' = maps
  BY DEF Expire
<1>4. ioentry \in IOEntries
  BY <1>1 DEF EntryOK
<1>5. /\ ioentry' \in IOEntries
      /\ ioentry'.info = ioentry.info /\ ioentry'.state = ioentry.state
      /\ ioentry'.state_ret = ioentry.state_ret /\ ioentry'.mmaped = ioentry.mmaped
      /\ ioentry'.mmaped_len = ioentry.mmaped_len
      /\ ioentry'.stat_fresh => ioentry.stat_fresh
      /\ ioentry'.mmap_fresh => ioentry.mmap_fresh
  BY <1>2, <1>4 DEF IOEntries
<1>6. EntryOK(ioentry')
  BY <1>1, <1>5 DEF EntryOK
<1>7. CacheInv'
  BY <1>1, <1>3 DEF CacheInv, Sound, Bounded
<1> QED
  BY <1>3, <1>5, <1>6, <1>7 DEF IOInv, MapsAccounted, UsersHaveMap

-----------------------------------------------------------------------------
(* What the runs check. *)

\* The inductive invariant, over every interleaving of the clients' gets,
\* updates and releases, with the clock running.
THEOREM IOInvariance == IOSpec => []IOInv
<1>1. IOInv /\ [IONext]_allVars => IOInv'
  <2> SUFFICES ASSUME IOInv, [IONext]_allVars PROVE IOInv'
    OBVIOUS
  <2>1. CASE UNCHANGED allVars
    BY <2>1 DEF allVars, IOInv, CacheInv, Sound, Bounded, MapsAccounted, UsersHaveMap
  <2>2. CASE Expire
    BY <2>2, ExpireKeeps
  <2>3. ASSUME NEW k \in Keys \ {File}, GetOther(k) PROVE IOInv'
    BY <2>3, GetOtherKeeps
  <2>4. ASSUME NEW c \in Clients, AutogetNew(c) PROVE IOInv'
    BY <2>4, AutogetNewKeeps
  <2>5. ASSUME NEW c \in Clients, AutogetGhost(c) PROVE IOInv'
    BY <2>5, AutogetGhostKeeps
  <2>6. ASSUME NEW c \in Clients, NEW info \in Infos, NEW hasFd \in BOOLEAN,
               Update(c, info, hasFd)
        PROVE  IOInv'
    BY <2>6, UpdateKeeps
  <2>7. ASSUME NEW c \in Clients, IOEntryUnref(c) PROVE IOInv'
    BY <2>7, IOEntryUnrefKeeps
  <2> QED
    BY <2>1, <2>2, <2>3, <2>4, <2>5, <2>6, <2>7 DEF IONext
<1> QED
  BY <1>1, IOInitOK, PTL DEF IOSpec

\* Every mmap of a file is undone by one munmap.
THEOREM MapsAlwaysAccounted == IOSpec => []MapsAccounted
BY IOInvariance, PTL DEF IOInv

\* The short paths of ioentry_update_stat and ioentry_update_mmap answer with
\* information that is there.
THEOREM FreshAlwaysUsable == IOSpec => []FreshInfoUsable
<1>1. IOInv => FreshInfoUsable
  BY DEF IOInv, EntryOK, FreshInfoUsable
<1> QED
  BY <1>1, IOInvariance, PTL

\* An update takes the map from another client only where the cache does not
\* hold its reference yet or no longer: the entry is a ghost, or evicted.
THEOREM ResidentsKeepMaps == IOSpec => ResidentMapKept
<1>1. ASSUME IOInv, IONext, NEW d \in Clients,
             using[d] = "mapped", using'[d] = "gone"
      PROVE  cache.in_list[File] \in {"b1", "b2", "no_list"}
  <2>0. /\ using \in [Clients -> {"none", "mapped", "gone"}] /\ CacheInv
        /\ held[d] = File /\ ioentry.mmaped = "map" /\ EntryOK(ioentry)
    BY <1>1 DEF IOInv, UsersHaveMap
  <2>1. ASSUME NEW c \in Clients, AutogetGhost(c)
        PROVE  cache.in_list[File] \in {"b1", "b2", "no_list"}
    BY <2>1 DEF AutogetGhost
  <2>2. ASSUME NEW c \in Clients, NEW info \in Infos, NEW hasFd \in BOOLEAN,
               Update(c, info, hasFd)
        PROVE  cache.in_list[File] \in {"b1", "b2", "no_list"}
    <3>1. held[c] = File
      BY <2>2 DEF Update
    <3>2. PICK o \in UpdateFd(ioentry, cache.ref_count[File], info, hasFd) :
            using' = [(IF o.unmapped THEN Lost(c) ELSE using) EXCEPT
                        ![c] = IF /\ "mmap" \in info
                                  /\ o.ret \in {"ok", "ok_and_sent"}
                                  /\ "mmap" \in o.entry.info
                               THEN "mapped" ELSE IF o.unmapped THEN "none" ELSE @]
      BY <2>2 DEF Update
    <3> DEFINE before == IF o.unmapped THEN Lost(c) ELSE using
               own    == IF /\ "mmap" \in info
                            /\ o.ret \in {"ok", "ok_and_sent"}
                            /\ "mmap" \in o.entry.info
                         THEN "mapped" ELSE IF o.unmapped THEN "none" ELSE before[c]
    <3>10. before \in [Clients -> {"none", "mapped", "gone"}]
      BY <1>1, <2>0, UsingFacts
    <3>11. using' = [before EXCEPT ![c] = own]
      BY <3>2, <3>10
    <3>12. own = "gone" => using[c] # "mapped"
      OBVIOUS
    <3> HIDE DEF own
    <3>3. d # c
      BY <1>1, <3>10, <3>11, <3>12
    <3>4. o.unmapped
      BY <1>1, <2>0, <3>3, <3>10, <3>11
    <3>5. ~UpdateRefused(ioentry, cache.ref_count[File])
      BY <2>0, <3>4, UpdateFacts
    <3>6. ioentry.info # {}
      BY <2>0 DEF EntryOK
    <3>7. ~(cache.ref_count[File] > 2)
      BY <3>5, <3>6 DEF UpdateRefused
    <3>8. cache.in_list[File] \notin Lists
      BY <2>0, <3>1, <3>3, <3>7, SharedRefs
    <3>9. cache.in_list[File] \in Lists \cup {"no_list"}
      BY <2>0, FileAssumption DEF CacheInv, Sound, Linked, State
    <3> QED
      BY <3>8, <3>9
  <2>3. ASSUME NEW c \in Clients, AutogetNew(c) PROVE FALSE
    BY <1>1, <2>3 DEF AutogetNew
  <2>4. ASSUME NEW c \in Clients, IOEntryUnref(c) PROVE FALSE
    BY <1>1, <2>0, <2>4 DEF IOEntryUnref
  <2>5. ASSUME NEW k \in Keys, GetOther(k) PROVE FALSE
    BY <1>1, <2>5 DEF GetOther
  <2>6. CASE Expire
    BY <1>1, <2>6 DEF Expire
  <2> QED
    BY <1>1, <2>1, <2>2, <2>3, <2>4, <2>5, <2>6 DEF IONext
<1>2. IOInv /\ [IONext]_allVars =>
        [\A c \in Clients : using[c] = "mapped" /\ using'[c] = "gone" =>
                              cache.in_list[File] \in {"b1", "b2", "no_list"}]_allVars
  BY <1>1
<1> QED
  BY <1>2, IOInvariance, PTL DEF IOSpec, ResidentMapKept

=============================================================================
