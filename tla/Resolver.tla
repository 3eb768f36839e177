------------------------------- MODULE Resolver -------------------------------
(***************************************************************************)
(* The resolver cache of resolv_cache.c.  The process has one default       *)
(* resolver, which the first caller creates without a lock.  A caller looks *)
(* a name up under the reader's lock, resolves it with no lock held if it   *)
(* is missing, and adds what it found under the writer's lock.  Pointers    *)
(* into the entries are handed out, and nothing removes an entry: nobody    *)
(* calls http2d_resolv_cache_clean or _mrproper.                            *)
(***************************************************************************)
EXTENDS Integers, Sequences, FiniteSets

CONSTANTS
  Threads,
  Names,     \* domain names, up to the case of their letters
  MaxCalls   \* bound on the calls of a thread

VARIABLES
  __global_resolv,  \* the number of the default resolver, 0 for NULL
  tables,    \* tables[r][n]: the entry of n in resolver r, 0 if there is none
  entries,   \* the entries ever allocated: [name, resolv, freed]
  caller,    \* the calls in progress: [pc, resolv, domain, entry]
  answer,    \* answer[t]: the entry that t has a pointer into, 0 if none
  ncalls

vars == <<__global_resolv, tables, entries, caller, answer, ncalls>>

Idle(n) == [pc |-> "idle", resolv |-> 0, domain |-> n, entry |-> 0]

Init ==
  /\ __global_resolv = 0
  /\ tables = <<>> /\ entries = <<>>
  /\ caller = [t \in Threads |-> Idle(CHOOSE n \in Names : TRUE)]
  /\ answer = [t \in Threads |-> 0]
  /\ ncalls = [t \in Threads |-> 0]

Goto(t, pc) == caller' = [caller EXCEPT ![t].pc = pc]

\* http2d_resolv_cache_get_default: the test for NULL.
GetDefault(t, n) ==
  /\ caller[t].pc = "idle" /\ ncalls[t] < MaxCalls
  /\ caller' = [caller EXCEPT ![t] =
       [Idle(n) EXCEPT !.pc = IF __global_resolv = 0 THEN "create" ELSE "take"]]
  /\ ncalls' = [ncalls EXCEPT ![t] = @ + 1]
  /\ UNCHANGED <<__global_resolv, tables, entries, answer>>

\* ... and http2d_resolv_cache_init of a new one, which becomes the default.
CreateDefault(t) ==
  /\ caller[t].pc = "create"
  /\ tables' = Append(tables, [n \in Names |-> 0])
  /\ __global_resolv' = Len(tables')
  /\ Goto(t, "take")
  /\ UNCHANGED <<entries, answer, ncalls>>

\* *resolv = __global_resolv reads the variable again.
TakeDefault(t) ==
  /\ caller[t].pc = "take"
  /\ caller' = [caller EXCEPT ![t].resolv = __global_resolv, ![t].pc = "lookup"]
  /\ UNCHANGED <<__global_resolv, tables, entries, answer, ncalls>>

\* http2d_resolv_cache_get_ipstr, _get_addrinfo: the lookup.
Lookup(t) ==
  LET found == tables[caller[t].resolv][caller[t].domain]
  IN  /\ caller[t].pc = "lookup"
      /\ IF found # 0 THEN Goto(t, "idle") /\ answer' = [answer EXCEPT ![t] = found]
         ELSE Goto(t, "fill_up") /\ UNCHANGED answer
      /\ UNCHANGED <<__global_resolv, tables, entries, ncalls>>

\* The allocation of entry_new, with the outcome of entry_fill_up.
NewEntry(t, filled) ==
  Append(entries, [name |-> caller[t].domain, resolv |-> caller[t].resolv,
                   freed |-> ~filled])

\* entry_fill_up fails: the entry is freed.  (Its loop for ret_eagain is never
\* taken: http2d_gethostbyname answers ret_ok or ret_error.)
FillUpFails(t) ==
  /\ caller[t].pc = "fill_up"
  /\ entries' = NewEntry(t, FALSE)
  /\ Goto(t, "idle")
  /\ answer' = [answer EXCEPT ![t] = 0]
  /\ UNCHANGED <<__global_resolv, tables, ncalls>>

\* ... has the addresses.
FillUpDone(t) ==
  /\ caller[t].pc = "fill_up"
  /\ entries' = NewEntry(t, TRUE)
  /\ caller' = [caller EXCEPT ![t].entry = Len(entries'), ![t].pc = "add"]
  /\ UNCHANGED <<__global_resolv, tables, answer, ncalls>>

\* Mutant: the entry that did not get into the table is freed.
AddNewEntryFrees(t) ==
  LET me == caller[t]
      lost == tables[me.resolv][me.domain] # 0
  IN  /\ me.pc = "add"
      /\ tables' = IF lost THEN tables
                   ELSE [tables EXCEPT ![me.resolv][me.domain] = me.entry]
      /\ entries' = [entries EXCEPT ![me.entry].freed = lost]
      /\ answer' = [answer EXCEPT ![t] = me.entry]
      /\ Goto(t, "idle")
      /\ UNCHANGED <<__global_resolv, ncalls>>

\* table_add_new_entry: http2d_avl_add refuses a second entry of a name, which
\* is not looked at; the caller gets its own entry.
AddNewEntry(t) ==
  LET me == caller[t]
  IN  /\ me.pc = "add"
      /\ tables' = IF tables[me.resolv][me.domain] # 0 THEN tables
                   ELSE [tables EXCEPT ![me.resolv][me.domain] = me.entry]
      /\ answer' = [answer EXCEPT ![t] = me.entry]
      /\ Goto(t, "idle")
      /\ UNCHANGED <<__global_resolv, entries, ncalls>>

Next ==
  \E t \in Threads :
    \/ \E n \in Names : GetDefault(t, n)
    \/ CreateDefault(t) \/ TakeDefault(t) \/ Lookup(t)
    \/ FillUpFails(t) \/ FillUpDone(t) \/ AddNewEntry(t)

Spec == Init /\ [][Next]_vars

-----------------------------------------------------------------------------
(* Properties. *)

\* What a caller was given stays valid, whoever else resolved the name at the
\* same time and in whichever resolver: the entry is of the name it asked for
\* and is not freed, nor is one that a table leads to.
AnswersStay ==
  /\ \A t \in Threads :
       caller[t].pc = "idle" /\ answer[t] # 0 =>
         /\ entries[answer[t]].name = caller[t].domain
         /\ ~entries[answer[t]].freed
  /\ \A r \in 1..Len(tables), n \in Names :
       LET e == tables[r][n]
       IN  e # 0 => ~entries[e].freed /\ entries[e].name = n

\* The races of get_default and of table_add_new_entry lose memory, but only as
\* much as there are threads: at most one resolver for each, and in each
\* resolver at most one entry of a name for each.
LeaksBounded ==
  /\ Len(tables) <= Cardinality(Threads)
  /\ \A r \in 1..Len(tables), n \in Names :
       Cardinality({e \in 1..Len(entries) :
                      /\ entries[e].name = n /\ entries[e].resolv = r
                      /\ ~entries[e].freed}) <= Cardinality(Threads)

\* The callers race without a lock, and nobody gets anything but what it asked
\* for; what is lost is bounded.
RacesHarmless == AnswersStay /\ LeaksBounded
=============================================================================
