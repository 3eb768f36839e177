------------------------------- MODULE HttpText -------------------------------
(***************************************************************************)
(* The text scanners of util.c for requests: the end of a header, the       *)
(* arguments of a query string, a host with its port, and the part of a     *)
(* path behind a file.  A text is a sequence of characters over one of the  *)
(* Alphabets and arrives one character after the other; memory is counted   *)
(* from 0 and ends in NUL.                                                  *)
(***************************************************************************)
EXTENDS Integers, Sequences, SequencesExt, FiniteSets

CONSTANTS
  Alphabets,   \* sets of characters, each for one of the scanners
  MaxText,     \* bound on the length of a text
  MaxHeader    \* MAX_HEADER_LEN

ASSUME TextAssumption == MaxText \in Nat /\ MaxHeader \in Nat

CR  == "r"
LF  == "n"
NUL == "0"

\* A text has no NUL in it.
ASSUME AlphabetsAssumption == \A a \in Alphabets : NUL \notin a

VARIABLES alphabet, received

textVars == <<alphabet, received>>

NoArguments == [k \in {} |-> <<>>]

\* The first and the last of a set of positions, or otherwise.
First(set, otherwise) ==
  IF set = {} THEN otherwise ELSE CHOOSE i \in set : \A j \in set : i <= j
Final(set, otherwise) ==
  IF set = {} THEN otherwise ELSE CHOOSE i \in set : \A j \in set : j <= i

-----------------------------------------------------------------------------
(* http2d_find_header_end *)

\* Before the first character, and outside a run of CRs and LFs, begin is 0.
HeaderStart ==
  [ret |-> "not_found", end |-> 0, sep_len |-> 0, begin |-> 0, cr_n |-> 0, lf_n |-> 0]

\* Mutant: the counters go on from one run to the next.
NewRunKeepsCount(a, p) == [a EXCEPT !.begin = p]

\* The first CR or LF of a run.
NewRun(a, p) == [a EXCEPT !.begin = p, !.cr_n = 0, !.lf_n = 0]

\* The character at p, unless the function has returned.
HeaderStep(s, a, p) ==
  LET run  == IF a.begin = 0 THEN NewRun(a, p) ELSE a
      cr_n == run.cr_n + IF s[p] = CR THEN 1 ELSE 0
      lf_n == run.lf_n + IF s[p] = LF THEN 1 ELSE 0
  IN  IF a.ret # "not_found" THEN a
      ELSE IF s[p] \notin {CR, LF} THEN [a EXCEPT !.begin = 0]
      ELSE IF s[p] = LF /\ lf_n = 2
           THEN [run EXCEPT !.ret = "ok", !.end = run.begin, !.sep_len = (p - run.begin) + 1]
      ELSE IF (cr_n = 1 /\ lf_n = 2) \/ (cr_n = 2 /\ lf_n = 0) THEN [run EXCEPT !.ret = "error"]
      ELSE [run EXCEPT !.cr_n = cr_n, !.lf_n = lf_n]

HeaderScan(s) ==
  LET fin == IF Len(s) < MaxHeader THEN Len(s) ELSE MaxHeader
      after[p \in 0..fin] == IF p = 0 THEN HeaderStart ELSE HeaderStep(s, after[p - 1], p)
  IN  after[fin]

FindHeaderEnd(s) ==
  [ret |-> HeaderScan(s).ret, end |-> HeaderScan(s).end, sep_len |-> HeaderScan(s).sep_len]

-----------------------------------------------------------------------------
(* http2d_parse_query_string works in the memory of the string: strsep ends *)
(* each token with a NUL, the end of a name is marked by one, and all of    *)
(* them are undone.                                                         *)

Memory(s) == [i \in 0..Len(s) |-> IF i < Len(s) THEN s[i + 1] ELSE NUL]

\* A name is added with its value unless it is empty or there already.
AddArgument(args, name, value) ==
  IF name = <<>> \/ name \in DOMAIN args THEN args
  ELSE [k \in DOMAIN args \cup {name} |-> IF k = name THEN value ELSE args[k]]

Token(mem, from, to) == [i \in 1..to - from |-> mem[from + i - 1]]

\* One turn of the loop: st.string is what strsep goes on with, -1 for NULL.
QueryTurn(st) ==
  LET token == st.string
      end   == First({i \in DOMAIN st.mem : i >= token /\ st.mem[i] \in {"&", NUL}}, -1)
      text  == Token(st.mem, token, end)
      equ   == First({i \in DOMAIN text : text[i] = "="}, 0)
  IN  [mem    |-> [st.mem EXCEPT ![end] = "&"],
       string |-> IF st.mem[end] = "&" THEN end + 1 ELSE -1,
       args   |-> IF text = <<>> THEN st.args
                  ELSE IF equ = 0 THEN AddArgument(st.args, text, <<>>)
                  ELSE AddArgument(st.args, SubSeq(text, 1, equ - 1),
                                   SubSeq(text, equ + 1, Len(text)))]

ParseQueryString(s) ==
  LET start == [mem |-> Memory(s), string |-> 0, args |-> NoArguments]
      after[i \in 0..Len(s) + 1] ==
        IF i = 0 THEN start
        ELSE IF after[i - 1].string = -1 THEN after[i - 1] ELSE QueryTurn(after[i - 1])
      done  == after[Len(s) + 1]
  IN  IF s = <<>> THEN start ELSE [done EXCEPT !.mem[Len(s)] = NUL]

-----------------------------------------------------------------------------
(* http2d_parse_host, with HAVE_IPV6.  The port is the text that atoi is    *)
(* given.                                                                   *)

Host(r, host, port) == [ret |-> r, host |-> host, port |-> port]

ParseHost(s) ==
  LET colons  == {i \in DOMAIN s : s[i] = ":"}
      colon   == First(colons, 0)
      bracket == Final({i \in DOMAIN s : s[i] = "]"}, 0)
      behind  == IF bracket < Len(s) THEN s[bracket + 1] ELSE NUL
  IN  CASE colons = {} -> Host("ok", s, <<>>)
        [] Cardinality(colons) = 1 ->
             Host("ok", SubSeq(s, 1, colon - 1), SubSeq(s, colon + 1, Len(s)))
        [] Cardinality(colons) > 1 /\ s[1] # "[" -> Host("ok", s, <<>>)
        [] OTHER -> IF bracket = 0 \/ behind # ":" THEN Host("error", <<>>, <<>>)
                    ELSE Host("ok", SubSeq(s, 2, bracket - 1), SubSeq(s, bracket + 2, Len(s)))

-----------------------------------------------------------------------------
(* http2d_split_pathinfo, with stat by the number of leading components that *)
(* are directories and what the next one is.                                *)

Stat(s, to, dirs, then) ==
  LET depth == Cardinality({i \in 2..to : s[i] = "/"}) + 1
  IN  IF depth <= dirs THEN "dir" ELSE IF depth = dirs + 1 THEN then ELSE "none"

\* The position of the slash where the path info begins, 0 for none, -1 for
\* ret_not_found.
SplitPathinfo(s, init_pos, allow_dirs, dirs, then) ==
  LET slashes  == {i \in init_pos + 1..Len(s) : s[i] = "/"}
      what(i)  == Stat(s, i - 1, dirs, then)
      halt     == First({i \in slashes : what(i) # "dir"}, 0)
      last_dir == {i \in slashes : i < halt}
  IN  IF init_pos > Len(s) THEN -1
      ELSE IF halt = 0 THEN 0
      ELSE IF what(halt) = "file" THEN halt
      ELSE IF allow_dirs /\ last_dir # {} THEN Final(last_dir, 0)
      ELSE -1

-----------------------------------------------------------------------------
TextInit == alphabet \in Alphabets /\ received = <<>>
Receive ==
  /\ Len(received) < MaxText
  /\ \E c \in alphabet : received' = Append(received, c)
  /\ UNCHANGED alphabet
TextNext == Receive
TextSpec == TextInit /\ [][TextNext]_textVars

-----------------------------------------------------------------------------
(* Properties. *)

\* A header may come in any number of reads: an end, or an error, that was found
\* stays the same when more arrives.  Within MaxHeader, whichever comes first
\* decides: a blank line (two LFs with nothing but CRs between them) ends the
\* header, a run of CRs and LFs that begins with two CRs is an error.  Of the two
\* situations that the comment in http2d_find_header_end_cstr forbids, one CR
\* with two LFs (CR LF LF, LF CR LF) is thus an end and not an error: the second
\* LF returns before the test for it.
HeaderEndStable ==
  LET now   == FindHeaderEnd(received)
      then  == IF received = <<>> THEN now ELSE FindHeaderEnd(Front(received))
      blank == {i \in 1..Len(received) :
                  /\ i <= MaxHeader /\ received[i] = LF
                  /\ \E j \in 1..i - 1 : /\ received[j] = LF
                                         /\ \A k \in j + 1..i - 1 : received[k] = CR}
      bad   == {i \in 2..Len(received) :
                  /\ i <= MaxHeader /\ received[i] = CR /\ received[i - 1] = CR
                  /\ i > 2 => received[i - 2] \notin {CR, LF}}
  IN  /\ then.ret # "not_found" => now = then
      /\ now.ret = "not_found" => blank = {} /\ bad = {}
      /\ now.ret = "error" => bad # {} /\ \A i \in blank : First(bad, 0) < i
      /\ now.ret = "ok" =>
           /\ now.end + now.sep_len - 1 = First(blank, 0)
           /\ \A i \in bad : First(blank, 0) < i
           /\ \A i \in now.end..now.end + now.sep_len - 1 : received[i] \in {CR, LF}
           /\ now.end > 1 => received[now.end - 1] \notin {CR, LF}

\* The memory of a query string is as before when its arguments were taken, and
\* of an argument that is given twice the first value counts.
QueryRestored ==
  LET q      == ParseQueryString(received)
      starts == {i \in DOMAIN received : i = 1 \/ received[i - 1] = "&"}
      token(i) == SubSeq(received, i, First({k \in i..Len(received) : received[k] = "&"},
                                            Len(received) + 1) - 1)
      equ(i)   == First({k \in DOMAIN token(i) : token(i)[k] = "="}, Len(token(i)) + 1)
      name(i)  == SubSeq(token(i), 1, equ(i) - 1)
  IN  /\ q.mem = Memory(received)
      /\ DOMAIN q.args = {name(i) : i \in starts} \ {<<>>}
      /\ \A k \in DOMAIN q.args :
           LET i == First({j \in starts : name(j) = k}, 0)
           IN  q.args[k] = SubSeq(token(i), equ(i) + 1, Len(token(i)))

\* A host and its port put together again are the text, and only an IPv6 address
\* has a colon in it.
HostKept ==
  LET h == ParseHost(received)
  IN  h.ret = "ok" =>
        /\ received \in {h.host, h.host \o <<":">> \o h.port,
                         <<"[">> \o h.host \o <<"]", ":">> \o h.port}
        /\ h.port # <<>> /\ Contains(h.host, ":") => received[1] = "["

\* The path in front of the path info is the file, or with allow_dirs the last
\* directory that there is.
PathinfoBehindFile ==
  \A dirs \in 0..MaxText, then \in {"none", "file"}, allow_dirs \in BOOLEAN :
    received = <<>> \/ received[1] = "/" =>
      LET at == SplitPathinfo(received, 1, allow_dirs, dirs, then)
      IN  at > 0 =>
            /\ received[at] = "/"
            /\ Stat(received, at - 1, dirs, then) = "file"
                 \/ /\ allow_dirs /\ Stat(received, at - 1, dirs, then) = "dir"
                    /\ \A k \in at + 1..Len(received) :
                         received[k] = "/" => Stat(received, k - 1, dirs, then) # "dir"

\* util.c: headers, queries, hosts and paths are cut where they should be, in
\* whatever portions they arrive.
TextScanned == HeaderEndStable /\ QueryRestored /\ HostKept /\ PathinfoBehindFile
=============================================================================
