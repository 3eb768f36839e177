------------------------------ MODULE ConfigTree ------------------------------
(***************************************************************************)
(* The configuration tree of config_node.c and the reader of                *)
(* config_reader.c.  A path is the sequence of the keys between the '!'s.   *)
(* A tree maps the paths of its nodes to values and to the keys of their    *)
(* children, in the order of the list; the node <<>> is the root.           *)
(*                                                                         *)
(* A file is [type, lines]; of a directory, lines are the entries in the    *)
(* order of readdir, each [file, hidden].  A line is [kind, path, val]: kind *)
(* is "set", "include" or "try_include" (val is the file), "skip" (a comment *)
(* or up to four characters) or "bad" (there is no " = ").  No file includes *)
(* itself: the reader would not return.                                    *)
(***************************************************************************)
EXTENDS Integers, Sequences, FiniteSets, SequencesExt

CONSTANTS
  Num(_),     \* strtol of a key or a value, as an int
  Fits(_),    \* strtol does not set errno: the number is in the range of a long
  Fold(_)     \* a key up to the case of its letters

Unset == ""

\* http2d_config_node_init
EmptyTree == [val |-> [p \in {<<>>} |-> Unset], child |-> [p \in {<<>>} |-> <<>>]]

\* search_child along a path
Has(t, path) == path \in DOMAIN t.val
Children(t, path) == t.child[path]

\* add_new_child
AddNewChild(t, path) ==
  LET nodes == DOMAIN t.val \cup {path}
  IN  [val   |-> [p \in nodes |-> IF p = path THEN Unset ELSE t.val[p]],
       child |-> [p \in nodes |-> IF p = path THEN <<>>
                                  ELSE IF p = Front(path) THEN Append(t.child[p], Last(path))
                                  ELSE t.child[p]]]

\* Mutant: a value that is there is kept.
AddBufKeeps(t, path, val) ==
  LET made == FoldLeft(LAMBDA u, i : IF Has(u, SubSeq(path, 1, i)) THEN u
                                     ELSE AddNewChild(u, SubSeq(path, 1, i)),
                       t, [i \in 1..Len(path) |-> i])
  IN  IF Has(t, path) /\ t.val[path] # Unset THEN t ELSE [made EXCEPT !.val[path] = val]

\* http2d_config_node_add_buf: the nodes of the path are made where they are
\* missing; the value of the last one is replaced.
AddBuf(t, path, val) ==
  LET made == FoldLeft(LAMBDA u, i : IF Has(u, SubSeq(path, 1, i)) THEN u
                                     ELSE AddNewChild(u, SubSeq(path, 1, i)),
                       t, [i \in 1..Len(path) |-> i])
  IN  [made EXCEPT !.val[path] = val]

\* sort_lists: children whose keys are all numbers other than 0, by cmp_num, the
\* largest first (an errno of EINVAL is assigned there, not compared).
AllNum(keys) == \A i \in DOMAIN keys : Num(keys[i]) # 0
Descending(keys) ==
  LET before(i, j) == \/ Num(keys[i]) > Num(keys[j])
                      \/ Num(keys[i]) = Num(keys[j]) /\ i < j
      place(i)     == 1 + Cardinality({j \in DOMAIN keys : before(j, i)})
  IN  [k \in DOMAIN keys |-> keys[CHOOSE i \in DOMAIN keys : place(i) = k]]
SortLists(t) ==
  [t EXCEPT !.child = [p \in DOMAIN @ |-> IF AllNum(@[p]) THEN Descending(@[p]) ELSE @[p]]]

\* check_config_node_sanity: of the top level only.
Sane(t) ==
  \A i, j \in DOMAIN t.child[<<>>] :
    i # j => Fold(t.child[<<>>][i]) # Fold(t.child[<<>>][j])

Outcome(t, ret) == [tree |-> t, ret |-> ret]

-----------------------------------------------------------------------------
(* http2d_config_reader_parse and what it calls, down to the included files. *)

RECURSIVE Include(_, _, _), ParseString(_, _, _)

\* http2d_config_reader_parse_string: line by line up to the first error, then
\* the tree, with all that the including files put there, is sorted and checked.
ParseString(files, t, f) ==
  LET line(acc, l) ==
        IF acc.ret # "ok" \/ l.kind = "skip" THEN acc
        ELSE IF l.kind = "bad" THEN Outcome(acc.tree, "error")
        ELSE IF l.kind = "set" THEN Outcome(AddBuf(acc.tree, l.path, l.val), "ok")
        ELSE IF l.kind = "include" THEN Include(files, acc.tree, l.val)
        ELSE Outcome(AddBuf(Include(files, acc.tree, l.val).tree, <<"try_include">>, l.val), "ok")
      read   == FoldLeft(line, Outcome(t, "ok"), files[f].lines)
      sorted == SortLists(read.tree)
  IN  IF read.ret # "ok" THEN Outcome(read.tree, "error")
      ELSE Outcome(sorted, IF Sane(sorted) THEN "ok" ELSE "error")

\* do_include, do_parse_file: a file, or those of a directory up to an error.
Include(files, t, f) ==
  CASE files[f].type = "none" -> Outcome(t, "error")
    [] files[f].type = "reg"  -> ParseString(files, t, f)
    [] files[f].type = "dir"  ->
         FoldLeft(LAMBDA acc, e : IF acc.ret # "ok" \/ e.hidden THEN acc
                                  ELSE IF files[e.file].type # "reg" THEN Outcome(acc.tree, "error")
                                  ELSE ParseString(files, acc.tree, e.file),
                  Outcome(t, "ok"), files[f].lines)

-----------------------------------------------------------------------------
(* Reading. *)

\* http2d_config_node_read_int: an empty value is not found, and http2d_atoi
\* fails for one that is out of range.
ReadInt(t, path) == Has(t, path) /\ t.val[path] # Unset /\ Fits(t.val[path])
ReadBool(t, path) == ReadInt(t, path) /\ Num(t.val[path]) # 0

\* http2d_config_node_read
ReadVal(t, path) == IF Has(t, path) THEN t.val[path] ELSE Unset

-----------------------------------------------------------------------------
(* What a configuration says, without a tree: the assignments in the order  *)
(* they are read, and whether reading gets to the end.                      *)

RECURSIVE Script(_, _)
Script(files, f) ==
  LET add(acc, more)  == [sets |-> acc.sets \o more.sets, ok |-> more.ok]
      one(path, val)  == [sets |-> <<<<path, val>>>>, ok |-> TRUE]
      line(acc, l) ==
        IF ~acc.ok \/ l.kind = "skip" THEN acc
        ELSE CASE l.kind = "bad"     -> [acc EXCEPT !.ok = FALSE]
               [] l.kind = "set"     -> add(acc, one(l.path, l.val))
               [] l.kind = "include" -> add(acc, Script(files, l.val))
               [] OTHER -> add(add(acc, Script(files, l.val)), one(<<"try_include">>, l.val))
      entry(acc, e) == IF ~acc.ok \/ e.hidden THEN acc ELSE add(acc, Script(files, e.file))
      none == [sets |-> <<>>, ok |-> TRUE]
  IN  CASE files[f].type = "none" -> [sets |-> <<>>, ok |-> FALSE]
        [] files[f].type = "reg"  -> FoldLeft(line, none, files[f].lines)
        [] files[f].type = "dir"  -> FoldLeft(entry, none, files[f].lines)

\* The value that the last of the assignments gave a path; Unset if there is none.
LastSet(sets, path) ==
  LET at == {i \in DOMAIN sets : sets[i][1] = path}
  IN  IF at = {} THEN Unset ELSE sets[CHOOSE i \in at : \A j \in at : j <= i][2]
=============================================================================
