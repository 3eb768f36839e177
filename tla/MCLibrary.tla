------------------------------ MODULE MCLibrary ------------------------------
(***************************************************************************)
(* The library below the server and its start, for TLC: one instance each   *)
(* of the AVL tree, the access lists, the string buffer, the codecs, the    *)
(* linked lists, the resolver cache, the plug-in loader, the vectored       *)
(* output, the scanners of requests, and the start of the server.  They     *)
(* share no state: part says which of them a behaviour runs, and the others *)
(* stay as they were initialised.                                           *)
(***************************************************************************)
EXTENDS Access, Resolver, Iovec, PluginLoader, HttpText, Buffer

CONSTANTS
  Keys, KeyLen, Values, None,   \* of Avl
  ListHead, Nil, NewList        \* nodes of Lists

VARIABLES
  part,
  tree, ret, freed,                                            \* Avl
  bytes, number, fsize,                                        \* Codecs
  links, ref,                                                  \* Lists
  pc, files, config, parsed, nthreads, binds, vservers, todo,  \* Startup
  socks, watchers, served

avlVars    == <<tree, freed, ret>>
codecVars  == <<bytes, number, fsize>>
listVars   == <<links, ref>>
resolvVars == vars
startVars  == <<pc, files, config, parsed, nthreads, binds, vservers, todo, socks,
                watchers, served>>

-----------------------------------------------------------------------------
(* Addresses of 2 and of 6 bits in bytes of 2; the IPv6 addresses that begin *)
(* with 0011 are mapped ones.                                               *)

Ip(type, bits, good, signs) == [type |-> type, ip |-> bits, ok |-> good, signs |-> signs]
Mask(form, n, m, good, signs) ==
  [form |-> form, num |-> n, mask |-> m, ok |-> good, signs |-> signs]
Written ==
  {Ip("ipv4", {1}, TRUE, {"."}), Ip("ipv4", {}, FALSE, {"."}), Ip("ipv4", {}, FALSE, {}),
   Ip("ipv6", {1, 4, 5}, TRUE, {":"}), Ip("ipv6", {1, 4, 5}, TRUE, {":", "."}),
   Ip("ipv6", {3, 4}, TRUE, {":"}), Ip("ipv6", {2, 3, 4, 5}, TRUE, {":"})}
Masks ==
  {Mask("length", n, {}, TRUE, {}) : n \in 0..7}
  \cup {Mask("length", n, {}, FALSE, {}) : n \in {1, 2, 6}}
  \cup {Mask("address", n, {2}, TRUE, {"."}) : n \in 1..2}
  \cup {Mask("address", 0, {}, FALSE, {":"}), Mask("overflow", 0, {}, TRUE, {})}
AccessEntries ==
  {[kind |-> "ip", ip |-> a] : a \in Written}
  \cup {[kind |-> "domain", ips |-> <<a, b>>] : a, b \in Written}
  \cup {[kind |-> "subnet", ip |-> a, mask |-> m] : a \in Written, m \in Masks}

-----------------------------------------------------------------------------
(* All texts of up to three characters, and longer ones for the comma marks. *)

Strings == {<<>>, <<"a">>, <<"a", "a">>, <<"a", " ", "A">>}
FirstTexts == UNION {[1..n -> {"a", " "}] : n \in 0..3}
              \cup {[i \in 1..n |-> "a"] : n \in 4..7}

\* Lead bytes of all lengths, a continuation, '\0', digits, and what is escaped;
\* file sizes on both sides of every case; base64 in chunks of two.
Cod == INSTANCE Codecs WITH
  Bytes <- {0, 1, 35, 37, 38, 52, 60, 98, 169, 195, 226, 240, 255},
  MaxBytes <- 4, Width <- 8, Chunk <- 2,
  FileSizes <- {972, 973, 1023, 1024, 10188, 10189, 10240, 995839, 995840,
                996351, 996352, 10433331, 10433332, 100000000},
  Subs <- {<<<<98>>, <<52, 52>>>>, <<<<98, 98>>, <<98>>>>, <<<<98>>, <<>>>>}

\* Five items, two and two of them equal.
Lst == INSTANCE Lists WITH
  Items <- 1..5, Rank <- <<1, 1, 2, 2, 3>>

\* Three lengths near zero and two at the limit of a short: 32767 apart.
KeyLengths == <<1, 1, 2, 2, 2, 32767, 32768>>

Tree == INSTANCE Avl

\* avl_generic.c keeps the result of a comparison in a short: the properties of
\* the tree are claimed for keys whose lengths are less than 2^15 apart.
ASSUME KeysAssumption == Tree!LengthsFit

\* Of three modules, "a" and "b" may depend on others, and "c" on "a", which
\* closes a cycle; a file is complete, has no init function, no info structure,
\* or cannot be opened.
File(k, deps) == [opens |-> k > 0, info |-> k > 1, init |-> k > 2, deps |-> deps]
ModuleFiles ==
  {[m \in {"a", "b", "c"} |-> CASE m = "a" -> File(ka, da) [] m = "b" -> File(kb, db)
                                [] m = "c" -> File(kc, dc)] :
     ka, kb, kc \in 0..3, da \in {<<"b", "c">>, <<"c", "b">>, <<"b">>}, db \in {<<>>, <<"c">>},
     dc \in {<<>>, <<"a">>}}

\* Up to three pieces of up to three bytes, empty ones too.
MCVectors == UNION {[1..n -> 0..3] : n \in 1..3}

\* One alphabet for each scanner.
Scanned == {{"r", "n", "x", " "}, {"&", "=", "a", "b"}, {":", "[", "]", "h"}, {"/", "f"}}

-----------------------------------------------------------------------------
(* The start of the server: main files of five lines, two of which are a    *)
(* bind and a virtual server, with includes of a file, of a directory and   *)
(* of a file that is missing.                                               *)

MCNum(s) ==
  CASE s = "1" -> 1 [] s = "2" -> 2 [] s = "3" -> 3 [] s = "80" -> 80 [] s = "443" -> 443
    [] s \in {"-1", "2^64"} -> -1 [] OTHER -> 0
MCFits(s) == s # "2^64"
MCFold(s) == IF s = "Server" THEN "server" ELSE s

Set(path, val) == [kind |-> "set", path |-> path, val |-> val]
Inc(kind, f)   == [kind |-> kind, path |-> <<>>, val |-> f]
Line(kind)     == [kind |-> kind, path |-> <<>>, val |-> ""]

Port(k, p)  == Set(<<"server", "bind", k, "port">>, p)
Cert(k, c)  == Set(<<"vserver", k, "ssl_certificate_file">>, c)

ExtraLines ==
  {Port("1", "443"), Port("2", "443"), Port("2", "80"), Port("3", ""), Port("2", "2^64"),
   Cert("2", "good"), Cert("1", "bad"),
   Cert("default", "good"), Cert("-1", "good"), Set(<<"vserver", "2", "disabled">>, "1"),
   Set(<<"vserver", "1", "disabled">>, "0"), Set(<<"vserver", "2", "disabled">>, "2^64"),
   Set(<<"server", "bind", "1", "tls">>, "1"), Set(<<"server", "x">>, "1"),
   Set(<<"Server", "y">>, "1"), Line("skip"), Line("bad"),
   Inc("include", "a"), Inc("try_include", "a"), Inc("include", "d"),
   Inc("include", "none"), Inc("try_include", "none")}

Reg(lines) == [type |-> "reg", lines |-> lines]

\* The file "a" is whole, or breaks off; "d" holds "b" and a backup file.
Disk(main, a) ==
  [f \in {"main", "a", "b", "d", "none"} |->
    CASE f = "main" -> Reg(main)
      [] f = "a"    -> Reg(a)
      [] f = "b"    -> Reg(<<Cert("3", "good"), Port("3", "80")>>)
      [] f = "d"    -> [type |-> "dir", lines |-> <<[file |-> "none", hidden |-> TRUE],
                                                    [file |-> "b", hidden |-> FALSE]>>]
      [] f = "none" -> [type |-> "none", lines |-> <<>>]]

MCConfigs ==
  {Disk(<<x, Port("1", "80"), y, Cert("1", "good"), z>>, a) :
     x, y \in ExtraLines, z \in {Line("skip"), Cert("2", "good"), Port("1", "443"), Inc("include", "a")},
     a \in {<<Cert("2", "good"), Port("2", "443")>>,
            <<Port("1", "443"), Line("bad"), Cert("2", "bad")>>}}

Sta == INSTANCE Startup WITH
  Num <- MCNum, Fits <- MCFits, Fold <- MCFold, Configs <- MCConfigs, MainFile <- "main", NCpus <- 1

-----------------------------------------------------------------------------
Parts == {"avl", "access", "buffer", "codecs", "lists", "resolver", "plugins", "iovec",
          "text", "startup"}

\* Each part as it is initialised; of a part that does not run, the input is fixed.
AnyDisk   == CHOOSE d \in ModuleFiles : TRUE
AnyConfig == CHOOSE f \in MCConfigs : TRUE
AnyAlphabet == CHOOSE a \in Scanned : TRUE

LibraryInit ==
  /\ part \in Parts
  /\ Tree!Init /\ AccessInit /\ Cod!Init /\ Lst!Init /\ Init
  /\ BufferInit /\ (part # "buffer" => text = <<>>)
  /\ PluginInit /\ (part # "plugins" => disk = AnyDisk)
  /\ IovecInit /\ (part # "iovec" => orig = <<0>> /\ ~is_tls)
  /\ TextInit /\ (part # "text" => alphabet = AnyAlphabet)
  /\ Sta!Init /\ (part # "startup" => files = AnyConfig)

\* The parts that do not run.
OthersStay ==
  /\ part # "avl"      => UNCHANGED avlVars
  /\ part # "access"   => UNCHANGED accessVars
  /\ part # "buffer"   => UNCHANGED bufferVars
  /\ part # "codecs"   => UNCHANGED codecVars
  /\ part # "lists"    => UNCHANGED listVars
  /\ part # "resolver" => UNCHANGED resolvVars
  /\ part # "plugins"  => UNCHANGED pluginVars
  /\ part # "iovec"    => UNCHANGED iovecVars
  /\ part # "text"     => UNCHANGED textVars
  /\ part # "startup"  => UNCHANGED startVars

LibraryNext ==
  /\ UNCHANGED part
  /\ \/ part = "avl"      /\ Tree!Next
     \/ part = "access"   /\ AccessNext
     \/ part = "buffer"   /\ BufferNext
     \/ part = "codecs"   /\ Cod!Next
     \/ part = "lists"    /\ Lst!Next
     \/ part = "resolver" /\ Next
     \/ part = "plugins"  /\ PluginNext
     \/ part = "iovec"    /\ IovecNext
     \/ part = "text"     /\ TextNext
     \/ part = "startup"  /\ Sta!Next
  /\ OthersStay

libraryVars ==
  <<part, avlVars, accessVars, bufferVars, codecVars, listVars, resolvVars,
    pluginVars, iovecVars, textVars, startVars>>
LibrarySpec == LibraryInit /\ [][LibraryNext]_libraryVars

\* What a call of the tree returned is never read again: states that differ in
\* it only are one.
Shape ==
  <<part, tree, freed, accessVars, bufferVars, codecVars, listVars, resolvVars,
    pluginVars, iovecVars, textVars, startVars>>

-----------------------------------------------------------------------------
(* The properties of the parts, under one name each; those of Access,       *)
(* Resolver, Iovec, PluginLoader, HttpText and Buffer keep theirs.          *)

\* avl_generic.c: the tree is ordered, balanced and threaded (Avl) ...
WellFormed == part = "avl" => Tree!WellFormed

\* ... and to its callers it is a map (Avl, Dictionary).
ImplementsDictionary == Tree!ImplementsDictionary

\* buffer.c, conversions: what was encoded comes back, and is as long as it was
\* computed to be; digits stand for their number (Codecs).
ConversionsExact == part = "codecs" => Cod!ComesBack /\ Cod!NumbersShown

\* list.c: the links are whole and a sort is stable (Lists).
Linked == part = "lists" => Lst!Linked

\* config_node.c, config_reader.c: what was read is what the files say (Startup).
ConfigAsSaid == part = "startup" => Sta!ConfigAsSaid

\* server.c, server-cfg.c, bind.c: a server that runs has all that it was asked
\* for (Startup).
RunsAsConfigured == part = "startup" => Sta!RunsAsConfigured
==============================================================================
