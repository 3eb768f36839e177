-------------------------------- MODULE Access --------------------------------
(***************************************************************************)
(* The access lists of access.c: addresses and subnets that entries of a   *)
(* configuration add, and the test whether a peer is in one of them.       *)
(*                                                                         *)
(* An address is the set of its bits that are one, bit 1 first on the wire, *)
(* and so is a mask.  IPv6 addresses have Len6 bits, IPv4 ones Len4; the    *)
(* IPv6 addresses that begin with the bits Mapped stand for IPv4 ones       *)
(* (::ffff:a.b.c.d).                                                        *)
(***************************************************************************)
EXTENDS Integers, Sequences

CONSTANTS
  Len4,      \* 32 in the code
  Len6,      \* 128
  ByteLen,   \* 8: bits to an element of s6_addr
  Mapped,    \* the bits of the prefix of mapped addresses
  Entries,   \* the texts that http2d_access_add may be given
  MaxEntries \* bound on the number of calls

(* An address text is [type, ip, ok, signs]: type is what the code tells from *)
(* its characters, ok that inet_pton accepts it, signs which of ':' and '.'   *)
(* are in it.  A mask text is [form, num, mask, ok, signs]: a length, a mask  *)
(* in the notation of addresses, or a number too large for strtol; num is     *)
(* what strtol reads, and ok that inet_pton accepts the mask or that a length *)
(* has three characters at most (/0016 is refused, though /0032 behind an     *)
(* IPv4 address is not).  inet_pton accepts no address without its sign.      *)

TextsOf(type, len, sign) ==
  {t \in [type : {type}, ip : SUBSET (1..len), ok : BOOLEAN, signs : SUBSET {":", "."}] :
     t.ok => sign \in t.signs}
AddressTexts == TextsOf("ipv4", Len4, ".") \cup TextsOf("ipv6", Len6, ":")
MaskTexts ==
  [form : {"length", "address", "overflow"}, num : Int, mask : SUBSET (1..Len6),
   ok : BOOLEAN, signs : SUBSET {":", "."}]

ASSUME LengthsAssumption ==
  Len4 \in Nat /\ Len6 \in Nat /\ Len4 < Len6 /\ ByteLen \in Nat \ {0}
ASSUME EntriesAssumption ==
  \A e \in Entries :
    \/ e.kind = "domain" /\ e.ips \in Seq(AddressTexts)
    \/ e.kind = "ip" /\ e.ip \in AddressTexts
    \/ e.kind = "subnet" /\ e.ip \in AddressTexts /\ e.mask \in MaskTexts

VARIABLES
  ips,       \* list_ips: [type, ip]
  subnets,   \* list_subnets: [type, ip, mask]
  calls,     \* the texts given so far, each with what was returned
  alive      \* FALSE after http2d_access_mrproper

accessVars == <<ips, subnets, calls, alive>>

Len_(type) == IF type = "ipv4" THEN Len4 ELSE Len6
Offset     == Len6 - Len4
IsMapped(a)   == a \cap (1..Offset) = Mapped
MappedPart(a) == {b - Offset : b \in a \cap (Offset + 1 .. Len6)}

\* http2d_access_init
AccessInit ==
  /\ ips = {} /\ subnets = {}
  /\ calls = <<>>
  /\ alive = TRUE

-----------------------------------------------------------------------------
(* Parsing. *)

\* parse_ip: a mapped address is refused, whatever inet_pton said.
ParseIp(text) == text.ok /\ (text.type = "ipv6" => ~IsMapped(text.ip))

\* Mutant: the bits of the last, partial byte are left out.
LengthMaskBytes(type, num) ==
  IF num = Len6 THEN {}
  ELSE IF type = "ipv6"
  THEN {b \in 1..Len6 : (b - 1) \div ByteLen < num \div ByteLen}
  ELSE 1..num

\* The mask of a length, in parse_netmask: the special case of 128, whole and
\* partial bytes for IPv6, ~0 shifted for IPv4.
LengthMask(type, num) ==
  IF num = Len6 THEN {}
  ELSE IF type = "ipv6"
  THEN {b \in 1..Len6 : (b - 1) \div ByteLen < num \div ByteLen}
         \cup {ByteLen * (num \div ByteLen) + jj : jj \in 1..num % ByteLen}
  ELSE 1..num

\* parse_netmask
NetmaskOk(type, text) ==
  text.ok /\ (text.form = "length" => text.num \in 0..Len_(type))
Netmask(type, text) ==
  IF ~NetmaskOk(type, text) THEN {}
  ELSE IF text.form = "address" THEN text.mask ELSE LengthMask(type, text.num)

-----------------------------------------------------------------------------
(* http2d_access_add.  Every operator returns the lists and the answer. *)

Result(i, s, ret) == [ips |-> i, subnets |-> s, ret |-> ret]

\* http2d_access_add_ip
AddIp(i, s, text) ==
  IF ParseIp(text) THEN Result(i \cup {[type |-> text.type, ip |-> text.ip]}, s, "ok")
  ELSE Result(i, s, "error")

\* http2d_access_add_domain: the addresses one by one, up to the first that
\* add_ip refuses.
AddDomain(i, s, texts) ==
  LET taken == {k \in DOMAIN texts : \A j \in 1..k : ParseIp(texts[j])}
  IN  Result(i \cup {[type |-> texts[k].type, ip |-> texts[k].ip] : k \in taken}, s,
             IF taken = DOMAIN texts THEN "ok" ELSE "error")

\* http2d_access_add_subnet: the node is linked, with a mask of zeros, before
\* the texts are parsed, and stays if that fails.
AddSubnet(i, s, text, mask) ==
  LET ip   == IF text.ok THEN text.ip ELSE {}
      node == [type |-> text.type, ip |-> ip,
               mask |-> IF ParseIp(text) THEN Netmask(text.type, mask) ELSE {}]
  IN  Result(i, s \cup {node},
             IF ParseIp(text) /\ NetmaskOk(text.type, mask) THEN "ok" ELSE "error")

\* The special cases of subnets: what http2d_atoi reads behind the slash, and
\* which signs are somewhere in the text.
WholeAddress(e) ==
  LET signs == e.ip.signs \cup e.mask.signs
  IN  \/ ":" \in signs /\ e.mask.num = Len6
      \/ "." \in signs /\ e.mask.num = Len4

AccessAdd(i, s, e) ==
  CASE e.kind = "domain" -> AddDomain(i, s, e.ips)
    [] e.kind = "ip"     -> AddIp(i, s, e.ip)
    [] e.kind = "subnet" -> IF e.mask.form = "overflow" THEN Result(i, s, "error")
                            ELSE IF WholeAddress(e) THEN AddIp(i, s, e.ip)
                            ELSE AddSubnet(i, s, e.ip, e.mask)

Add(e) ==
  LET r == AccessAdd(ips, subnets, e)
  IN  /\ alive /\ Len(calls) < MaxEntries
      /\ ips' = r.ips /\ subnets' = r.subnets
      /\ calls' = Append(calls, [entry |-> e, ret |-> r.ret])
      /\ UNCHANGED alive

\* http2d_access_mrproper
Mrproper ==
  /\ alive /\ alive' = FALSE
  /\ ips' = {} /\ subnets' = {}
  /\ UNCHANGED calls

AccessNext == Mrproper \/ \E e \in Entries : Add(e)
AccessSpec == AccessInit /\ [][AccessNext]_accessVars

-----------------------------------------------------------------------------
(* http2d_access_ip_match. *)

IpItemMatch(n, af, a) ==
  \/ af = "ipv6" /\ n.type = "ipv4" /\ IsMapped(a) /\ MappedPart(a) = n.ip
  \/ af = n.type /\ a = n.ip

SubnetMatch(n, af, a) ==
  \/ /\ af = "ipv6" /\ n.type = "ipv4" /\ IsMapped(a)
     /\ n.ip \cap n.mask = MappedPart(a) \cap n.mask
  \/ af = n.type /\ n.ip \cap n.mask = a \cap n.mask

IpMatch(af, a) ==
  \/ \E n \in ips : IpItemMatch(n, af, a)
  \/ \E n \in subnets : SubnetMatch(n, af, a)

-----------------------------------------------------------------------------
(* Properties. *)

\* A peer with a mapped IPv6 address has an IPv4 address as well.
Peers == ({"ipv4"} \X SUBSET (1..Len4)) \cup ({"ipv6"} \X SUBSET (1..Len6))
Addresses(p) ==
  {p} \cup IF p[1] = "ipv6" /\ IsMapped(p[2]) THEN {<<"ipv4", MappedPart(p[2])>>} ELSE {}

\* The peer's address begins like that of the entry, for the entry's length, or
\* agrees where the mask is one.
Within(text, mask, p) ==
  LET bits == IF mask.form = "length" THEN 1..mask.num ELSE mask.mask
  IN  p[1] = text.type /\ \A b \in bits : b \in text.ip <=> b \in p[2]

\* What an entry that is taken for a subnet says, and one for a whole address
\* whose mask says something else or would be refused: ::1.2.3.4/32,
\* 1.2.3.4/32.0.0.0, 1.2.3.4/0032.
Subnet(e) == e.kind = "subnet" /\ e.mask.form # "overflow" /\ ~WholeAddress(e)
MaskDropped(e) ==
  WholeAddress(e) /\ ~(e.mask.form = "length" /\ e.mask.ok /\ e.mask.num = Len_(e.ip.type))

\* What an entry is meant to cover; of a name, the addresses before the first
\* that cannot be added.
Covers(e, p) ==
  CASE e.kind = "domain" ->
         \E i \in 1..Len(e.ips) : /\ \A j \in 1..i : ParseIp(e.ips[j])
                                  /\ p = <<e.ips[i].type, e.ips[i].ip>>
    [] e.kind = "ip"     -> ParseIp(e.ip) /\ p = <<e.ip.type, e.ip.ip>>
    [] e.kind = "subnet" -> /\ ParseIp(e.ip) /\ e.mask.form # "overflow"
                            /\ IF MaskDropped(e) THEN p = <<e.ip.type, e.ip.ip>>
                               ELSE /\ NetmaskOk(e.ip.type, e.mask)
                                    /\ Within(e.ip, e.mask, p)

\* A subnet that http2d_access_add refused is in the list all the same.
Refused(p) ==
  \E i \in 1..Len(calls) :
    /\ calls[i].ret = "error" /\ Subnet(calls[i].entry)
    /\ \E q \in Addresses(p) : calls[i].entry.ip.type = q[1]

Covered(p) == \E i \in 1..Len(calls), q \in Addresses(p) : Covers(calls[i].entry, q)

\* The test on lists of addresses and masks, byte by byte and with mapped
\* addresses, decides what the entries meant: a peer matches if and only if
\* one of them covers it, unless an entry was refused.  (Then, every address
\* of its family matches: the node that add_subnet leaves has a mask of zeros.)
MatchIffCovered ==
  alive => \A p \in Peers :
    /\ Covered(p) => IpMatch(p[1], p[2])
    /\ IpMatch(p[1], p[2]) => Covered(p) \/ Refused(p)
=============================================================================
