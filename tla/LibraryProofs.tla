---------------------------- MODULE LibraryProofs ----------------------------
(***************************************************************************)
(* Proofs about five of the library's parts.  The access lists: addresses,  *)
(* bytes and prefixes of any length and any entries.  The plug-in loader:   *)
(* any module files, those with cyclic dependencies included.  Vectored     *)
(* output: vectors of any number of pieces of any length.  The text         *)
(* scanners: texts of any length over any characters but NUL.  The resolver *)
(* cache: any names and calls, finitely many threads.                       *)
(***************************************************************************)
EXTENDS Access, Resolver, Iovec, PluginLoader, HttpText, SequenceFacts,
        FiniteSetTheorems

\* What one entry adds to empty lists, and what it returns.
Adds(e) == AccessAdd({}, {}, e)

\* The lists hold what the calls of access_add put into them, and nothing else.
AccessInv ==
  /\ calls \in Seq([entry : Entries, ret : {"ok", "error"}])
  /\ \A i \in 1..Len(calls) : calls[i].ret = Adds(calls[i].entry).ret
  /\ alive => /\ ips = UNION {Adds(calls[i].entry).ips : i \in 1..Len(calls)}
              /\ subnets = UNION {Adds(calls[i].entry).subnets : i \in 1..Len(calls)}

\* The address q matches something that e added.
Hits(e, q) ==
  \/ \E n \in Adds(e).ips : q = <<n.type, n.ip>>
  \/ \E n \in Adds(e).subnets : q[1] = n.type /\ n.ip \cap n.mask = q[2] \cap n.mask

-----------------------------------------------------------------------------
(* Netmasks. *)

\* A bit is in one of the first q bytes if and only if its number says so.
LEMMA WholeBytes ==
  ASSUME NEW a \in Nat, NEW q \in Nat, NEW B \in Nat, B > 0
  PROVE  a \div B < q <=> a < B * q
<1>1. /\ a \div B \in Int /\ a % B \in Int
      /\ 0 <= a % B /\ a % B < B
      /\ a = (B * (a \div B)) + (a % B)
  OBVIOUS
<1>2. ASSUME a \div B < q PROVE a < B * q
  <2>1. (B * (a \div B)) + B <= B * q
    BY <1>1, <1>2
  <2> QED
    BY <1>1, <2>1
<1>3. ASSUME q <= a \div B PROVE B * q <= a
  <2>1. B * q <= B * (a \div B)
    BY <1>1, <1>3
  <2> QED
    BY <1>1, <2>1
<1> QED
  BY <1>1, <1>2, <1>3

\* Whole bytes and the bits of the last one make a mask of the length, which is
\* the purpose of parse_netmask.
LEMMA MaskFacts ==
  ASSUME NEW type, NEW num \in Nat, num <= Len_(type), num # Len6
  PROVE  LengthMask(type, num) = 1..num
<1>0. Len4 \in Nat /\ Len6 \in Nat /\ Len4 < Len6 /\ ByteLen \in Nat /\ ByteLen > 0
  BY LengthsAssumption
<1>1. CASE type # "ipv6"
  BY <1>1 DEF LengthMask
<1>2. CASE type = "ipv6"
  <2> DEFINE q == num \div ByteLen
             r == num % ByteLen
             w == ByteLen * q
  <2>1. /\ q \in Nat /\ r \in Nat /\ r < ByteLen /\ w \in Nat /\ num = w + r
        /\ num < Len6
    BY <1>0, <1>2 DEF Len_
  <2>2. \A b \in 1..Len6 : (b - 1) \div ByteLen < q <=> b - 1 < w
    <3> SUFFICES ASSUME NEW b \in 1..Len6
                 PROVE  (b - 1) \div ByteLen < q <=> b - 1 < w
      OBVIOUS
    <3>1. b - 1 \in Nat
      BY <1>0
    <3> QED
      BY <1>0, <2>1, <3>1, WholeBytes
  <2>3. LengthMask(type, num) =
          {b \in 1..Len6 : (b - 1) \div ByteLen < q} \cup {w + jj : jj \in 1..r}
    BY <1>2 DEF LengthMask
  <2> HIDE DEF q, r, w
  <2>4. {b \in 1..Len6 : (b - 1) \div ByteLen < q} = 1..w
    BY <1>0, <2>1, <2>2
  <2>5. {w + jj : jj \in 1..r} = (w + 1)..num
    <3>1. ASSUME NEW b \in (w + 1)..num PROVE b \in {w + jj : jj \in 1..r}
      <4>1. b - w \in 1..r /\ b = w + (b - w)
        BY <2>1
      <4> QED
        BY <4>1
    <3>2. ASSUME NEW jj \in 1..r PROVE w + jj \in (w + 1)..num
      BY <2>1
    <3> QED
      BY <3>1, <3>2
  <2>6. 1..num = (1..w) \cup ((w + 1)..num)
    BY <2>1
  <2> QED
    BY <2>3, <2>4, <2>5, <2>6
<1> QED
  BY <1>1, <1>2

-----------------------------------------------------------------------------
(* Entries. *)

\* An entry adds the same to any lists, and answers the same.
LEMMA AddsFacts ==
  ASSUME NEW e \in Entries, NEW i, NEW s
  PROVE  /\ AccessAdd(i, s, e).ips = i \cup Adds(e).ips
         /\ AccessAdd(i, s, e).subnets = s \cup Adds(e).subnets
         /\ AccessAdd(i, s, e).ret = Adds(e).ret
         /\ Adds(e).ret \in {"ok", "error"}
<1>1. CASE e.kind = "domain"
  BY <1>1 DEF Adds, AccessAdd, AddDomain, Result
<1>2. CASE e.kind = "ip"
  BY <1>2 DEF Adds, AccessAdd, AddIp, Result
<1>3. CASE e.kind = "subnet"
  <2>1. CASE e.mask.form = "overflow"
    BY <1>3, <2>1 DEF Adds, AccessAdd, Result
  <2>2. CASE e.mask.form # "overflow" /\ WholeAddress(e)
    BY <1>3, <2>2 DEF Adds, AccessAdd, AddIp, Result
  <2>3. CASE Subnet(e)
    BY <1>3, <2>3 DEF Adds, AccessAdd, AddSubnet, Result, Subnet
  <2> QED
    BY <1>3, <2>1, <2>2, <2>3 DEF Subnet
<1> QED
  BY <1>1, <1>2, <1>3, EntriesAssumption

\* A text that is taken for one address.
LEMMA IpHits ==
  ASSUME NEW e, NEW t, NEW q, Adds(e) = AddIp({}, {}, t)
  PROVE  Hits(e, q) <=> ParseIp(t) /\ q = <<t.type, t.ip>>
<1>1. CASE ParseIp(t)
  <2>1. Adds(e).ips = {[type |-> t.type, ip |-> t.ip]} /\ Adds(e).subnets = {}
    BY <1>1 DEF AddIp, Result
  <2>2. \E n \in Adds(e).ips : n = [type |-> t.type, ip |-> t.ip]
    BY <2>1
  <2>3. \A n \in Adds(e).ips : n.type = t.type /\ n.ip = t.ip
    BY <2>1
  <2> QED
    BY <1>1, <2>1, <2>2, <2>3 DEF Hits
<1>2. CASE ~ParseIp(t)
  <2>1. Adds(e).ips = {} /\ Adds(e).subnets = {}
    BY <1>2 DEF AddIp, Result
  <2> QED
    BY <1>2, <2>1 DEF Hits
<1> QED
  BY <1>1, <1>2

\* A name.
LEMMA DomainHits ==
  ASSUME NEW e \in Entries, e.kind = "domain", NEW q
  PROVE  Hits(e, q) <=> Covers(e, q)
<1>1. e.ips \in Seq(AddressTexts) /\ DOMAIN e.ips = 1..Len(e.ips)
  BY EntriesAssumption
<1>2. /\ Adds(e).subnets = {}
      /\ Adds(e).ips = {[type |-> e.ips[k].type, ip |-> e.ips[k].ip] :
                          k \in {j \in DOMAIN e.ips : \A m \in 1..j : ParseIp(e.ips[m])}}
  BY DEF Adds, AccessAdd, AddDomain, Result
<1> DEFINE taken == {j \in DOMAIN e.ips : \A m \in 1..j : ParseIp(e.ips[m])}
           node(k) == [type |-> e.ips[k].type, ip |-> e.ips[k].ip]
<1>3. ASSUME Hits(e, q) PROVE \E k \in taken : q = <<e.ips[k].type, e.ips[k].ip>>
  <2>1. PICK n \in {node(k) : k \in taken} : q = <<n.type, n.ip>>
    BY <1>2, <1>3 DEF Hits
  <2>2. PICK k \in taken : n = node(k)
    BY <2>1
  <2>3. n.type = e.ips[k].type /\ n.ip = e.ips[k].ip
    BY <2>2
  <2> QED
    BY <2>1, <2>3
<1>4. ASSUME NEW k \in taken, q = <<e.ips[k].type, e.ips[k].ip>> PROVE Hits(e, q)
  <2>1. node(k) \in Adds(e).ips
    BY <1>2
  <2>2. node(k).type = e.ips[k].type /\ node(k).ip = e.ips[k].ip
    OBVIOUS
  <2> HIDE DEF node
  <2> QED
    BY <1>4, <2>1, <2>2 DEF Hits
<1>5. Covers(e, q) <=> \E k \in taken : q = <<e.ips[k].type, e.ips[k].ip>>
  BY <1>1 DEF Covers
<1> QED
  BY <1>3, <1>4, <1>5

\* The prefix of the whole length is the address.
LEMMA WholeWithin ==
  ASSUME NEW t \in AddressTexts, NEW q \in Peers, NEW mask,
         mask.form = "length", mask.num = Len_(t.type)
  PROVE  Within(t, mask, q) <=> q = <<t.type, t.ip>>
<1>1. t.type \in {"ipv4", "ipv6"} /\ t.ip \in SUBSET (1..Len_(t.type))
  BY DEF AddressTexts, TextsOf, Len_
<1>2. q = <<q[1], q[2]>> /\ q[2] \in SUBSET (1..Len_(q[1]))
  BY DEF Peers, Len_
<1>3. Within(t, mask, q) <=>
        q[1] = t.type /\ \A b \in 1..Len_(t.type) : b \in t.ip <=> b \in q[2]
  BY DEF Within
<1>4. ASSUME Within(t, mask, q) PROVE q = <<t.type, t.ip>>
  <2>1. q[1] = t.type /\ q[2] = t.ip
    BY <1>1, <1>2, <1>3, <1>4
  <2> QED
    BY <1>2, <2>1
<1>5. ASSUME q = <<t.type, t.ip>> PROVE Within(t, mask, q)
  BY <1>3, <1>5
<1> QED
  BY <1>4, <1>5

\* A subnet that is accepted: the mask of the node has the bits that count.
LEMMA SubnetHits ==
  ASSUME NEW e \in Entries, Subnet(e), NEW q \in Peers,
         ParseIp(e.ip), NetmaskOk(e.ip.type, e.mask)
  PROVE  Hits(e, q) <=> Within(e.ip, e.mask, q)
<1> DEFINE mask == Netmask(e.ip.type, e.mask)
           bits == IF e.mask.form = "length" THEN 1..e.mask.num ELSE e.mask.mask
<1>0. e.kind = "subnet" /\ e.ip \in AddressTexts /\ e.mask \in MaskTexts
      /\ e.mask.form # "overflow" /\ ~WholeAddress(e) /\ e.ip.ok
  BY EntriesAssumption DEF Subnet, ParseIp
<1>1. Adds(e).ips = {} /\ Adds(e).subnets = {[type |-> e.ip.type, ip |-> e.ip.ip, mask |-> mask]}
  BY <1>0 DEF Adds, AccessAdd, AddSubnet, Result
<1>2. Hits(e, q) <=> q[1] = e.ip.type /\ e.ip.ip \cap mask = q[2] \cap mask
  BY <1>1 DEF Hits
<1>3. mask = bits
  <2>1. CASE e.mask.form = "address"
    BY <2>1 DEF Netmask
  <2>2. CASE e.mask.form = "length"
    <3>1. e.mask.num \in Nat /\ e.mask.num <= Len_(e.ip.type) /\ e.ip.type \in {"ipv4", "ipv6"}
      BY <1>0, <2>2, LengthsAssumption DEF NetmaskOk, Len_, AddressTexts, TextsOf
    <3>2. mask = LengthMask(e.ip.type, e.mask.num)
      BY <2>2 DEF Netmask
    <3>3. CASE e.mask.num # Len6
      BY <2>2, <3>1, <3>2, <3>3, MaskFacts
    <3>4. e.mask.num # Len6
      <4>1. SUFFICES ASSUME e.mask.num = Len6 PROVE FALSE
        OBVIOUS
      <4>2. e.ip.type = "ipv6"
        BY <3>1, <4>1, LengthsAssumption DEF Len_
      <4>3. ":" \in e.ip.signs
        BY <1>0, <4>2 DEF AddressTexts, TextsOf
      <4> QED
        BY <1>0, <4>1, <4>3 DEF WholeAddress
    <3> QED
      BY <3>3, <3>4
  <2> QED
    BY <1>0, <2>1, <2>2 DEF MaskTexts
<1> QED
  BY <1>2, <1>3 DEF Within

\* What an entry added matches what it covers; if it was refused as a subnet, it
\* may match every address of its family.
LEMMA EntryHits ==
  ASSUME NEW e \in Entries, NEW q \in Peers
  PROVE  /\ Covers(e, q) => Hits(e, q)
         /\ Hits(e, q) => \/ Covers(e, q)
                          \/ Adds(e).ret = "error" /\ Subnet(e) /\ e.ip.type = q[1]
<1>1. CASE e.kind = "domain"
  BY <1>1, DomainHits
<1>2. CASE e.kind = "ip"
  <2>1. Adds(e) = AddIp({}, {}, e.ip)
    BY <1>2 DEF Adds, AccessAdd
  <2>2. Covers(e, q) <=> ParseIp(e.ip) /\ q = <<e.ip.type, e.ip.ip>>
    BY <1>2 DEF Covers
  <2> QED
    BY <2>1, <2>2, IpHits
<1>3. CASE e.kind = "subnet" /\ e.mask.form = "overflow"
  <2>1. Adds(e).ips = {} /\ Adds(e).subnets = {}
    BY <1>3 DEF Adds, AccessAdd, Result
  <2>2. ~Covers(e, q)
    BY <1>3 DEF Covers
  <2> QED
    BY <2>1, <2>2 DEF Hits
<1>4. CASE e.kind = "subnet" /\ e.mask.form # "overflow" /\ WholeAddress(e)
  <2>1. Adds(e) = AddIp({}, {}, e.ip)
    BY <1>4 DEF Adds, AccessAdd
  <2>2. e.ip \in AddressTexts /\ e.mask \in MaskTexts
    BY <1>4, EntriesAssumption
  <2>3. Covers(e, q) <=> ParseIp(e.ip) /\ q = <<e.ip.type, e.ip.ip>>
    <3>1. CASE MaskDropped(e)
      BY <1>4, <3>1 DEF Covers
    <3>2. CASE ~MaskDropped(e)
      <4>1. e.mask.form = "length" /\ e.mask.ok /\ e.mask.num = Len_(e.ip.type)
        BY <1>4, <3>2 DEF MaskDropped
      <4>2. NetmaskOk(e.ip.type, e.mask)
        BY <4>1, LengthsAssumption DEF NetmaskOk, Len_
      <4>3. Within(e.ip, e.mask, q) <=> q = <<e.ip.type, e.ip.ip>>
        BY <2>2, <4>1, WholeWithin
      <4> QED
        BY <1>4, <3>2, <4>2, <4>3 DEF Covers
    <3> QED
      BY <3>1, <3>2
  <2> QED
    BY <2>1, <2>3, IpHits
<1>5. CASE Subnet(e)
  <2>1. Covers(e, q) <=> /\ ParseIp(e.ip) /\ NetmaskOk(e.ip.type, e.mask)
                         /\ Within(e.ip, e.mask, q)
    BY <1>5 DEF Covers, Subnet, MaskDropped
  <2>2. CASE ParseIp(e.ip) /\ NetmaskOk(e.ip.type, e.mask)
    BY <1>5, <2>1, <2>2, SubnetHits
  <2>3. CASE ~(ParseIp(e.ip) /\ NetmaskOk(e.ip.type, e.mask))
    <3>1. /\ Adds(e).ret = "error" /\ Adds(e).ips = {}
          /\ \A n \in Adds(e).subnets : n.type = e.ip.type
      BY <1>5, <2>3 DEF Adds, AccessAdd, AddSubnet, Result, Subnet
    <3> QED
      BY <1>5, <2>1, <2>3, <3>1 DEF Hits
  <2> QED
    BY <2>2, <2>3
<1> QED
  BY <1>1, <1>2, <1>3, <1>4, <1>5, EntriesAssumption DEF Subnet

-----------------------------------------------------------------------------
(* Peers. *)

\* The addresses of a peer are addresses.
LEMMA AddressFacts ==
  ASSUME NEW p \in Peers, NEW q \in Addresses(p)
  PROVE  q \in Peers
<1>1. CASE q = p
  BY <1>1
<1>2. CASE p[1] = "ipv6" /\ q = <<"ipv4", MappedPart(p[2])>>
  <2>1. MappedPart(p[2]) \in SUBSET (1..Len4)
    BY LengthsAssumption DEF MappedPart, Offset
  <2> QED
    BY <1>2, <2>1 DEF Peers
<1> QED
  BY <1>1, <1>2 DEF Addresses

\* The match of a node, special case and all, is that of the peer's addresses.
LEMMA IpItemFacts ==
  ASSUME NEW p \in Peers, NEW n
  PROVE  IpItemMatch(n, p[1], p[2]) <=> \E q \in Addresses(p) : q = <<n.type, n.ip>>
<1>1. p = <<n.type, n.ip>> <=> p[1] = n.type /\ p[2] = n.ip
  BY DEF Peers
<1>2. <<"ipv4", MappedPart(p[2])>> = <<n.type, n.ip>> <=>
        n.type = "ipv4" /\ MappedPart(p[2]) = n.ip
  OBVIOUS
<1>3. (\E q \in Addresses(p) : q = <<n.type, n.ip>>) <=>
        \/ p = <<n.type, n.ip>>
        \/ /\ p[1] = "ipv6" /\ IsMapped(p[2])
           /\ <<"ipv4", MappedPart(p[2])>> = <<n.type, n.ip>>
  BY Zenon DEF Addresses
<1> QED
  BY <1>1, <1>2, <1>3 DEF IpItemMatch

LEMMA SubnetFacts ==
  ASSUME NEW p \in Peers, NEW n
  PROVE  SubnetMatch(n, p[1], p[2]) <=>
           \E q \in Addresses(p) : q[1] = n.type /\ n.ip \cap n.mask = q[2] \cap n.mask
<1> DEFINE m == <<"ipv4", MappedPart(p[2])>>
           Agrees(q) == q[1] = n.type /\ n.ip \cap n.mask = q[2] \cap n.mask
<1>1. m[1] = "ipv4" /\ m[2] = MappedPart(p[2])
  OBVIOUS
<1>2. \A q : q \in Addresses(p) <=> q = p \/ (p[1] = "ipv6" /\ IsMapped(p[2]) /\ q = m)
  BY Zenon DEF Addresses
<1>3. SubnetMatch(n, p[1], p[2]) <=>
        Agrees(p) \/ (p[1] = "ipv6" /\ IsMapped(p[2]) /\ Agrees(m))
  BY <1>1 DEF SubnetMatch
<1> HIDE DEF m, Agrees
<1>4. (\E q \in Addresses(p) : Agrees(q)) <=>
        Agrees(p) \/ (p[1] = "ipv6" /\ IsMapped(p[2]) /\ Agrees(m))
  BY <1>2, Zenon
<1> QED
  BY <1>3, <1>4 DEF Agrees

\* The lists match a peer if and only if one of the entries does.
LEMMA MatchFacts ==
  ASSUME AccessInv, alive, NEW p \in Peers
  PROVE  IpMatch(p[1], p[2]) <=>
           \E i \in 1..Len(calls), q \in Addresses(p) : Hits(calls[i].entry, q)
<1>1. /\ \A n : n \in ips <=> \E i \in 1..Len(calls) : n \in Adds(calls[i].entry).ips
      /\ \A n : n \in subnets <=> \E i \in 1..Len(calls) : n \in Adds(calls[i].entry).subnets
  BY DEF AccessInv
<1>2. IpMatch(p[1], p[2]) <=>
        \/ \E n \in ips, q \in Addresses(p) : q = <<n.type, n.ip>>
        \/ \E n \in subnets, q \in Addresses(p) :
             q[1] = n.type /\ n.ip \cap n.mask = q[2] \cap n.mask
  BY IpItemFacts, SubnetFacts DEF IpMatch
<1> QED
  BY <1>1, <1>2, Zenon DEF Hits

-----------------------------------------------------------------------------
(* The specification. *)

\* http2d_access_add appends what its entry adds.
LEMMA AddKeeps ==
  ASSUME AccessInv, NEW e \in Entries, Add(e)
  PROVE  AccessInv'
<1> DEFINE call == [entry |-> e, ret |-> Adds(e).ret]
           k == Len(calls)
<1>1. /\ ips' = ips \cup Adds(e).ips /\ subnets' = subnets \cup Adds(e).subnets
      /\ calls' = Append(calls, call) /\ alive' = alive /\ alive
      /\ Adds(e).ret \in {"ok", "error"}
  BY AddsFacts DEF Add
<1>2. calls \in Seq([entry : Entries, ret : {"ok", "error"}])
  BY DEF AccessInv
<1>3. call \in [entry : Entries, ret : {"ok", "error"}]
  BY <1>1
<1>4. call.entry = e /\ call.ret = Adds(e).ret
  OBVIOUS
<1> HIDE DEF call
<1>5. /\ calls' \in Seq([entry : Entries, ret : {"ok", "error"}])
      /\ k \in Nat /\ Len(calls') = k + 1 /\ calls'[k + 1] = call
      /\ \A i \in 1..k : calls'[i] = calls[i]
  BY <1>1, <1>2, <1>3
<1>6. 1..Len(calls') = (1..k) \cup {k + 1}
  BY <1>5
<1> HIDE DEF k
<1>7. \A i \in 1..Len(calls') : calls'[i].ret = Adds(calls'[i].entry).ret
  BY <1>4, <1>5, <1>6 DEF AccessInv, k
<1>8. ips' = UNION {Adds(calls'[i].entry).ips : i \in 1..Len(calls')}
  <2>1. ips = UNION {Adds(calls[i].entry).ips : i \in 1..k}
    BY <1>1 DEF AccessInv, k
  <2> QED
    BY <1>1, <1>4, <1>5, <1>6, <2>1
<1>9. subnets' = UNION {Adds(calls'[i].entry).subnets : i \in 1..Len(calls')}
  <2>1. subnets = UNION {Adds(calls[i].entry).subnets : i \in 1..k}
    BY <1>1 DEF AccessInv, k
  <2> QED
    BY <1>1, <1>4, <1>5, <1>6, <2>1
<1> QED
  BY <1>5, <1>7, <1>8, <1>9 DEF AccessInv, Adds, AccessAdd

\* The lists are what the calls of http2d_access_add added, entry by entry, and
\* each answer is that of its entry, in whichever order they came.
THEOREM AccessInvariance == AccessSpec => []AccessInv
<1>1. AccessInit => AccessInv
  BY DEF AccessInit, AccessInv
<1>2. AccessInv /\ [AccessNext]_accessVars => AccessInv'
  <2> SUFFICES ASSUME AccessInv, [AccessNext]_accessVars PROVE AccessInv'
    OBVIOUS
  <2>1. CASE UNCHANGED accessVars
    BY <2>1 DEF AccessInv, accessVars
  <2>2. CASE Mrproper
    BY <2>2 DEF AccessInv, Mrproper
  <2>3. ASSUME NEW e \in Entries, Add(e) PROVE AccessInv'
    BY <2>3, AddKeeps
  <2> QED
    BY <2>1, <2>2, <2>3 DEF AccessNext
<1> QED
  BY <1>1, <1>2, PTL DEF AccessSpec

\* http2d_access_ip_match decides what the entries mean, for addresses of any
\* length: the masks are right at every byte boundary, a mapped address is
\* matched as both, and only a refused subnet lets in more than was asked.
THEOREM MatchesWhatIsCovered == AccessSpec => []MatchIffCovered
<1>1. AccessInv => MatchIffCovered
  <2> SUFFICES ASSUME AccessInv, alive, NEW p \in Peers
               PROVE  /\ Covered(p) => IpMatch(p[1], p[2])
                      /\ IpMatch(p[1], p[2]) => Covered(p) \/ Refused(p)
    BY DEF MatchIffCovered
  <2>1. \A i \in 1..Len(calls) : /\ calls[i].entry \in Entries
                                 /\ calls[i].ret = Adds(calls[i].entry).ret
    <3> DEFINE S == [entry : Entries, ret : {"ok", "error"}]
    <3>0. calls \in Seq(S)
      BY DEF AccessInv
    <3> HIDE DEF S
    <3>1. \A i \in 1..Len(calls) : calls[i] \in S
      BY <3>0
    <3> USE DEF S
    <3> QED
      BY <3>1 DEF AccessInv
  <2>2. \A i \in 1..Len(calls), q \in Addresses(p) :
          /\ Covers(calls[i].entry, q) => Hits(calls[i].entry, q)
          /\ Hits(calls[i].entry, q) =>
               \/ Covers(calls[i].entry, q)
               \/ /\ calls[i].ret = "error" /\ Subnet(calls[i].entry)
                  /\ calls[i].entry.ip.type = q[1]
    BY <2>1, AddressFacts, EntryHits
  <2> QED
    BY <2>2, MatchFacts DEF Covered, Refused
<1> QED
  BY <1>1, AccessInvariance, PTL

-----------------------------------------------------------------------------
(* The plug-in loader. *)

\* A call of load_common that has not returned.
Frame == [mod : Modules, next : Nat \ {0}]

\* The variables have their types.
LoaderTypeOK ==
  /\ disk \in Disks
  /\ loader \in [table : SUBSET Modules, handles : [Modules -> Int], inits : Seq(Modules)]
  /\ frames \in Seq(Frame)
  /\ first \in Nat \ {0}

\* A frame is of a module that is not in the table, and waits for the
\* dependency whose frame is on it.
FramesLinked ==
  \A k \in 1..Len(frames) :
    /\ frames[k].mod \notin loader.table
    /\ frames[k].next <= Len(disk[frames[k].mod].deps) + 1
    /\ k < Len(frames) =>
         /\ frames[k].next >= 2
         /\ frames[k + 1].mod = disk[frames[k].mod].deps[frames[k].next - 1]

\* The dependencies that a frame is done with are in the table if they can be.
DepsLoaded ==
  \A k \in 1..Len(frames) : \A e \in 1..(frames[k].next - 1) :
    k = Len(frames) \/ e < frames[k].next - 1 =>
      (Loadable(disk[frames[k].mod].deps[e]) => disk[frames[k].mod].deps[e] \in loader.table)

\* A second frame of a module, on a cycle of dependencies, never gets past the
\* dependency that the first one waits for.
NeverPast ==
  \A p, q \in 1..Len(frames) : p < q /\ frames[p].mod = frames[q].mod =>
    /\ frames[q].next <= frames[p].next
    /\ q = Len(frames) => frames[q].next < frames[p].next

\* The invariant of the loader.
LoaderInv ==
  /\ LoaderTypeOK /\ FramesLinked /\ DepsLoaded /\ NeverPast
  /\ frames # <<>> => lastRet[1] = "running"
  /\ LoadedInOrder

\* What a frame is about.
LEMMA FrameFacts ==
  ASSUME LoaderTypeOK
  PROVE  /\ Len(frames) \in Nat /\ (frames # <<>> <=> Len(frames) > 0)
         /\ \A k \in 1..Len(frames) :
              /\ frames[k].mod \in Modules /\ frames[k].next \in Nat /\ frames[k].next > 0
              /\ disk[frames[k].mod].deps \in Seq(Modules)
              /\ Len(disk[frames[k].mod].deps) \in Nat
<1>1. /\ frames \in Seq(Frame) /\ disk \in [Modules -> Files]
  BY DisksAssumption DEF LoaderTypeOK
<1>2. Len(frames) \in Nat /\ (frames # <<>> <=> Len(frames) > 0)
  BY <1>1
<1>3. ASSUME NEW k \in 1..Len(frames)
      PROVE  /\ frames[k].mod \in Modules /\ frames[k].next \in Nat /\ frames[k].next > 0
             /\ disk[frames[k].mod].deps \in Seq(Modules)
             /\ Len(disk[frames[k].mod].deps) \in Nat
  <2>1. frames[k] \in Frame
    BY <1>1
  <2>2. frames[k].mod \in Modules /\ frames[k].next \in Nat /\ frames[k].next > 0
    BY <2>1 DEF Frame
  <2>3. disk[frames[k].mod].deps \in Seq(Modules)
    BY <1>1, <2>2 DEF Files
  <2> QED
    BY <2>2, <2>3
<1> QED
  BY <1>2, <1>3

\* A further line of a .deps file.
LEMMA CheckDepsKeeps ==
  ASSUME LoaderInv, CheckDeps
  PROVE  LoaderInv'
<1> DEFINE n == Len(frames)
           f == frames[n]
           d == disk[f.mod].deps[f.next]
           fs == [frames EXCEPT ![n].next = @ + 1]
<1>1. /\ LoaderTypeOK /\ FramesLinked /\ DepsLoaded /\ NeverPast /\ LoadedInOrder
      /\ frames # <<>> => lastRet[1] = "running"
  BY DEF LoaderInv
<1>2. /\ frames # <<>> /\ ~DepsDone(f)
      /\ frames' = Enter(fs, d)
      /\ UNCHANGED <<disk, loader, first, lastRet, nloads>>
  BY DEF CheckDeps, Last
<1>3. /\ n \in Nat /\ n > 0 /\ n \in 1..n
      /\ \A k \in 1..n :
           /\ frames[k].mod \in Modules /\ frames[k].next \in Nat /\ frames[k].next > 0
           /\ disk[frames[k].mod].deps \in Seq(Modules)
           /\ Len(disk[frames[k].mod].deps) \in Nat
  BY <1>1, <1>2, FrameFacts
<1>4. f.next \in 1..Len(disk[f.mod].deps)
  BY <1>2, <1>3 DEF DepsDone
<1>5. d \in Modules
  BY <1>3, <1>4
<1>6. /\ fs \in Seq(Frame) /\ Len(fs) = n
      /\ \A k \in 1..n : fs[k].mod = frames[k].mod
      /\ \A k \in 1..n : fs[k].next = IF k = n THEN f.next + 1 ELSE frames[k].next
  <2>1. frames \in Seq(Frame) /\ frames \in [1..n -> Frame]
    BY <1>1 DEF LoaderTypeOK
  <2>2. fs = [frames EXCEPT ![n] = [frames[n] EXCEPT !.next = @ + 1]]
    OBVIOUS
  <2>3. /\ [frames[n] EXCEPT !.next = @ + 1] \in Frame
        /\ [frames[n] EXCEPT !.next = @ + 1].mod = frames[n].mod
        /\ [frames[n] EXCEPT !.next = @ + 1].next = frames[n].next + 1
    <3>1. frames[n] \in Frame
      BY <1>3, <2>1
    <3> QED
      BY <3>1 DEF Frame
  <2>4. fs \in [1..n -> Frame]
    BY <2>1, <2>2, <2>3
  <2>5. \A k \in 1..n : fs[k] = IF k = n THEN [frames[n] EXCEPT !.next = @ + 1] ELSE frames[k]
    BY <2>1, <2>2
  <2> HIDE DEF fs
  <2>6. fs \in Seq(Frame) /\ Len(fs) = n
    BY <1>3, <2>4
  <2> QED
    BY <2>3, <2>5, <2>6
<1>7. /\ d \in loader.table => frames' = fs
      /\ d \notin loader.table => frames' = Append(fs, [mod |-> d, next |-> 1])
  BY <1>2 DEF Enter
<1>8. /\ frames' \in Seq(Frame)
      /\ Len(frames') = IF d \in loader.table THEN n ELSE n + 1
      /\ \A k \in 1..n : frames'[k].mod = frames[k].mod
      /\ \A k \in 1..n : frames'[k].next = IF k = n THEN f.next + 1 ELSE frames[k].next
      /\ d \notin loader.table => frames'[n + 1].mod = d /\ frames'[n + 1].next = 1
  <2> HIDE DEF fs, d, f
  <2>1. CASE d \in loader.table
    BY <1>3, <1>6, <1>7, <2>1
  <2>2. CASE d \notin loader.table
    <3> DEFINE g == [mod |-> d, next |-> 1]
    <3>1. g \in Frame /\ g.mod = d /\ g.next = 1
      BY <1>5 DEF Frame
    <3>2. frames' = Append(fs, g)
      BY <1>7, <2>2
    <3> HIDE DEF g
    <3>3. /\ Append(fs, g) \in Seq(Frame) /\ Len(Append(fs, g)) = n + 1
          /\ \A k \in 1..n : Append(fs, g)[k] = fs[k]
          /\ Append(fs, g)[n + 1] = g
      BY <1>3, <1>6, <3>1
    <3> QED
      BY <1>6, <2>2, <3>1, <3>2, <3>3
  <2> QED
    BY <2>1, <2>2
<1> HIDE DEF fs
<1>9. LoaderTypeOK'
  BY <1>1, <1>2, <1>8 DEF LoaderTypeOK
<1>10. FramesLinked'
  <2> SUFFICES ASSUME NEW k \in 1..Len(frames')
               PROVE  /\ frames'[k].mod \notin loader.table
                      /\ frames'[k].next <= Len(disk[frames'[k].mod].deps) + 1
                      /\ k < Len(frames') =>
                           /\ frames'[k].next >= 2
                           /\ frames'[k + 1].mod = disk[frames'[k].mod].deps[frames'[k].next - 1]
    BY <1>2 DEF FramesLinked
  <2>1. CASE k < n
    <3>1. /\ k \in 1..n /\ k + 1 \in 1..n /\ k # n
          /\ frames'[k].mod = frames[k].mod /\ frames'[k].next = frames[k].next
          /\ frames'[k + 1].mod = frames[k + 1].mod
      BY <1>3, <1>8, <2>1
    <3> QED
      BY <1>1, <2>1, <3>1 DEF FramesLinked
  <2>2. CASE k = n
    <3>1. frames'[k].mod = f.mod /\ frames'[k].next = f.next + 1
      BY <1>3, <1>8, <2>2
    <3>2. f.mod \notin loader.table
      BY <1>1, <1>3 DEF FramesLinked
    <3>3. f.next + 1 >= 2 /\ f.next + 1 <= Len(disk[f.mod].deps) + 1 /\ (f.next + 1) - 1 = f.next
      BY <1>3, <1>4
    <3>4. k < Len(frames') => frames'[k + 1].mod = d
      BY <1>3, <1>8, <2>2
    <3> QED
      BY <3>1, <3>2, <3>3, <3>4
  <2>3. CASE k > n
    <3>1. k = n + 1 /\ d \notin loader.table /\ ~(k < Len(frames'))
      BY <1>3, <1>8, <2>3
    <3>2. frames'[k].mod = d /\ frames'[k].next = 1
      BY <1>8, <3>1
    <3>3. Len(disk[d].deps) \in Nat
      <4>1. disk \in [Modules -> Files]
        BY <1>1, DisksAssumption DEF LoaderTypeOK
      <4> HIDE DEF d, f
      <4>2. disk[d] \in Files
        BY <1>5, <4>1
      <4> QED
        BY <4>2 DEF Files
    <3> HIDE DEF d, f
    <3> QED
      BY <3>1, <3>2, <3>3
  <2> QED
    BY <1>3, <1>8, <2>1, <2>2, <2>3
<1>11. DepsLoaded'
  <2> SUFFICES ASSUME NEW k \in 1..Len(frames'), NEW e \in 1..(frames'[k].next - 1),
                      k = Len(frames') \/ e < frames'[k].next - 1,
                      Loadable(disk[frames'[k].mod].deps[e])
               PROVE  disk[frames'[k].mod].deps[e] \in loader.table
    BY <1>2 DEF DepsLoaded, Loadable
  <2>1. CASE k < n
    <3>1. /\ k \in 1..n /\ k # n /\ k # Len(frames')
          /\ frames'[k].mod = frames[k].mod /\ frames'[k].next = frames[k].next
      BY <1>3, <1>8, <2>1
    <3> QED
      BY <1>1, <3>1 DEF DepsLoaded
  <2>2. CASE k = n
    <3>1. frames'[k].mod = f.mod /\ frames'[k].next = f.next + 1
      BY <1>3, <1>8, <2>2
    <3>2. CASE e = f.next
      <4>1. k = Len(frames')
        BY <1>3, <3>1, <3>2
      <4>2. d \in loader.table
        <5> HIDE DEF d, f
        <5> QED
          BY <1>3, <1>8, <2>2, <4>1
      <4> QED
        BY <3>1, <3>2, <4>2
    <3>3. CASE e # f.next
      <4>1. e \in 1..(f.next - 1)
        BY <1>3, <3>1, <3>3
      <4> QED
        BY <1>1, <1>3, <3>1, <4>1 DEF DepsLoaded
    <3> QED
      BY <3>2, <3>3
  <2>3. CASE k > n
    <3>1. frames'[k].next = 1
      BY <1>3, <1>8, <2>3
    <3> QED
      BY <3>1
  <2> QED
    BY <1>3, <1>8, <2>1, <2>2, <2>3
<1>12. NeverPast'
  <2> SUFFICES ASSUME NEW p \in 1..Len(frames'), NEW q \in 1..Len(frames'), p < q,
                      frames'[p].mod = frames'[q].mod
               PROVE  /\ frames'[q].next <= frames'[p].next
                      /\ q = Len(frames') => frames'[q].next < frames'[p].next
    BY DEF NeverPast
  <2>1. CASE q < n
    <3>1. /\ p \in 1..n /\ q \in 1..n /\ p # n /\ q # n /\ q # Len(frames')
          /\ frames'[p].mod = frames[p].mod /\ frames'[p].next = frames[p].next
          /\ frames'[q].mod = frames[q].mod /\ frames'[q].next = frames[q].next
      BY <1>3, <1>8, <2>1
    <3> QED
      BY <1>1, <3>1 DEF NeverPast
  <2>2. CASE q = n
    <3>1. /\ p \in 1..n /\ p # n /\ p < n /\ p + 1 \in 1..n
          /\ frames'[p].mod = frames[p].mod /\ frames'[p].next = frames[p].next
          /\ frames'[q].mod = f.mod /\ frames'[q].next = f.next + 1
      BY <1>3, <1>8, <2>2
    <3>2. f.next < frames[p].next
      BY <1>1, <1>3, <3>1 DEF NeverPast
    <3>3. frames[p].next \in Nat /\ f.next \in Nat
      BY <1>3, <3>1
    <3>4. ASSUME q = Len(frames') PROVE f.next + 1 < frames[p].next
      <4>1. d \in loader.table
        <5> HIDE DEF d, f
        <5> QED
          BY <1>3, <1>8, <2>2, <3>4
      <4>2. /\ frames[p + 1].mod = disk[frames[p].mod].deps[frames[p].next - 1]
            /\ frames[p + 1].mod \notin loader.table
        BY <1>1, <3>1 DEF FramesLinked
      <4>3. disk[frames[p].mod].deps[frames[p].next - 1] # disk[frames[p].mod].deps[f.next]
        BY <2>2, <3>1, <4>1, <4>2
      <4>4. frames[p].next - 1 # f.next
        BY <4>3
      <4> QED
        BY <3>2, <3>3, <4>4
    <3> QED
      BY <3>1, <3>2, <3>3, <3>4
  <2>3. CASE q > n
    <3>1. q = n + 1 /\ frames'[q].next = 1
      BY <1>3, <1>8, <2>3
    <3>2. frames'[p].next \in Nat /\ frames'[p].next >= 2
      <4>1. p \in 1..n
        BY <1>3, <3>1
      <4>2. CASE p = n
        BY <1>3, <1>8, <4>1, <4>2
      <4>3. CASE p < n
        BY <1>1, <1>3, <1>8, <4>1, <4>3 DEF FramesLinked
      <4> QED
        BY <1>3, <4>1, <4>2, <4>3
    <3> QED
      BY <3>1, <3>2
  <2> QED
    BY <1>3, <1>8, <2>1, <2>2, <2>3
<1>13. LoadedInOrder'
  <2>1. disk' = disk /\ loader' = loader /\ first' = first /\ lastRet' = lastRet
    BY <1>2
  <2> QED
    BY <1>1, <2>1 DEF LoadedInOrder, Loadable, IsInjective, Contains
<1> QED
  BY <1>1, <1>2, <1>9, <1>10, <1>11, <1>12, <1>13 DEF LoaderInv

\* The end of load_common: what it does to the table, the handles and the calls.
LEMMA LoadSelfFacts ==
  ASSUME LoaderTypeOK, NEW m \in Modules
  PROVE  LET s == LoadSelf(loader, m)
         IN  /\ s \in [table : SUBSET Modules, handles : [Modules -> Int], inits : Seq(Modules)]
             /\ s.table = IF Loadable(m) THEN loader.table \cup {m} ELSE loader.table
             /\ \A x \in Modules : s.handles[x] =
                  IF x = m /\ disk[m].opens THEN loader.handles[x] + 1 ELSE loader.handles[x]
             /\ s.inits = IF Loadable(m) /\ disk[m].init THEN Append(loader.inits, m)
                          ELSE loader.inits
<1> DEFINE T == [table : SUBSET Modules, handles : [Modules -> Int], inits : Seq(Modules)]
           o == DylibOpen(loader, m)
           t == [o EXCEPT !.table = @ \cup {m}]
           u == [t EXCEPT !.inits = Append(@, m)]
<1>1. loader \in T
  BY DEF LoaderTypeOK
<1>2. /\ o \in T /\ o.table = loader.table /\ o.inits = loader.inits
      /\ \A x \in Modules : o.handles[x] =
           IF x = m THEN loader.handles[x] + 1 ELSE loader.handles[x]
  <2> DEFINE h == [loader.handles EXCEPT ![m] = @ + 1]
  <2>1. loader.handles \in [Modules -> Int]
    BY <1>1
  <2>2. /\ h \in [Modules -> Int]
        /\ \A x \in Modules : h[x] = IF x = m THEN loader.handles[x] + 1 ELSE loader.handles[x]
    BY <2>1
  <2>3. o = [loader EXCEPT !.handles = h]
    BY DEF DylibOpen
  <2> HIDE DEF h, o
  <2> QED
    BY <1>1, <2>2, <2>3
<1> HIDE DEF o
<1>3. /\ t \in T /\ t.table = loader.table \cup {m} /\ t.inits = loader.inits
      /\ t.handles = o.handles
  BY <1>2
<1> HIDE DEF t
<1>4. /\ u \in T /\ u.table = loader.table \cup {m} /\ u.inits = Append(loader.inits, m)
      /\ u.handles = o.handles
  <2>1. Append(t.inits, m) \in Seq(Modules)
    BY <1>3
  <2> QED
    BY <1>3, <2>1
<1> HIDE DEF u
<1>5. LoadSelf(loader, m) = IF ~disk[m].opens THEN loader
                            ELSE IF ~disk[m].info THEN o
                            ELSE IF disk[m].init THEN u ELSE t
  BY DEF LoadSelf, ExecuteInit, o, t, u
<1> HIDE DEF T
<1>6. CASE ~disk[m].opens
  BY <1>1, <1>5, <1>6 DEF Loadable, T
<1>7. CASE disk[m].opens /\ ~disk[m].info
  BY <1>2, <1>5, <1>7 DEF Loadable, T
<1>8. CASE Loadable(m) /\ disk[m].init
  BY <1>2, <1>4, <1>5, <1>8 DEF Loadable, T
<1>9. CASE Loadable(m) /\ ~disk[m].init
  BY <1>2, <1>3, <1>5, <1>9 DEF Loadable, T
<1> QED
  BY <1>6, <1>7, <1>8, <1>9 DEF Loadable

\* A module whose dependencies are done.
LEMMA LoadDoneKeeps ==
  ASSUME LoaderInv, LoadDone
  PROVE  LoaderInv'
<1> DEFINE n == Len(frames)
           f == frames[n]
           m == f.mod
<1>1. /\ LoaderTypeOK /\ FramesLinked /\ DepsLoaded /\ NeverPast /\ LoadedInOrder
      /\ frames # <<>> => lastRet[1] = "running"
  BY DEF LoaderInv
<1>2. /\ frames # <<>> /\ DepsDone(f)
      /\ frames' = Front(frames)
      /\ loader' = LoadSelf(loader, m)
      /\ lastRet' = IF n = 1 THEN <<LoadRet(m), m>> ELSE lastRet
      /\ disk' = disk /\ first' = first
  BY DEF LoadDone, Last
<1>3. /\ n \in Nat /\ n > 0 /\ n \in 1..n
      /\ \A k \in 1..n :
           /\ frames[k].mod \in Modules /\ frames[k].next \in Nat /\ frames[k].next > 0
           /\ disk[frames[k].mod].deps \in Seq(Modules)
           /\ Len(disk[frames[k].mod].deps) \in Nat
  BY <1>1, <1>2, FrameFacts
<1>4. m \in Modules /\ m \notin loader.table
  BY <1>1, <1>3 DEF FramesLinked
<1>5. f.next = Len(disk[m].deps) + 1
  <2>1. f.next > Len(disk[m].deps) /\ f.next <= Len(disk[m].deps) + 1
    BY <1>1, <1>2, <1>3 DEF FramesLinked, DepsDone
  <2> QED
    BY <1>3, <2>1
<1>6. \A p \in 1..(n - 1) : frames[p].mod # m
  <2> SUFFICES ASSUME NEW p \in 1..(n - 1), frames[p].mod = m PROVE FALSE
    OBVIOUS
  <2>1. p \in 1..n /\ p < n
    BY <1>3
  <2>2. f.next < frames[p].next /\ frames[p].next <= Len(disk[m].deps) + 1
    BY <1>1, <1>3, <2>1 DEF NeverPast, FramesLinked
  <2> QED
    BY <1>3, <1>5, <2>1, <2>2
<1>7. /\ frames' \in Seq(Frame) /\ Len(frames') = n - 1
      /\ \A k \in 1..(n - 1) : frames'[k] = frames[k]
  <2>1. frames \in Seq(Frame)
    BY <1>1 DEF LoaderTypeOK
  <2> QED
    BY <1>2, <2>1, FrontFacts
<1>8. /\ loader' \in [table : SUBSET Modules, handles : [Modules -> Int], inits : Seq(Modules)]
      /\ loader'.table = IF Loadable(m) THEN loader.table \cup {m} ELSE loader.table
      /\ \A x \in Modules : loader'.handles[x] =
           IF x = m /\ disk[m].opens THEN loader.handles[x] + 1 ELSE loader.handles[x]
      /\ loader'.inits = IF Loadable(m) /\ disk[m].init THEN Append(loader.inits, m)
                         ELSE loader.inits
  BY <1>1, <1>2, <1>4, LoadSelfFacts
<1>9. /\ loader.inits \in Seq(Modules) /\ Len(loader.inits) \in Nat /\ first \in Nat
      /\ loader.handles \in [Modules -> Int] /\ loader.table \subseteq Modules
  BY <1>1 DEF LoaderTypeOK
<1>10. \A x : Loadable(x)' <=> Loadable(x)
  BY <1>2 DEF Loadable
<1>11. \A e \in 1..Len(disk[m].deps) :
         Loadable(disk[m].deps[e]) => disk[m].deps[e] \in loader.table
  BY <1>1, <1>3, <1>5 DEF DepsLoaded
<1> HIDE DEF m
<1>12. LoaderTypeOK'
  BY <1>1, <1>2, <1>7, <1>8 DEF LoaderTypeOK
<1>13. FramesLinked'
  <2> SUFFICES ASSUME NEW k \in 1..(n - 1)
               PROVE  /\ frames'[k].mod \notin loader'.table
                      /\ frames'[k].next <= Len(disk[frames'[k].mod].deps) + 1
                      /\ k < n - 1 =>
                           /\ frames'[k].next >= 2
                           /\ frames'[k + 1].mod = disk[frames'[k].mod].deps[frames'[k].next - 1]
    BY <1>2, <1>7 DEF FramesLinked
  <2>1. /\ k \in 1..n /\ k < n /\ frames'[k] = frames[k]
        /\ k < n - 1 => frames'[k + 1] = frames[k + 1]
    BY <1>3, <1>7
  <2>2. frames[k].mod \notin loader'.table
    BY <1>1, <1>6, <1>8, <2>1 DEF FramesLinked
  <2> QED
    BY <1>1, <2>1, <2>2 DEF FramesLinked
<1>14. DepsLoaded'
  <2> SUFFICES ASSUME NEW k \in 1..(n - 1), NEW e \in 1..(frames[k].next - 1),
                      k = n - 1 \/ e < frames[k].next - 1,
                      Loadable(disk[frames[k].mod].deps[e])
               PROVE  disk[frames[k].mod].deps[e] \in loader'.table
    BY <1>2, <1>3, <1>7 DEF DepsLoaded, Loadable
  <2>1. k \in 1..n /\ k < n
    BY <1>3
  <2>2. CASE e < frames[k].next - 1
    BY <1>1, <1>8, <2>1, <2>2 DEF DepsLoaded
  <2>3. CASE e = frames[k].next - 1 /\ k = n - 1
    <3>1. frames[k + 1].mod = disk[frames[k].mod].deps[e] /\ k + 1 = n
      BY <1>1, <1>3, <2>1, <2>3 DEF FramesLinked
    <3>2. disk[frames[k].mod].deps[e] = m
      BY <3>1 DEF m
    <3> QED
      BY <1>8, <3>2
  <2> QED
    BY <1>3, <2>1, <2>2, <2>3
<1>15. NeverPast'
  <2> SUFFICES ASSUME NEW p \in 1..(n - 1), NEW q \in 1..(n - 1), p < q,
                      frames[p].mod = frames[q].mod
               PROVE  /\ frames[q].next <= frames[p].next
                      /\ q = n - 1 => frames[q].next < frames[p].next
    BY <1>7 DEF NeverPast
  <2>1. p \in 1..n /\ q \in 1..n /\ p < n /\ q < n /\ p + 1 \in 1..(n - 1)
    BY <1>3
  <2>2. frames[q].next <= frames[p].next
    BY <1>1, <2>1 DEF NeverPast
  <2>3. ASSUME q = n - 1 PROVE frames[q].next # frames[p].next
    <3>1. frames[q + 1].mod = disk[frames[q].mod].deps[frames[q].next - 1] /\ q + 1 = n
      BY <1>1, <1>3, <2>1, <2>3 DEF FramesLinked
    <3>2. frames[p + 1].mod = disk[frames[p].mod].deps[frames[p].next - 1]
      BY <1>1, <2>1 DEF FramesLinked
    <3>3. frames[p + 1].mod # m
      BY <1>6, <2>1
    <3> QED
      BY <3>1, <3>2, <3>3 DEF m
  <2> QED
    BY <1>3, <2>1, <2>2, <2>3
<1>16. LoadedInOrder'
  <2>1. /\ IsInjective(loader.inits)
        /\ \A x \in Modules : Contains(loader.inits, x) => x \in loader.table
        /\ \A x \in Modules : IF Loadable(x) THEN loader.handles[x] = IF x \in loader.table THEN 1 ELSE 0
                              ELSE x \notin loader.table
    BY <1>1 DEF LoadedInOrder
  <2>2. \A i \in first..Len(loader.inits) : \A e \in DOMAIN disk[loader.inits[i]].deps :
          Loadable(disk[loader.inits[i]].deps[e]) =>
            /\ disk[loader.inits[i]].deps[e] \in loader.table
            /\ \A k \in i..Len(loader.inits) : loader.inits[k] # disk[loader.inits[i]].deps[e]
    BY <1>1 DEF LoadedInOrder
  <2>3. /\ IsInjective(loader'.inits)
        /\ \A x \in Modules : Contains(loader'.inits, x) => x \in loader'.table
    <3>1. CASE Loadable(m) /\ disk[m].init
      <4>1. ~Contains(loader.inits, m)
        BY <1>4, <2>1
      <4>2. /\ IsInjective(Append(loader.inits, m))
            /\ \A x : Contains(Append(loader.inits, m), x) <=> x = m \/ Contains(loader.inits, x)
        BY <1>4, <1>9, <2>1, <4>1, AppendFacts
      <4>3. loader'.inits = Append(loader.inits, m) /\ loader'.table = loader.table \cup {m}
        BY <1>8, <3>1
      <4> QED
        BY <2>1, <4>2, <4>3
    <3>2. CASE ~(Loadable(m) /\ disk[m].init)
      BY <1>8, <2>1, <3>2
    <3> QED
      BY <3>1, <3>2
  <2>4. \A x \in Modules : IF Loadable(x) THEN loader'.handles[x] = IF x \in loader'.table THEN 1 ELSE 0
                           ELSE x \notin loader'.table
    <3> SUFFICES ASSUME NEW x \in Modules
                 PROVE  IF Loadable(x) THEN loader'.handles[x] = IF x \in loader'.table THEN 1 ELSE 0
                        ELSE x \notin loader'.table
      OBVIOUS
    <3>1. CASE x = m
      <4>1. Loadable(m) => disk[m].opens /\ loader.handles[m] = 0
        BY <1>4, <2>1 DEF Loadable
      <4> QED
        BY <1>4, <1>8, <3>1, <4>1
    <3>2. CASE x # m
      BY <1>8, <2>1, <3>2
    <3> QED
      BY <3>1, <3>2
  <2>5. ASSUME NEW i \in first..Len(loader'.inits), NEW e \in DOMAIN disk[loader'.inits[i]].deps,
               Loadable(disk[loader'.inits[i]].deps[e])
        PROVE  /\ disk[loader'.inits[i]].deps[e] \in loader'.table
               /\ \A k \in i..Len(loader'.inits) : loader'.inits[k] # disk[loader'.inits[i]].deps[e]
    <3>1. CASE ~(Loadable(m) /\ disk[m].init)
      <4>1. loader'.inits = loader.inits /\ loader.table \subseteq loader'.table
        BY <1>8, <3>1
      <4>2. e \in DOMAIN disk[loader.inits[i]].deps /\ Loadable(disk[loader.inits[i]].deps[e])
        BY <2>5, <4>1
      <4> QED
        BY <2>2, <4>1, <4>2
    <3>2. CASE Loadable(m) /\ disk[m].init
      <4>1. /\ loader'.inits = Append(loader.inits, m) /\ loader'.table = loader.table \cup {m}
            /\ Len(loader'.inits) = Len(loader.inits) + 1
            /\ loader'.inits[Len(loader.inits) + 1] = m
            /\ \A k \in 1..Len(loader.inits) : loader'.inits[k] = loader.inits[k]
        BY <1>8, <1>9, <3>2
      <4>2. first > 0
        BY <1>1 DEF LoaderTypeOK
      <4>3. disk[loader'.inits[i]].deps[e] \in loader.table
        <5>1. CASE i = Len(loader.inits) + 1
          <6>1. loader'.inits[i] = m /\ DOMAIN disk[m].deps = 1..Len(disk[m].deps)
            BY <1>3, <4>1, <5>1 DEF m
          <6> QED
            BY <1>11, <2>5, <6>1
        <5>2. CASE i # Len(loader.inits) + 1
          <6>1. i \in first..Len(loader.inits) /\ loader'.inits[i] = loader.inits[i]
            BY <1>9, <4>1, <4>2, <5>2
          <6> QED
            BY <2>2, <2>5, <6>1
        <5> QED
          BY <5>1, <5>2
      <4>4. ASSUME NEW k \in i..Len(loader'.inits)
            PROVE  loader'.inits[k] # disk[loader'.inits[i]].deps[e]
        <5>1. CASE k = Len(loader.inits) + 1
          BY <1>4, <4>1, <4>3, <5>1
        <5>2. CASE k # Len(loader.inits) + 1
          <6>1. /\ i \in first..Len(loader.inits) /\ k \in i..Len(loader.inits)
                /\ loader'.inits[i] = loader.inits[i] /\ loader'.inits[k] = loader.inits[k]
            BY <1>9, <4>1, <4>2, <5>2
          <6>2. e \in DOMAIN disk[loader.inits[i]].deps /\ Loadable(disk[loader.inits[i]].deps[e])
            BY <2>5, <6>1
          <6>3. loader.inits[k] # disk[loader.inits[i]].deps[e]
            BY <2>2, <6>1, <6>2
          <6> QED
            BY <6>1, <6>3
        <5> QED
          BY <5>1, <5>2
      <4> QED
        BY <4>1, <4>3, <4>4
    <3> QED
      BY <3>1, <3>2
  <2>6. lastRet'[1] = "ok" /\ lastRet'[2] # "none" => lastRet'[2] \in loader'.table
    <3>1. CASE n = 1
      <4>1. lastRet'[1] = LoadRet(m) /\ lastRet'[2] = m
        BY <1>2, <3>1
      <4>2. LoadRet(m) = "ok" => Loadable(m)
        BY DEF LoadRet, Loadable
      <4> QED
        BY <1>8, <4>1, <4>2
    <3>2. CASE n # 1
      BY <1>1, <1>2, <3>2
    <3> QED
      BY <3>1, <3>2
  <2> QED
    BY <1>2, <1>10, <2>3, <2>4, <2>5, <2>6 DEF LoadedInOrder
<1>17. frames' # <<>> => lastRet'[1] = "running"
  BY <1>1, <1>2, <1>3, <1>7
<1> QED
  BY <1>12, <1>13, <1>14, <1>15, <1>16, <1>17 DEF LoaderInv

\* What the invariant says when no frame is left.
LEMMA NoFrames ==
  frames = <<>> => FramesLinked /\ DepsLoaded /\ NeverPast
<1> SUFFICES ASSUME frames = <<>> PROVE FramesLinked /\ DepsLoaded /\ NeverPast
  OBVIOUS
<1>1. 1..Len(frames) = {}
  OBVIOUS
<1> QED
  BY <1>1 DEF FramesLinked, DepsLoaded, NeverPast

\* A call of the loader.
LEMMA LoadKeeps ==
  ASSUME LoaderInv, NEW m \in Modules, Load(m)
  PROVE  LoaderInv'
<1>1. LoaderTypeOK /\ LoadedInOrder
  BY DEF LoaderInv
<1>2. /\ frames = <<>> /\ disk' = disk /\ loader' = loader
      /\ frames' = IF m \in loader.table THEN <<>> ELSE <<[mod |-> m, next |-> 1]>>
      /\ first' = Len(loader.inits) + 1
      /\ lastRet' = <<IF m \in loader.table THEN "ok" ELSE "running", m>>
  BY DEF Load, Enter
<1>3. disk \in [Modules -> Files] /\ loader.inits \in Seq(Modules) /\ Len(loader.inits) \in Nat
  BY <1>1, DisksAssumption DEF LoaderTypeOK
<1>4. Len(disk[m].deps) \in Nat
  BY <1>3 DEF Files
<1>5. [mod |-> m, next |-> 1] \in Frame
  BY DEF Frame
<1>6. LoaderTypeOK'
  <2>1. frames' \in Seq(Frame)
    BY <1>2, <1>5
  <2> QED
    BY <1>1, <1>2, <1>3, <2>1 DEF LoaderTypeOK
<1>7. FramesLinked' /\ DepsLoaded' /\ NeverPast'
  <2>1. CASE m \in loader.table
    <3>1. 1..Len(frames') = {}
      BY <1>2, <2>1
    <3> QED
      BY <3>1 DEF FramesLinked, DepsLoaded, NeverPast
  <2>2. CASE m \notin loader.table
    <3>1. /\ Len(frames') = 1 /\ 1..Len(frames') = {1}
          /\ frames'[1].mod = m /\ frames'[1].next = 1
      BY <1>2, <2>2
    <3>2. FramesLinked'
      BY <1>2, <1>4, <2>2, <3>1 DEF FramesLinked
    <3>3. DepsLoaded'
      <4>1. 1..(frames'[1].next - 1) = {}
        BY <3>1
      <4> QED
        BY <3>1, <4>1 DEF DepsLoaded
    <3>4. NeverPast'
      BY <3>1 DEF NeverPast
    <3> QED
      BY <3>2, <3>3, <3>4
  <2> QED
    BY <2>1, <2>2
<1>8. LoadedInOrder'
  <2>1. (first..Len(loader.inits))' = {}
    BY <1>2, <1>3
  <2>2. lastRet'[1] = "ok" /\ lastRet'[2] # "none" => lastRet'[2] \in loader'.table
    BY <1>2
  <2>3. /\ IsInjective(loader'.inits)
        /\ \A x \in Modules : Contains(loader'.inits, x) => x \in loader'.table
    BY <1>1, <1>2 DEF LoadedInOrder
  <2>4. (\A x \in Modules : IF Loadable(x) THEN loader.handles[x] = IF x \in loader.table THEN 1 ELSE 0
                            ELSE x \notin loader.table)'
    BY <1>1, <1>2 DEF LoadedInOrder, Loadable
  <2> QED
    BY <2>1, <2>2, <2>3, <2>4 DEF LoadedInOrder
<1>9. frames' # <<>> => lastRet'[1] = "running"
  BY <1>2
<1> QED
  BY <1>6, <1>7, <1>8, <1>9 DEF LoaderInv

\* Taking a module out, and taking all out.
LEMMA UnloadKeeps ==
  ASSUME LoaderInv, NEW m \in Modules, Unload(m)
  PROVE  LoaderInv'
<1>1. LoaderTypeOK /\ LoadedInOrder
  BY DEF LoaderInv
<1>2. /\ frames = <<>> /\ m \in loader.table /\ disk' = disk /\ frames' = frames
      /\ loader' = [table   |-> loader.table \ {m},
                    handles |-> [loader.handles EXCEPT ![m] = @ - 1],
                    inits   |-> RemoveFirst(loader.inits, m)]
      /\ first' = Len(loader'.inits) + 1
      /\ lastRet' = <<"ok", "none">>
  BY DEF Unload
<1>3. /\ loader.inits \in Seq(Modules) /\ loader.handles \in [Modules -> Int]
      /\ loader.table \subseteq Modules
  BY <1>1 DEF LoaderTypeOK
<1>4. /\ loader'.table = loader.table \ {m}
      /\ loader'.handles = [loader.handles EXCEPT ![m] = @ - 1]
      /\ loader'.inits = RemoveFirst(loader.inits, m)
  BY <1>2
<1>5. /\ loader'.inits \in Seq(Modules) /\ IsInjective(loader'.inits)
      /\ \A y : Contains(loader'.inits, y) <=> y # m /\ Contains(loader.inits, y)
  <2>1. IsInjective(loader.inits)
    BY <1>1 DEF LoadedInOrder
  <2> QED
    BY <1>3, <1>4, <2>1, RemoveFirstFacts
<1>6. LoaderTypeOK'
  <2>1. Len(loader'.inits) + 1 \in Nat \ {0}
    BY <1>5
  <2>2. loader' \in [table : SUBSET Modules, handles : [Modules -> Int], inits : Seq(Modules)]
    BY <1>2, <1>3, <1>4, <1>5
  <2> QED
    BY <1>1, <1>2, <2>1, <2>2 DEF LoaderTypeOK
<1>7. FramesLinked' /\ DepsLoaded' /\ NeverPast'
  <2>1. 1..Len(frames') = {}
    BY <1>2
  <2> QED
    BY <2>1 DEF FramesLinked, DepsLoaded, NeverPast
<1>8. LoadedInOrder'
  <2>1. (first..Len(loader.inits))' = {}
    BY <1>2, <1>5
  <2>2. \A x \in Modules : Contains(loader'.inits, x) => x \in loader'.table
    BY <1>1, <1>4, <1>5 DEF LoadedInOrder
  <2>3. ASSUME NEW x \in Modules
        PROVE  (IF Loadable(x) THEN loader.handles[x] = IF x \in loader.table THEN 1 ELSE 0
                ELSE x \notin loader.table)'
    <3>1. IF Loadable(x) THEN loader.handles[x] = IF x \in loader.table THEN 1 ELSE 0
          ELSE x \notin loader.table
      BY <1>1 DEF LoadedInOrder
    <3>2. Loadable(x)' <=> Loadable(x)
      BY <1>2 DEF Loadable
    <3> QED
      BY <1>2, <1>3, <1>4, <3>1, <3>2
  <2>4. lastRet'[2] = "none"
    BY <1>2
  <2> QED
    BY <1>5, <2>1, <2>2, <2>3, <2>4 DEF LoadedInOrder
<1> QED
  BY <1>2, <1>6, <1>7, <1>8 DEF LoaderInv

LEMMA LoaderMrproperKeeps ==
  ASSUME LoaderInv, LoaderMrproper
  PROVE  LoaderInv'
<1>1. LoaderTypeOK /\ LoadedInOrder
  BY DEF LoaderInv
<1>2. /\ frames = <<>> /\ disk' = disk /\ frames' = frames
      /\ loader'.table = {} /\ loader'.inits = <<>>
      /\ loader'.handles = [m \in Modules |-> loader.handles[m] -
                              IF m \in loader.table THEN 1 ELSE 0]
      /\ first' = Len(loader'.inits) + 1
      /\ lastRet' = <<"ok", "none">>
  BY DEF LoaderMrproper
<1>3. loader.handles \in [Modules -> Int]
  BY <1>1 DEF LoaderTypeOK
<1>4. LoaderTypeOK'
  <2>2. loader' \in [table : SUBSET Modules, handles : [Modules -> Int], inits : Seq(Modules)]
    <3> DEFINE h == [m \in Modules |-> loader.handles[m] -
                                         IF m \in loader.table THEN 1 ELSE 0]
    <3>1. h \in [Modules -> Int]
      BY <1>3
    <3>2. loader' = [table |-> {}, handles |-> h, inits |-> <<>>]
      BY DEF LoaderMrproper
    <3> HIDE DEF h
    <3> QED
      BY <3>1, <3>2
  <2>3. first' = 1
    BY <1>2
  <2> QED
    BY <1>1, <1>2, <2>2, <2>3 DEF LoaderTypeOK
<1>5. FramesLinked' /\ DepsLoaded' /\ NeverPast'
  <2>1. 1..Len(frames') = {}
    BY <1>2
  <2> QED
    BY <2>1 DEF FramesLinked, DepsLoaded, NeverPast
<1>6. LoadedInOrder'
  <2>1. (first..Len(loader.inits))' = {}
    BY <1>2
  <2>2. ASSUME NEW x \in Modules
        PROVE  (IF Loadable(x) THEN loader.handles[x] = IF x \in loader.table THEN 1 ELSE 0
                ELSE x \notin loader.table)'
    <3>1. IF Loadable(x) THEN loader.handles[x] = IF x \in loader.table THEN 1 ELSE 0
          ELSE x \notin loader.table
      BY <1>1 DEF LoadedInOrder
    <3>2. Loadable(x)' <=> Loadable(x)
      BY <1>2 DEF Loadable
    <3> QED
      BY <1>2, <1>3, <3>1, <3>2
  <2>3. /\ IsInjective(loader'.inits)
        /\ \A x \in Modules : Contains(loader'.inits, x) => x \in loader'.table
    BY <1>2, EmptyFacts
  <2>4. lastRet'[2] = "none"
    BY <1>2
  <2> QED
    BY <2>1, <2>2, <2>3, <2>4 DEF LoadedInOrder
<1> QED
  BY <1>2, <1>4, <1>5, <1>6 DEF LoaderInv

\* plugin_loader.c: whatever files there are, whatever depends on whatever, and
\* whatever is loaded and unloaded, a module of the table has one handle and was
\* initialised once, behind what it depends on.  A cycle of dependencies, which
\* makes load_common call itself without end, never makes it load a module twice.
THEOREM PluginsLoadedInOrder == PluginSpec => []LoadedInOrder
<1>1. PluginInit => LoaderInv
  <2> SUFFICES ASSUME PluginInit PROVE LoaderInv
    OBVIOUS
  <2>1. /\ disk \in Disks /\ frames = <<>> /\ first = 1 /\ lastRet = <<"ok", "none">>
        /\ loader.table = {} /\ loader.inits = <<>> /\ loader.handles = [m \in Modules |-> 0]
    BY DEF PluginInit
  <2>2. loader \in [table : SUBSET Modules, handles : [Modules -> Int], inits : Seq(Modules)]
    BY DEF PluginInit
  <2>3. LoaderTypeOK
    BY <2>1, <2>2 DEF LoaderTypeOK
  <2>4. FramesLinked /\ DepsLoaded /\ NeverPast
    BY <2>1, NoFrames
  <2>5. LoadedInOrder
    <3>1. first..Len(loader.inits) = {} /\ lastRet[2] = "none"
      BY <2>1
    <3>2. /\ IsInjective(loader.inits)
          /\ \A x \in Modules : ~Contains(loader.inits, x)
      BY <2>1, EmptyFacts
    <3>3. \A x \in Modules : loader.handles[x] = 0
      BY <2>1
    <3> QED
      BY <2>1, <3>1, <3>2, <3>3 DEF LoadedInOrder
  <2> QED
    BY <2>1, <2>3, <2>4, <2>5 DEF LoaderInv
<1>2. LoaderInv /\ [PluginNext]_pluginVars => LoaderInv'
  <2> SUFFICES ASSUME LoaderInv, [PluginNext]_pluginVars PROVE LoaderInv'
    OBVIOUS
  <2>1. CASE CheckDeps
    BY <2>1, CheckDepsKeeps
  <2>2. CASE LoadDone
    BY <2>2, LoadDoneKeeps
  <2>3. CASE LoaderMrproper
    BY <2>3, LoaderMrproperKeeps
  <2>4. ASSUME NEW m \in Modules, Load(m) PROVE LoaderInv'
    BY <2>4, LoadKeeps
  <2>5. ASSUME NEW m \in Modules, Unload(m) PROVE LoaderInv'
    BY <2>5, UnloadKeeps
  <2>6. CASE UNCHANGED pluginVars
    <3>1. /\ disk' = disk /\ loader' = loader /\ frames' = frames /\ first' = first
          /\ lastRet' = lastRet
      BY <2>6 DEF pluginVars
    <3>2. LoaderTypeOK' /\ FramesLinked' /\ DepsLoaded' /\ NeverPast'
      BY <3>1 DEF LoaderInv, LoaderTypeOK, FramesLinked, DepsLoaded, NeverPast, Loadable
    <3>3. LoadedInOrder'
      BY <3>1 DEF LoaderInv, LoadedInOrder, Loadable, IsInjective, Contains
    <3> QED
      BY <3>1, <3>2, <3>3 DEF LoaderInv
  <2> QED
    BY <2>1, <2>2, <2>3, <2>4, <2>5, <2>6 DEF PluginNext
<1>3. LoaderInv => LoadedInOrder
  BY DEF LoaderInv
<1> QED
  BY <1>1, <1>2, <1>3, PTL DEF PluginSpec

-----------------------------------------------------------------------------
(* Vectored output. *)

\* The totals of a vector: the recursion of Totals, unfolded.
LEMMA TotalsFacts ==
  ASSUME NEW v \in Seq(Nat)
  PROVE  /\ Totals(v) \in [0..Len(v) -> Nat] /\ Totals(v)[0] = 0
         /\ \A i \in 1..Len(v) : Totals(v)[i] = Totals(v)[i - 1] + v[i]
<1> DEFINE n == Len(v)
           step == [i \in 1..n |-> [a \in Nat |-> a + v[i]]]
           F(t) == [i \in 0..n |-> IF i = 0 THEN 0 ELSE t[i - 1] + v[i]]
<1>1. n \in Nat /\ \A i \in 1..n : v[i] \in Nat
  OBVIOUS
<1> HIDE DEF n
<1>2. step \in [1..n -> [Nat -> Nat]]
  BY <1>1
<1>3. \A a \in Nat, i \in 1..n : step[i][a] = a + v[i]
  OBVIOUS
<1> HIDE DEF step
<1>4. PICK t : GoesBy(t, n, Nat, 0, step)
  <2>1. n \in Nat /\ 0 \in Nat
    BY <1>1
  <2> QED
    BY <1>2, <2>1, Recursion
<1>5. /\ t \in [0..n -> Nat] /\ t[0] = 0
      /\ \A i \in 1..n : t[i] = step[i][t[i - 1]]
  BY <1>4 DEF GoesBy
<1>6. \A i \in 1..n : t[i - 1] \in Nat /\ t[i] = t[i - 1] + v[i]
  <2> TAKE i \in 1..n
  <2>1. t[i - 1] \in Nat
    <3>1. i - 1 \in 0..n
      BY <1>1
    <3> QED
      BY <1>5, <3>1
  <2> QED
    BY <1>3, <1>5, <2>1
<1>7. t = F(t)
  <2>1. \A i \in 0..n : t[i] = F(t)[i]
    BY <1>1, <1>5, <1>6
  <2> QED
    BY <1>5, <2>1
<1>8. Totals(v) = CHOOSE u : u = F(u)
  BY DEF Totals, n
<1>9. Totals(v) = F(Totals(v))
  <2> HIDE DEF F
  <2> QED
    BY <1>7, <1>8
<1> DEFINE T == Totals(v)
<1> HIDE DEF T
<1>10. T = F(T)
  BY <1>9 DEF T
<1>11. T[0] = 0 /\ \A i \in 1..n : T[i] = T[i - 1] + v[i]
  BY <1>1, <1>10
<1>12. \A i \in 0..n : T[i] \in Nat
  <2> DEFINE Q == {i \in 0..n : T[i] \in Nat}
  <2>1. 0 \in Q
    BY <1>1, <1>11
  <2>2. ASSUME NEW i \in 1..n, i - 1 \in Q PROVE i \in Q
    <3>1. T[i - 1] \in Nat /\ v[i] \in Nat /\ T[i] = T[i - 1] + v[i]
      BY <1>1, <1>11, <2>2
    <3> QED
      BY <1>1, <3>1
  <2> HIDE DEF Q
  <2>3. \A i \in 0..n : i \in Q
    BY <1>1, <2>1, <2>2, InductionTo
  <2> QED
    BY <2>3 DEF Q
<1>13. T \in [0..n -> Nat]
  BY <1>10, <1>12
<1> QED
  BY <1>11, <1>13 DEF T, n

\* They grow.
LEMMA TotalsGrow ==
  ASSUME NEW v \in Seq(Nat)
  PROVE  \A i, j \in 0..Len(v) : i <= j => Totals(v)[i] <= Totals(v)[j]
<1> DEFINE n == Len(v)
           T == Totals(v)
           Q == {j \in 0..n : \A i \in 0..n : i <= j => T[i] <= T[j]}
<1>1. n \in Nat /\ \A i \in 1..n : v[i] \in Nat
  OBVIOUS
<1>2. /\ T \in [0..n -> Nat]
      /\ \A i \in 1..n : T[i] = T[i - 1] + v[i]
  BY TotalsFacts
<1> HIDE DEF T
<1>3. 0 \in Q
  BY <1>1, <1>2
<1>4. ASSUME NEW j \in 1..n, j - 1 \in Q PROVE j \in Q
  <2> SUFFICES ASSUME NEW i \in 0..n, i <= j PROVE T[i] <= T[j]
    BY <1>1
  <2>1. j - 1 \in 0..n /\ T[j - 1] \in Nat /\ T[j] \in Nat /\ T[i] \in Nat /\ T[j - 1] <= T[j]
    <3>1. j - 1 \in 0..n /\ j \in 0..n /\ v[j] \in Nat
      BY <1>1
    <3>2. T[j - 1] \in Nat /\ T[j] \in Nat /\ T[i] \in Nat /\ T[j] = T[j - 1] + v[j]
      BY <1>2, <3>1
    <3> QED
      BY <3>1, <3>2
  <2>2. i = j \/ i <= j - 1
    BY <1>1
  <2> QED
    BY <1>4, <2>1, <2>2
<1> HIDE DEF Q
<1>5. \A j \in 0..n : j \in Q
  BY <1>1, <1>3, <1>4, InductionTo
<1> QED
  BY <1>5 DEF Q, T

\* Every byte is in one piece.
LEMMA OnePiece ==
  ASSUME NEW v \in Seq(Nat), NEW p \in 1..Size(v)
  PROVE  /\ \E j \in 1..Len(v) : Totals(v)[j - 1] < p /\ p <= Totals(v)[j]
         /\ \A i, j \in 1..Len(v) :
              /\ Totals(v)[i - 1] < p /\ p <= Totals(v)[i]
              /\ Totals(v)[j - 1] < p /\ p <= Totals(v)[j]
              => i = j
<1> DEFINE n == Len(v)
           T == Totals(v)
<1>1. n \in Nat
  OBVIOUS
<1>2. T \in [0..n -> Nat] /\ T[0] = 0
  BY TotalsFacts
<1>3. \A i, j \in 0..n : i <= j => T[i] <= T[j]
  BY TotalsGrow
<1>4. p \in Nat /\ 0 < p /\ p <= T[n]
  <2>1. T[n] \in Nat
    BY <1>1, <1>2
  <2> QED
    BY <2>1 DEF Size
<1> HIDE DEF T, n
<1>5. \E j \in 1..n : T[j - 1] < p /\ p <= T[j]
  <2> DEFINE U == {j \in 0..n : p <= T[j]}
  <2>1. PICK j \in U : \A i \in U : j <= i
    <3>1. U \in SUBSET Nat /\ n \in U
      BY <1>1, <1>4
    <3> QED
      BY <3>1, LeastNat
  <2>2. j \in 1..n /\ j - 1 \in 0..n /\ ~(j <= j - 1)
    BY <1>1, <1>2, <1>4
  <2>3. T[j - 1] \in Nat /\ ~(p <= T[j - 1])
    BY <1>2, <2>1, <2>2
  <2> QED
    BY <1>4, <2>2, <2>3
<1>6. ASSUME NEW i \in 1..n, NEW j \in 1..n, T[i - 1] < p, p <= T[i], T[j - 1] < p, p <= T[j],
             i < j
      PROVE  FALSE
  <2>1. i \in 0..n /\ j - 1 \in 0..n /\ i <= j - 1
    BY <1>1, <1>6
  <2>2. T[i] <= T[j - 1] /\ T[i] \in Nat /\ T[j - 1] \in Nat
    BY <1>2, <1>3, <2>1
  <2> QED
    BY <1>4, <1>6, <2>2
<1>7. ASSUME NEW i \in 1..n, NEW j \in 1..n, T[i - 1] < p, p <= T[i], T[j - 1] < p, p <= T[j]
      PROVE  i = j
  <2>1. i < j \/ j < i \/ i = j
    BY <1>1
  <2> QED
    BY <1>6, <1>7, <2>1
<1> QED
  BY <1>5, <1>7 DEF T, n

\* Where the bytes of a vector are.
LEMMA ByteAt ==
  ASSUME NEW dest, Lengths(dest) \in Seq(Nat), Len(dest) \in Nat
  PROVE  /\ DOMAIN BytesOf(dest) = 1..Size(Lengths(dest)) /\ Size(Lengths(dest)) \in Nat
         /\ BytesOf(dest) = [p \in 1..Size(Lengths(dest)) |-> BytesOf(dest)[p]]
         /\ \A p \in 1..Size(Lengths(dest)), j \in 1..Len(dest) :
              /\ Totals(Lengths(dest))[j - 1] < p /\ p <= Totals(Lengths(dest))[j]
              => BytesOf(dest)[p] =
                   <<dest[j].base, dest[j].off + (p - Totals(Lengths(dest))[j - 1])>>
<1> DEFINE w == Lengths(dest)
           T == Totals(w)
           c(p) == CHOOSE j \in 1..Len(dest) : T[j - 1] < p /\ p <= T[j]
           at(p, j) == <<dest[j].base, dest[j].off + (p - T[j - 1])>>
<1>1. w \in Seq(Nat) /\ Len(w) = Len(dest)
  <2>1. w = [j \in 1..Len(dest) |-> dest[j].len]
    BY DEF Lengths
  <2>2. DOMAIN w = 1..Len(dest)
    BY <2>1
  <2>3. w \in Seq(Nat)
    OBVIOUS
  <2> HIDE DEF w
  <2>4. Len(w) \in Nat /\ DOMAIN w = 1..Len(w)
    BY <2>3
  <2> QED
    BY <2>2, <2>3, <2>4
<1>2. Size(w) \in Nat
  <2>1. Totals(w) \in [0..Len(w) -> Nat] /\ Len(w) \in Nat
    BY <1>1, TotalsFacts
  <2> QED
    BY <2>1 DEF Size
<1>3. BytesOf(dest) = [p \in 1..Size(w) |-> at(p, c(p))]
  BY DEF BytesOf
<1>4. ASSUME NEW p \in 1..Size(w), NEW j \in 1..Len(dest), T[j - 1] < p, p <= T[j]
      PROVE  c(p) = j
  <2> HIDE DEF w
  <2>1. \A i, l \in 1..Len(w) :
          /\ T[i - 1] < p /\ p <= T[i]
          /\ T[l - 1] < p /\ p <= T[l]
          => i = l
    BY <1>1, OnePiece
  <2> HIDE DEF T
  <2> QED
    BY <1>1, <1>4, <2>1
<1> HIDE DEF w, T, c, at
<1>5. ASSUME NEW p \in 1..Size(w), NEW j \in 1..Len(dest), T[j - 1] < p, p <= T[j]
      PROVE  BytesOf(dest)[p] = at(p, j)
  BY <1>3, <1>4, <1>5
<1>6. /\ DOMAIN BytesOf(dest) = 1..Size(w)
      /\ BytesOf(dest) = [p \in 1..Size(w) |-> BytesOf(dest)[p]]
  BY <1>3
<1> QED
  BY <1>2, <1>5, <1>6 DEF w, T, at

-----------------------------------------------------------------------------
\* An entry of the vector, and the state of the loop over it.
Piece == [base : Nat, off : Int, len : Int]
LoopState == [dest : Seq(Piece), total : Nat]

\* The loop of http2d_iovec_skip_sent, round by round.
LEMMA SkipLoop ==
  ASSUME NEW v \in Seq(Nat), NEW n \in Nat
  PROVE  \E A \in [0..Len(v) -> LoopState] :
           /\ SkipSent(v, n) = A[Len(v)].dest
           /\ A[0] = [dest |-> <<>>, total |-> 0]
           /\ \A i \in 1..Len(v) : A[i] = SkipStep(v, n, A[i - 1], i)
<1> DEFINE l == Len(v)
           zero == [dest |-> <<>>, total |-> 0]
           step == [i \in 1..l |-> [a \in LoopState |-> SkipStep(v, n, a, i)]]
           F(t) == [i \in 0..l |-> IF i = 0 THEN zero ELSE SkipStep(v, n, t[i - 1], i)]
<1>1. l \in Nat /\ \A i \in 1..l : v[i] \in Nat
  OBVIOUS
<1>2. zero \in LoopState
  BY DEF LoopState
<1>3. SkipSent(v, n) = (CHOOSE u : u = F(u))[l].dest
  BY DEF SkipSent
<1> HIDE DEF l
<1>4. ASSUME NEW a \in LoopState, NEW i \in 1..l PROVE SkipStep(v, n, a, i) \in LoopState
  <2>1. a.dest \in Seq(Piece) /\ a.total \in Nat /\ v[i] \in Nat /\ i \in Nat
    BY <1>1 DEF LoopState
  <2>2. PieceLeft(v, n, a, i) \in Piece
    BY <2>1 DEF PieceLeft, Piece
  <2>3. Append(a.dest, PieceLeft(v, n, a, i)) \in Seq(Piece) /\ a.total + v[i] \in Nat
    BY <2>1, <2>2
  <2>4. /\ [a EXCEPT !.total = @ + v[i]] \in LoopState
        /\ [a EXCEPT !.dest = Append(@, PieceLeft(v, n, a, i))] \in LoopState
    BY <2>3 DEF LoopState
  <2> QED
    BY <2>4 DEF SkipStep
<1>5. step \in [1..l -> [LoopState -> LoopState]]
  BY <1>4
<1>6. \A a \in LoopState, i \in 1..l : step[i][a] = SkipStep(v, n, a, i)
  OBVIOUS
<1> HIDE DEF step, zero
<1>7. PICK t : GoesBy(t, l, LoopState, zero, step)
  BY <1>1, <1>2, <1>5, Recursion
<1>8. /\ t \in [0..l -> LoopState] /\ t[0] = zero
      /\ \A i \in 1..l : t[i] = step[i][t[i - 1]]
  BY <1>7 DEF GoesBy
<1>9. \A i \in 1..l : t[i - 1] \in LoopState /\ t[i] = SkipStep(v, n, t[i - 1], i)
  <2> TAKE i \in 1..l
  <2>1. t[i - 1] \in LoopState
    <3>1. i - 1 \in 0..l
      BY <1>1
    <3> QED
      BY <1>8, <3>1
  <2> QED
    BY <1>6, <1>8, <2>1
<1>10. t = F(t)
  <2>1. \A i \in 0..l : t[i] = F(t)[i]
    BY <1>1, <1>8, <1>9
  <2> QED
    BY <1>8, <2>1
<1> DEFINE A == CHOOSE u : u = F(u)
<1>11. A = F(A)
  <2> HIDE DEF F
  <2> QED
    BY <1>10
<1> HIDE DEF A
<1>12. A[0] = zero /\ \A i \in 1..l : A[i] = SkipStep(v, n, A[i - 1], i)
  BY <1>1, <1>11
<1>13. \A i \in 0..l : A[i] \in LoopState
  <2> DEFINE Q == {i \in 0..l : A[i] \in LoopState}
  <2>1. 0 \in Q
    BY <1>1, <1>2, <1>12
  <2>2. ASSUME NEW i \in 1..l, i - 1 \in Q PROVE i \in Q
    <3>1. A[i - 1] \in LoopState /\ A[i] = SkipStep(v, n, A[i - 1], i)
      BY <1>12, <2>2
    <3>2. A[i] \in LoopState
      BY <1>4, <3>1
    <3> QED
      BY <1>1, <3>2
  <2> HIDE DEF Q
  <2>3. \A i \in 0..l : i \in Q
    BY <1>1, <2>1, <2>2, InductionTo
  <2> QED
    BY <2>3 DEF Q
<1>14. A \in [0..l -> LoopState]
  BY <1>11, <1>13
<1>15. SkipSent(v, n) = A[l].dest
  BY <1>3 DEF A
<1> QED
  BY <1>12, <1>14, <1>15 DEF l, zero

\* No piece is shorter than one before it.
IsGrowing(v) == \A i, j \in 1..Len(v) : i < j => v[i] <= v[j]

\* What is left when n bytes were sent, which end in piece k + 1.
LeftFrom(v, n, k) ==
  [j \in 1..(Len(v) - k) |->
     [base |-> k + j,
      off  |-> IF j = 1 THEN n - Totals(v)[k] ELSE 0,
      len  |-> IF j = 1 THEN Totals(v)[k + 1] - n ELSE v[k + j]]]

\* Of a growing vector http2d_iovec_skip_sent leaves what was not sent.
LEMMA SkipSentFacts ==
  ASSUME NEW v \in Seq(Nat), IsGrowing(v), NEW n \in Nat, NEW k \in 0..(Len(v) - 1),
         Totals(v)[k] <= n, n < Totals(v)[k + 1]
  PROVE  SkipSent(v, n) = LeftFrom(v, n, k)
<1> DEFINE l == Len(v)
           T == Totals(v)
           D == LeftFrom(v, n, k)
<1>1. l \in Nat /\ l > 0 /\ k \in Nat /\ k < l /\ \A i \in 1..l : v[i] \in Nat
  OBVIOUS
<1>2. /\ T \in [0..l -> Nat] /\ T[0] = 0 /\ \A i \in 1..l : T[i] = T[i - 1] + v[i]
      /\ \A i, j \in 0..l : i <= j => T[i] <= T[j]
      /\ T[k] <= n /\ n < T[k + 1]
  BY TotalsFacts, TotalsGrow
<1>3. PICK A \in [0..l -> LoopState] :
        /\ SkipSent(v, n) = A[l].dest
        /\ A[0] = [dest |-> <<>>, total |-> 0]
        /\ \A i \in 1..l : A[i] = SkipStep(v, n, A[i - 1], i)
  BY SkipLoop
<1>4. /\ DOMAIN D = 1..(l - k)
      /\ \A j \in 1..(l - k) :
           D[j] = [base |-> k + j,
                   off  |-> IF j = 1 THEN n - T[k] ELSE 0,
                   len  |-> IF j = 1 THEN T[k + 1] - n ELSE v[k + j]]
  BY DEF LeftFrom
<1>5. \A i, j \in 1..l : i < j => v[i] <= v[j]
  BY DEF IsGrowing
<1> HIDE DEF T, D, l
<1>6. \A i \in 0..k : A[i].dest = <<>> /\ A[i].total = T[i]
  <2> DEFINE Q == {i \in 0..k : A[i].dest = <<>> /\ A[i].total = T[i]}
  <2>1. 0 \in Q
    BY <1>1, <1>2, <1>3
  <2>2. ASSUME NEW i \in 1..k, i - 1 \in Q PROVE i \in Q
    <3>1. i \in 1..l /\ i \in 0..l /\ i - 1 \in 0..l /\ k \in 0..l /\ i <= k
      BY <1>1
    <3>2. A[i - 1].dest = <<>> /\ A[i - 1].total = T[i - 1] /\ A[i - 1] \in LoopState
      BY <1>3, <2>2, <3>1
    <3>3. T[i] = T[i - 1] + v[i] /\ T[i] <= T[k] /\ T[i] \in Nat /\ T[k] \in Nat
      BY <1>2, <3>1
    <3>4. n >= A[i - 1].total + v[i]
      BY <1>1, <1>2, <3>1, <3>2, <3>3
    <3>5. A[i] = [A[i - 1] EXCEPT !.total = @ + v[i]]
      BY <1>3, <3>1, <3>4 DEF SkipStep
    <3>6. A[i].dest = <<>> /\ A[i].total = T[i]
      BY <3>2, <3>3, <3>5 DEF LoopState
    <3> QED
      BY <1>1, <3>6
  <2> HIDE DEF Q
  <2>3. \A i \in 0..k : i \in Q
    BY <1>1, <2>1, <2>2, InductionTo
  <2> QED
    BY <2>3 DEF Q
<1>7. \A j \in 0..(l - k) : /\ A[k + j].total = T[k] /\ Len(A[k + j].dest) = j
                            /\ \A x \in 1..j : A[k + j].dest[x] = D[x]
  <2> DEFINE Q == {j \in 0..(l - k) : /\ A[k + j].total = T[k] /\ Len(A[k + j].dest) = j
                                      /\ \A x \in 1..j : A[k + j].dest[x] = D[x]}
  <2>1. 0 \in Q
    <3>1. k \in 0..k /\ k + 0 = k /\ 0 \in 0..(l - k)
      BY <1>1
    <3>2. A[k].dest = <<>> /\ A[k].total = T[k]
      BY <1>6, <3>1
    <3> QED
      BY <3>1, <3>2
  <2>2. ASSUME NEW j \in 1..(l - k), j - 1 \in Q PROVE j \in Q
    <3> DEFINE i == k + j
               a == A[i - 1]
    <3>1. i \in 1..l /\ i - 1 \in 0..l /\ i - 1 = k + (j - 1) /\ k \in 0..l /\ k + 1 \in 1..l
      BY <1>1
    <3>2. /\ a.total = T[k] /\ Len(a.dest) = j - 1
          /\ \A x \in 1..(j - 1) : a.dest[x] = D[x]
      BY <2>2, <3>1
    <3>3. a \in LoopState /\ A[i] = SkipStep(v, n, a, i)
      BY <1>3, <3>1
    <3> HIDE DEF a, i
    <3>4. a.dest \in Seq(Piece)
      BY <3>3 DEF LoopState
    <3>5. T[k] \in Nat /\ T[k + 1] = T[k] + v[k + 1] /\ v[k + 1] \in Nat /\ v[i] \in Nat
      <4>1. (k + 1) - 1 = k
        BY <1>1
      <4> QED
        BY <1>1, <1>2, <3>1, <4>1
    <3>6. v[k + 1] <= v[i]
      <4>1. i = k + 1 \/ k + 1 < i
        BY <1>1, <3>1 DEF i
      <4> QED
        BY <1>5, <3>1, <3>5, <4>1
    <3>7. ~(n >= a.total + v[i])
      BY <1>2, <3>2, <3>5, <3>6
    <3>8. PieceLeft(v, n, a, i) = D[j]
      <4>1. a.dest # <<>> <=> j # 1
        BY <3>2, <3>4
      <4>2. j \in 1..(l - k) /\ i = k + j
        BY DEF i
      <4>3. CASE j = 1
        <5>1. PieceLeft(v, n, a, i) = [base |-> i, off |-> n - T[k], len |-> v[i] - (n - T[k])]
          BY <3>2, <4>1, <4>3 DEF PieceLeft
        <5>2. i = k + 1 /\ v[i] - (n - T[k]) = T[k + 1] - n
          BY <1>1, <3>5, <4>2, <4>3
        <5>3. D[j] = [base |-> k + 1, off |-> n - T[k], len |-> T[k + 1] - n]
          BY <1>4, <4>2, <4>3
        <5> QED
          BY <5>1, <5>2, <5>3
      <4>4. CASE j # 1
        <5>1. PieceLeft(v, n, a, i) = [base |-> i, off |-> 0, len |-> v[i]]
          BY <4>1, <4>4 DEF PieceLeft
        <5>2. D[j] = [base |-> k + j, off |-> 0, len |-> v[k + j]]
          BY <1>4, <4>2, <4>4
        <5> QED
          BY <4>2, <5>1, <5>2
      <4> QED
        BY <4>3, <4>4
    <3>9. A[i] = [a EXCEPT !.dest = Append(@, D[j])]
      BY <3>3, <3>7, <3>8 DEF SkipStep
    <3>10. A[i].total = T[k] /\ A[i].dest = Append(a.dest, D[j])
      BY <3>2, <3>3, <3>9 DEF LoopState
    <3>11. /\ Len(Append(a.dest, D[j])) = j
           /\ \A x \in 1..(j - 1) : Append(a.dest, D[j])[x] = a.dest[x]
           /\ Append(a.dest, D[j])[j] = D[j]
      BY <1>1, <3>2, <3>4
    <3>12. \A x \in 1..j : x = j \/ x \in 1..(j - 1)
      BY <1>1
    <3>13. \A x \in 1..j : A[i].dest[x] = D[x]
      BY <3>2, <3>10, <3>11, <3>12
    <3>14. j \in 0..(l - k) /\ i = k + j
      BY <1>1 DEF i
    <3> QED
      BY <3>10, <3>11, <3>13, <3>14
  <2> HIDE DEF Q
  <2>3. \A j \in 0..(l - k) : j \in Q
    <3>1. l - k \in Nat
      BY <1>1
    <3> QED
      BY <2>1, <2>2, <3>1, InductionTo
  <2> QED
    BY <2>3 DEF Q
<1>8. l - k \in 0..(l - k) /\ k + (l - k) = l /\ l \in 0..l
  BY <1>1
<1>9. Len(A[l].dest) = l - k /\ \A x \in 1..(l - k) : A[l].dest[x] = D[x]
  BY <1>7, <1>8
<1>10. A[l].dest \in Seq(Piece)
  BY <1>3, <1>8 DEF LoopState
<1>11. DOMAIN (A[l].dest) = 1..(l - k) /\ A[l].dest = [x \in 1..(l - k) |-> A[l].dest[x]]
  <2> DEFINE z == A[l].dest
  <2> HIDE DEF z
  <2>1. z \in Seq(Piece) /\ Len(z) = l - k
    BY <1>9, <1>10 DEF z
  <2>2. DOMAIN z = 1..(l - k) /\ z = [x \in 1..(l - k) |-> z[x]]
    BY <2>1
  <2> QED
    BY <2>2 DEF z
<1>12. D = [x \in 1..(l - k) |-> D[x]]
  BY <1>4 DEF D, LeftFrom, l
<1> QED
  BY <1>3, <1>9, <1>11, <1>12 DEF D

\* The pieces of a vector of which nothing was sent.
Whole(v) == [i \in 1..Len(v) |-> [base |-> i, off |-> 0, len |-> v[i]]]

\* The bytes of a vector, piece by piece.
LEMMA WholeFacts ==
  ASSUME NEW v \in Seq(Nat)
  PROVE  /\ Len(v) \in Nat /\ Size(v) \in Nat
         /\ BytesOf(Whole(v)) = [p \in 1..Size(v) |-> BytesOf(Whole(v))[p]]
         /\ \A p \in 1..Size(v), j \in 1..Len(v) :
              /\ Totals(v)[j - 1] < p /\ p <= Totals(v)[j]
              => BytesOf(Whole(v))[p] = <<j, p - Totals(v)[j - 1]>>
<1> DEFINE W == Whole(v)
           l == Len(v)
           T == Totals(v)
<1>1. l \in Nat /\ \A i \in 1..l : v[i] \in Nat
  OBVIOUS
<1>2. /\ W = [i \in 1..l |-> [base |-> i, off |-> 0, len |-> v[i]]]
      /\ v = [i \in 1..l |-> v[i]]
  BY DEF Whole
<1>3. /\ T \in [0..l -> Nat] /\ Size(v) = T[l]
  BY TotalsFacts DEF Size
<1> HIDE DEF W, l, T
<1>4. Len(W) = l /\ \A i \in 1..l : W[i].base = i /\ W[i].off = 0 /\ W[i].len = v[i]
  BY <1>1, <1>2
<1>5. Lengths(W) = v
  BY <1>2, <1>4 DEF Lengths
<1>6. /\ Size(v) \in Nat
      /\ BytesOf(W) = [p \in 1..Size(v) |-> BytesOf(W)[p]]
      /\ \A p \in 1..Size(v), j \in 1..l :
           /\ Totals(v)[j - 1] < p /\ p <= Totals(v)[j]
           => BytesOf(W)[p] = <<W[j].base, W[j].off + (p - Totals(v)[j - 1])>>
  <2>1. Lengths(W) \in Seq(Nat) /\ Len(W) \in Nat
    BY <1>1, <1>4, <1>5
  <2>2. /\ Size(Lengths(W)) \in Nat
        /\ BytesOf(W) = [p \in 1..Size(Lengths(W)) |-> BytesOf(W)[p]]
        /\ \A p \in 1..Size(Lengths(W)), j \in 1..Len(W) :
             /\ Totals(Lengths(W))[j - 1] < p /\ p <= Totals(Lengths(W))[j]
             => BytesOf(W)[p] = <<W[j].base, W[j].off + (p - Totals(Lengths(W))[j - 1])>>
    BY <2>1, ByteAt, Zenon
  <2> QED
    BY <1>4, <1>5, <2>2, Zenon
<1>7. ASSUME NEW p \in 1..Size(v), NEW j \in 1..l, T[j - 1] < p, p <= T[j]
      PROVE  BytesOf(W)[p] = <<j, p - T[j - 1]>>
  <2>1. T[j - 1] \in Nat /\ p \in Nat
    <3>1. j - 1 \in 0..l
      BY <1>1
    <3> QED
      BY <1>3, <1>6, <3>1
  <2>2. BytesOf(W)[p] = <<W[j].base, W[j].off + (p - T[j - 1])>>
    BY <1>6, <1>7 DEF T
  <2>3. W[j].base = j /\ W[j].off + (p - T[j - 1]) = p - T[j - 1]
    BY <1>4, <2>1
  <2> QED
    BY <2>2, <2>3
<1> QED
  BY <1>1, <1>6, <1>7 DEF W, l, T

\* What is left after n bytes are the bytes behind the first n.
LEMMA LeftFacts ==
  ASSUME NEW v \in Seq(Nat), IsGrowing(v), NEW n \in 0..(Size(v) - 1)
  PROVE  /\ Lengths(SkipSent(v, n)) \in Seq(Nat) /\ Len(SkipSent(v, n)) \in Nat
         /\ Size(Lengths(SkipSent(v, n))) = Size(v) - n
         /\ BytesOf(SkipSent(v, n)) = [p \in 1..(Size(v) - n) |-> BytesOf(Whole(v))[n + p]]
<1> DEFINE l == Len(v)
           T == Totals(v)
           B == BytesOf(Whole(v))
<1>1. l \in Nat /\ \A i \in 1..l : v[i] \in Nat
  OBVIOUS
<1>2. /\ T \in [0..l -> Nat] /\ T[0] = 0 /\ \A i \in 1..l : T[i] = T[i - 1] + v[i]
      /\ \A i, j \in 0..l : i <= j => T[i] <= T[j]
      /\ Size(v) = T[l]
  BY TotalsFacts, TotalsGrow DEF Size
<1>3. /\ T[l] \in Nat /\ n \in Nat /\ n < T[l] /\ n + 1 \in 1..Size(v)
  BY <1>1, <1>2
<1>4. PICK j \in 1..l : T[j - 1] < n + 1 /\ n + 1 <= T[j]
  BY <1>3, OnePiece
<1>5. /\ \A p \in 1..Size(v), i \in 1..l : 
           T[i - 1] < p /\ p <= T[i] => B[p] = <<i, p - T[i - 1]>>
  BY WholeFacts
<1> DEFINE k == j - 1
           D == LeftFrom(v, n, k)
           w == Lengths(D)
<1>6. /\ k \in 0..(l - 1) /\ k \in 0..l /\ k + 1 = j /\ k + 1 \in 0..l /\ T[k] \in Nat /\ T[k + 1] \in Nat
  <2>1. k \in 0..(l - 1) /\ k \in 0..l /\ k + 1 = j /\ k + 1 \in 0..l
    BY <1>1
  <2> HIDE DEF T, l, k
  <2> QED
    BY <1>2, <2>1
<1>7. T[k] <= n /\ n < T[k + 1]
  BY <1>3, <1>4, <1>6
<1>8. SkipSent(v, n) = D
  BY <1>3, <1>6, <1>7, SkipSentFacts
<1>9. /\ D = [i \in 1..(l - k) |->
                [base |-> k + i,
                 off  |-> IF i = 1 THEN n - T[k] ELSE 0,
                 len  |-> IF i = 1 THEN T[k + 1] - n ELSE v[k + i]]]
  BY DEF LeftFrom
<1> HIDE DEF T, B, k, l, D
<1>10. /\ Len(D) = l - k /\ l - k \in Nat /\ l - k >= 1
       /\ \A i \in 1..(l - k) : /\ D[i].base = k + i /\ D[i].off = IF i = 1 THEN n - T[k] ELSE 0
                                /\ D[i].len = IF i = 1 THEN T[k + 1] - n ELSE v[k + i]
  <2>1. l - k \in Nat /\ l - k >= 1
    BY <1>1, <1>6
  <2> QED
    BY <1>9, <2>1
<1>11. /\ w \in Seq(Nat) /\ Len(w) = l - k
       /\ \A i \in 1..(l - k) : w[i] = IF i = 1 THEN T[k + 1] - n ELSE v[k + i]
  <2>1. w = [i \in 1..(l - k) |-> D[i].len]
    BY <1>10 DEF Lengths
  <2>2. ASSUME NEW i \in 1..(l - k) PROVE D[i].len \in Nat
    <3>1. k + i \in 1..l
      BY <1>1, <1>6
    <3>2. v[k + i] \in Nat /\ T[k + 1] - n \in Nat
      BY <1>1, <1>3, <1>6, <1>7, <3>1
    <3> QED
      BY <1>10, <3>2
  <2> HIDE DEF w
  <2>3. w \in [1..(l - k) -> Nat]
    BY <2>1, <2>2
  <2>4. w \in Seq(Nat) /\ Len(w) = l - k
    BY <1>10, <2>3
  <2> QED
    BY <1>10, <2>1, <2>4
<1> HIDE DEF w
<1>12. /\ Totals(w) \in [0..(l - k) -> Nat] /\ Totals(w)[0] = 0
       /\ \A i \in 1..(l - k) : Totals(w)[i] = Totals(w)[i - 1] + w[i]
  BY <1>11, TotalsFacts
<1>13. \A i \in 1..(l - k) : Totals(w)[i] = T[k + i] - n
  <2> DEFINE Q == {i \in 0..(l - k) : i # 0 => Totals(w)[i] = T[k + i] - n}
  <2>1. 0 \in Q
    BY <1>10
  <2>2. ASSUME NEW i \in 1..(l - k), i - 1 \in Q PROVE i \in Q
    <3>1. /\ k + i \in 1..l /\ k + i \in 0..l /\ k + (i - 1) = (k + i) - 1
          /\ (k + i) - 1 \in 0..l /\ i \in 0..(l - k)
      BY <1>1, <1>6, <1>10
    <3>2. /\ T[k + i] = T[(k + i) - 1] + v[k + i] /\ v[k + i] \in Nat
          /\ T[k + i] \in Nat /\ T[(k + i) - 1] \in Nat
      BY <1>1, <1>2, <3>1
    <3>3. Totals(w)[i] = Totals(w)[i - 1] + w[i]
      BY <1>12
    <3>4. CASE i = 1
      <4>1. w[1] = T[k + 1] - n /\ Totals(w)[1] = Totals(w)[0] + w[1]
        BY <1>11, <3>3, <3>4
      <4> QED
        BY <1>3, <1>6, <1>12, <3>1, <3>4, <4>1
    <3>5. CASE i # 1
      <4>1. w[i] = v[k + i] /\ Totals(w)[i - 1] = T[(k + i) - 1] - n
        <5>1. Totals(w)[i - 1] = T[k + (i - 1)] - n
          BY <1>10, <2>2, <3>5
        <5> QED
          BY <1>11, <3>1, <3>5, <5>1
      <4>2. Totals(w)[i] = (T[(k + i) - 1] - n) + v[k + i]
        BY <3>3, <4>1
      <4>3. Totals(w)[i] = T[k + i] - n
        BY <1>3, <3>2, <4>2
      <4> QED
        BY <3>1, <4>3
    <3> QED
      BY <3>4, <3>5
  <2> HIDE DEF Q
  <2>3. \A i \in 0..(l - k) : i \in Q
    BY <1>10, <2>1, <2>2, InductionTo
  <2> QED
    BY <1>10, <2>3 DEF Q
<1>14. Size(w) = Size(v) - n
  <2>1. l - k \in 1..(l - k) /\ k + (l - k) = l
    BY <1>1, <1>6, <1>10
  <2>2. Totals(w)[l - k] = T[l] - n
    BY <1>13, <2>1
  <2> QED
    BY <1>2, <1>11, <2>2 DEF Size
<1>15. /\ BytesOf(D) = [p \in 1..Size(w) |-> BytesOf(D)[p]]
       /\ \A p \in 1..Size(w), i \in 1..(l - k) :
            /\ Totals(w)[i - 1] < p /\ p <= Totals(w)[i]
            => BytesOf(D)[p] = <<D[i].base, D[i].off + (p - Totals(w)[i - 1])>>
  <2>1. Lengths(D) \in Seq(Nat) /\ Len(D) \in Nat
    BY <1>10, <1>11 DEF w
  <2>2. /\ BytesOf(D) = [p \in 1..Size(Lengths(D)) |-> BytesOf(D)[p]]
        /\ \A p \in 1..Size(Lengths(D)), i \in 1..Len(D) :
             /\ Totals(Lengths(D))[i - 1] < p /\ p <= Totals(Lengths(D))[i]
             => BytesOf(D)[p] = <<D[i].base, D[i].off + (p - Totals(Lengths(D))[i - 1])>>
    BY <2>1, ByteAt, Zenon
  <2> QED
    BY <1>10, <2>2, Zenon DEF w
<1>16. ASSUME NEW p \in 1..(Size(v) - n) PROVE BytesOf(D)[p] = B[n + p]
  <2>1. /\ p \in 1..Size(w) /\ p \in Nat /\ n + p \in 1..Size(v)
    BY <1>2, <1>3, <1>14
  <2>2. PICK i \in 1..(l - k) : Totals(w)[i - 1] < p /\ p <= Totals(w)[i]
    BY <1>11, <2>1, OnePiece
  <2>3. BytesOf(D)[p] = <<D[i].base, D[i].off + (p - Totals(w)[i - 1])>>
    BY <1>15, <2>1, <2>2
  <2>4. /\ k + i \in 1..l /\ (k + i) - 1 \in 0..l /\ k + i \in 0..l
        /\ T[k + i] \in Nat /\ T[(k + i) - 1] \in Nat
    <3>1. k + i \in 1..l /\ (k + i) - 1 \in 0..l /\ k + i \in 0..l
      <4>1. l \in Nat /\ k \in 0..(l - 1) /\ i \in 1..(l - k)
        BY <1>1, <1>6
      <4> QED
        BY <4>1
    <3> QED
      BY <1>2, <3>1
  <2>5. Totals(w)[i] = T[k + i] - n
    BY <1>13
  <2>6. n + p <= T[k + i]
    BY <1>3, <2>1, <2>2, <2>4, <2>5
  <2>7. /\ T[(k + i) - 1] < n + p
        /\ D[i].off + (p - Totals(w)[i - 1]) = (n + p) - T[(k + i) - 1]
    <3>1. CASE i = 1
      <4>1. /\ (k + i) - 1 = k /\ Totals(w)[i - 1] = 0 /\ D[i].off = n - T[k]
        BY <1>6, <1>10, <1>12, <3>1
      <4>2. n - T[k] + (p - 0) = (n + p) - T[k] /\ T[k] < n + p
        BY <1>3, <1>6, <1>7, <2>1
      <4> QED
        BY <4>1, <4>2
    <3>2. CASE i # 1
      <4>1. i - 1 \in 1..(l - k) /\ k + (i - 1) = (k + i) - 1
        BY <1>6, <1>10, <3>2
      <4>2. Totals(w)[i - 1] = T[(k + i) - 1] - n /\ D[i].off = 0
        BY <1>10, <1>13, <3>2, <4>1
      <4> QED
        BY <1>3, <2>1, <2>2, <2>4, <4>2
    <3> QED
      BY <3>1, <3>2
  <2>8. B[n + p] = <<k + i, (n + p) - T[(k + i) - 1]>>
    BY <1>5, <2>1, <2>4, <2>6, <2>7
  <2> QED
    BY <1>10, <2>3, <2>7, <2>8
<1>17. BytesOf(D) = [p \in 1..(Size(v) - n) |-> B[n + p]]
  BY <1>14, <1>15, <1>16
<1> QED
  BY <1>8, <1>10, <1>11, <1>14, <1>17 DEF w, B

\* The socket took the first sent bytes of the vector.
IovecInv ==
  /\ orig \in Vectors
  /\ Growing => sent \in 0..Len(All) /\ delivered = SubSeq(All, 1, sent)

\* The bytes of the vector that is sent.
LEMMA AllFacts ==
  ASSUME orig \in Vectors
  PROVE  /\ orig \in Seq(Nat) /\ Size(orig) \in Nat /\ Len(All) = Size(orig)
         /\ All = BytesOf(Whole(orig))
         /\ All \in Seq({All[p] : p \in 1..Size(orig)})
         /\ Growing => IsGrowing(orig)
<1>1. orig \in Seq(Nat)
  BY VectorsAssumption
<1>2. All = BytesOf(Whole(orig))
  BY DEF All, Whole
<1>3. Size(orig) \in Nat /\ All = [p \in 1..Size(orig) |-> All[p]]
  BY <1>1, <1>2, WholeFacts
<1>4. Growing => IsGrowing(orig)
  BY <1>1 DEF Growing, IsGrowing
<1> DEFINE S == {All[p] : p \in 1..Size(orig)}
<1>5. \A p \in 1..Size(orig) : All[p] \in S
  OBVIOUS
<1> HIDE DEF S
<1>6. All \in [1..Size(orig) -> S]
  BY <1>3, <1>5
<1>7. All \in Seq(S) /\ Len(All) = Size(orig)
  BY <1>3, <1>6
<1> QED
  BY <1>1, <1>2, <1>3, <1>4, <1>7 DEF S

\* How many bytes a write may take.
LEMMA WriteTakes ==
  ASSUME NEW dest, Lengths(dest) \in Seq(Nat), Len(dest) \in Nat,
         NEW w \in IF is_tls THEN TlsWritev(dest) ELSE PlainWritev(dest)
  PROVE  w.n \in 0..Size(Lengths(dest))
<1> DEFINE v == Lengths(dest)
           T == Totals(v)
<1>1. Size(v) \in Nat /\ Len(BytesOf(dest)) = Size(v)
  <2>1. /\ Size(v) \in Nat /\ BytesOf(dest) = [p \in 1..Size(v) |-> BytesOf(dest)[p]]
    BY ByteAt
  <2> QED
    BY <2>1
<1>2. \A j \in 1..Len(dest) : T[j - 1] \in 0..Size(v)
  <2>1. Len(v) = Len(dest)
    <3>1. v = [j \in 1..Len(dest) |-> dest[j].len]
      BY DEF Lengths
    <3>2. DOMAIN v = 1..Len(dest)
      BY <3>1
    <3> HIDE DEF v
    <3>3. v \in Seq(Nat)
      BY DEF v
    <3> QED
      BY <3>2, <3>3
  <2>2. /\ T \in [0..Len(v) -> Nat]
        /\ \A i, j \in 0..Len(v) : i <= j => T[i] <= T[j]
    BY TotalsFacts, TotalsGrow
  <2> HIDE DEF T, v
  <2> TAKE j \in 1..Len(dest)
  <2>3. j - 1 \in 0..Len(v) /\ Len(v) \in 0..Len(v) /\ j - 1 <= Len(v)
    BY <2>1
  <2>4. T[j - 1] \in Nat /\ T[Len(v)] \in Nat /\ T[j - 1] <= T[Len(v)]
    BY <2>2, <2>3
  <2> QED
    BY <2>4 DEF Size, T
<1>3. ASSUME w \in TlsWritev(dest) PROVE w.n \in 0..Size(v)
  <2>1. \/ \E n \in 1..Len(BytesOf(dest)) : w = [ret |-> "ok", n |-> n]
        \/ \E r \in {"eagain", "error"}, j \in 1..Len(dest) : w = [ret |-> r, n |-> T[j - 1]]
    BY <1>3 DEF TlsWritev
  <2>2. \/ w.n \in 1..Size(v)
        \/ \E j \in 1..Len(dest) : w.n = T[j - 1]
    BY <1>1, <2>1
  <2> HIDE DEF T, v
  <2> QED
    BY <1>1, <1>2, <2>2
<1>4. ASSUME w \in PlainWritev(dest) PROVE w.n \in 0..Size(v)
  <2>1. w.n \in 1..Size(v) \/ w.n = 0
    BY <1>1, <1>4 DEF PlainWritev
  <2> HIDE DEF v
  <2> QED
    BY <1>1, <2>1
<1> QED
  BY <1>3, <1>4

\* util.c, socket.c: whatever part of the vector a write takes, plain or over TLS,
\* and whether it fails or not, a caller that goes on with what
\* http2d_iovec_skip_sent leaves sends every byte once and in order, as long as
\* no piece of the vector is shorter than one before it.
THEOREM VectorSentInOrder == IovecSpec => []SentInOrder
<1>1. IovecInit => IovecInv
  <2> SUFFICES ASSUME IovecInit PROVE IovecInv
    OBVIOUS
  <2>1. orig \in Vectors /\ sent = 0 /\ delivered = <<>>
    BY DEF IovecInit
  <2>2. Len(All) \in Nat
    BY <2>1, AllFacts
  <2>3. SubSeq(All, 1, 0) = <<>>
    BY SubSeqEmpty
  <2> QED
    BY <2>1, <2>2, <2>3 DEF IovecInv
<1>2. IovecInv /\ [IovecNext]_iovecVars => IovecInv'
  <2> SUFFICES ASSUME IovecInv, [IovecNext]_iovecVars PROVE IovecInv'
    OBVIOUS
  <2>1. CASE UNCHANGED iovecVars
    BY <2>1 DEF IovecInv, iovecVars, Growing, All
  <2>2. CASE Writev
    <3> DEFINE dest == SkipSent(orig, sent)
               B == BytesOf(dest)
               S == {All[p] : p \in 1..Size(orig)}
    <3>1. orig' = orig /\ All' = All /\ (Growing' <=> Growing)
      BY <2>2 DEF Writev, All, Growing
    <3>2. /\ orig \in Vectors /\ orig \in Seq(Nat) /\ Size(orig) \in Nat /\ Len(All) = Size(orig)
          /\ All = BytesOf(Whole(orig)) /\ All \in Seq(S)
          /\ Growing => IsGrowing(orig)
      BY AllFacts DEF IovecInv
    <3> SUFFICES ASSUME Growing
                 PROVE  sent' \in 0..Len(All) /\ delivered' = SubSeq(All, 1, sent')
      BY <3>1, <3>2 DEF IovecInv
    <3>3. sent \in 0..Len(All) /\ delivered = SubSeq(All, 1, sent)
      BY DEF IovecInv
    <3>4. ~WasSent(orig, sent)
      BY <2>2 DEF Writev
    <3>5. sent < Size(orig)
      <4> SUFFICES ASSUME Size(orig) <= sent PROVE WasSent(orig, sent)
        BY <3>2, <3>3, <3>4
      <4>1. /\ Totals(orig) \in [0..Len(orig) -> Nat] /\ Len(orig) \in Nat
            /\ \A i, j \in 0..Len(orig) : i <= j => Totals(orig)[i] <= Totals(orig)[j]
        BY <3>2, TotalsFacts, TotalsGrow
      <4>2. ASSUME NEW i \in 1..Len(orig) PROVE Totals(orig)[i] <= sent
        <5>1. i \in 0..Len(orig) /\ Len(orig) \in 0..Len(orig) /\ i <= Len(orig)
          BY <4>1
        <5>2. /\ Totals(orig)[i] <= Totals(orig)[Len(orig)] /\ Totals(orig)[i] \in Nat
              /\ Totals(orig)[Len(orig)] \in Nat
          BY <4>1, <5>1
        <5>3. Totals(orig)[Len(orig)] <= sent
          BY DEF Size
        <5> QED
          BY <3>2, <3>3, <5>2, <5>3
      <4> QED
        BY <4>2 DEF WasSent
    <3>6. sent \in 0..(Size(orig) - 1)
      BY <3>2, <3>3, <3>5
    <3>7. /\ Lengths(dest) \in Seq(Nat) /\ Len(dest) \in Nat
          /\ Size(Lengths(dest)) = Size(orig) - sent
          /\ B = [p \in 1..(Size(orig) - sent) |-> All[sent + p]]
      BY <3>2, <3>6, LeftFacts
    <3>8. PICK w \in IF is_tls THEN TlsWritev(dest) ELSE PlainWritev(dest) :
            /\ delivered' = delivered \o SubSeq(B, 1, w.n)
            /\ sent' = sent + w.n
      BY <2>2 DEF Writev
    <3>9. w.n \in 0..(Size(orig) - sent)
      BY <3>7, WriteTakes
    <3> DEFINE c == w.n
    <3> HIDE DEF dest, B, S, c
    <3>10. c \in Nat /\ sent + c \in 0..Len(All) /\ c <= Size(orig) - sent
      BY <3>2, <3>3, <3>9 DEF c
    <3>11. SubSeq(B, 1, c) = SubSeq(All, sent + 1, sent + c)
      <4>1. \A p \in 1..c : B[p] = All[sent + p] /\ All[sent + p] \in S /\ B[p] \in S
        <5> TAKE p \in 1..c
        <5>1. p \in 1..(Size(orig) - sent) /\ sent + p \in 1..Len(All)
          BY <3>2, <3>3, <3>10
        <5> QED
          BY <3>2, <3>7, <5>1
      <4>2. /\ SubSeq(B, 1, c) \in Seq(S) /\ Len(SubSeq(B, 1, c)) = c
            /\ \A p \in 1..c : SubSeq(B, 1, c)[p] = B[p]
        <5>1. \A p \in 1..c : B[p] \in S
          BY <4>1
        <5>2. /\ SubSeq(B, 1, c) \in Seq(S)
              /\ Len(SubSeq(B, 1, c)) = IF 1 <= c THEN c - 1 + 1 ELSE 0
              /\ \A p \in 1..(c - 1 + 1) : SubSeq(B, 1, c)[p] = B[1 + p - 1]
          BY <3>10, <5>1, SubSeqProperties
        <5> QED
          BY <3>10, <5>2
      <4>3. /\ SubSeq(All, sent + 1, sent + c) \in Seq(S)
            /\ Len(SubSeq(All, sent + 1, sent + c)) = c
            /\ \A p \in 1..c : SubSeq(All, sent + 1, sent + c)[p] = All[sent + p]
        <5>1. sent + 1 \in Int /\ sent + c \in Int /\ sent \in Nat
          BY <3>3, <3>10
        <5>2. \A p \in (sent + 1)..(sent + c) : All[p] \in S
          <6> TAKE p \in (sent + 1)..(sent + c)
          <6>1. p \in 1..Len(All)
            BY <3>2, <3>3, <3>10
          <6> QED
            BY <3>2, <6>1
        <5>3. /\ SubSeq(All, sent + 1, sent + c) \in Seq(S)
              /\ Len(SubSeq(All, sent + 1, sent + c)) =
                   IF sent + 1 <= sent + c THEN (sent + c) - (sent + 1) + 1 ELSE 0
              /\ \A p \in 1..((sent + c) - (sent + 1) + 1) :
                   SubSeq(All, sent + 1, sent + c)[p] = All[(sent + 1) + p - 1]
          BY <5>1, <5>2, SubSeqProperties
        <5>4. /\ (sent + c) - (sent + 1) + 1 = c /\ (sent + 1 <= sent + c <=> 1 <= c)
              /\ \A p \in 1..c : (sent + 1) + p - 1 = sent + p
          BY <3>10, <5>1
        <5> QED
          BY <3>10, <5>3, <5>4
      <4> QED
        BY <4>1, <4>2, <4>3
    <3>12. SubSeq(All, 1, sent) \o SubSeq(All, sent + 1, sent + c) = SubSeq(All, 1, sent + c)
      <4>1. 1 \in 1..(Len(All) + 1) /\ sent \in (1 - 1)..Len(All) /\ sent + c \in sent..Len(All)
        BY <3>2, <3>3, <3>10
      <4> QED
        BY <3>2, <4>1, ConcatAdjacentSubSeq, Zenon
    <3> QED
      BY <3>3, <3>8, <3>10, <3>11, <3>12 DEF c
  <2> QED
    BY <2>1, <2>2 DEF IovecNext
<1>3. IovecInv => SentInOrder
  <2> SUFFICES ASSUME IovecInv, Growing
               PROVE  /\ IsPrefix(delivered, All) /\ Len(delivered) = sent
                      /\ WasSent(orig, sent) <=> delivered = All
    BY DEF SentInOrder
  <2> DEFINE S == {All[p] : p \in 1..Size(orig)}
             T == Totals(orig)
             l == Len(orig)
  <2>1. /\ orig \in Seq(Nat) /\ Size(orig) \in Nat /\ Len(All) = Size(orig) /\ All \in Seq(S)
    BY AllFacts DEF IovecInv
  <2>2. sent \in 0..Len(All) /\ delivered = SubSeq(All, 1, sent)
    BY DEF IovecInv
  <2> HIDE DEF S
  <2>3. SubSeq(All, 1, sent) \in Seq(S) /\ Len(SubSeq(All, 1, sent)) = sent
    <3>1. \A p \in 1..sent : All[p] \in S
      BY <2>1, <2>2
    <3>2. /\ SubSeq(All, 1, sent) \in Seq(S)
          /\ Len(SubSeq(All, 1, sent)) = IF 1 <= sent THEN sent - 1 + 1 ELSE 0
      BY <2>1, <2>2, <3>1, SubSeqProperties
    <3> QED
      BY <2>1, <2>2, <3>2
  <2>4. IsPrefix(delivered, All) /\ Len(delivered) = sent
    <3>1. SubSeq(delivered, 1, Len(delivered)) = delivered
      BY <2>2, <2>3, SubSeqFull
    <3> QED
      BY <2>1, <2>2, <2>3, <3>1 DEF IsPrefix
  <2>5. delivered = All <=> sent = Size(orig)
    <3>1. SubSeq(All, 1, Len(All)) = All
      BY <2>1, SubSeqFull
    <3> QED
      BY <2>1, <2>2, <2>3, <3>1
  <2>6. /\ T \in [0..l -> Nat] /\ l \in Nat /\ T[0] = 0 /\ Size(orig) = T[l]
        /\ \A i, j \in 0..l : i <= j => T[i] <= T[j]
    BY <2>1, TotalsFacts, TotalsGrow DEF Size
  <2>7. WasSent(orig, sent) <=> \A i \in 1..l : T[i] <= sent
    BY DEF WasSent
  <2> HIDE DEF T, l
  <2>8. (\A i \in 1..l : T[i] <= sent) => Size(orig) <= sent
    <3>1. l = 0 \/ l \in 1..l
      BY <2>6
    <3> QED
      BY <2>1, <2>2, <2>6, <3>1
  <2>9. ASSUME Size(orig) <= sent, NEW i \in 1..l PROVE T[i] <= sent
    <3>1. i \in 0..l /\ l \in 0..l /\ i <= l
      BY <2>6
    <3>2. T[i] <= T[l] /\ T[i] \in Nat /\ T[l] \in Nat
      BY <2>6, <3>1
    <3> QED
      BY <2>1, <2>2, <2>6, <2>9, <3>2
  <2>10. Size(orig) <= sent <=> sent = Size(orig)
    BY <2>1, <2>2
  <2> QED
    BY <2>4, <2>5, <2>7, <2>8, <2>9, <2>10
<1> QED
  BY <1>1, <1>2, <1>3, PTL DEF IovecSpec

-----------------------------------------------------------------------------
(* The text scanners. *)

\* The characters that a text may have.
Characters == UNION Alphabets

\* The characters of an alphabet have been received.
TextTypeOK == alphabet \in Alphabets /\ received \in Seq(Characters)

\* First is the first one, if there is one.
LEMMA FirstFacts ==
  ASSUME NEW T \in SUBSET Nat, NEW x
  PROVE  /\ T = {} => First(T, x) = x
         /\ T # {} => First(T, x) \in T /\ \A j \in T : First(T, x) <= j
<1>1. ASSUME T # {} PROVE First(T, x) \in T /\ \A j \in T : First(T, x) <= j
  <2>1. \E i \in T : \A j \in T : i <= j
    BY <1>1, LeastNat
  <2> QED
    BY <1>1, <2>1 DEF First
<1> QED
  BY <1>1 DEF First

\* Of positions in a text there is a last one.
LEMMA FinalFacts ==
  ASSUME NEW n \in Nat, NEW T \in SUBSET (0..n), NEW x
  PROVE  /\ T = {} => Final(T, x) = x
         /\ T # {} => Final(T, x) \in T /\ \A j \in T : j <= Final(T, x)
<1>1. ASSUME T # {} PROVE \E i \in T : \A j \in T : j <= i
  <2> DEFINE U == {y \in 0..n : n - y \in T}
  <2>1. \A j \in T : j \in 0..n /\ n - j \in U
    <3> TAKE j \in T
    <3>1. j \in 0..n /\ n - j \in 0..n /\ n - (n - j) = j
      OBVIOUS
    <3> QED
      BY <3>1
  <2>2. U \in SUBSET Nat /\ U # {}
    <3>1. PICK j : j \in T
      BY <1>1
    <3>2. n - j \in U
      BY <2>1, <3>1
    <3> QED
      BY <3>2
  <2>3. PICK u \in U : \A y \in U : u <= y
    BY <2>2, LeastNat
  <2>4. u \in 0..n /\ n - u \in T
    OBVIOUS
  <2> HIDE DEF U
  <2>5. \A j \in T : j <= n - u
    BY <2>1, <2>3, <2>4
  <2> QED
    BY <2>4, <2>5
<1>2. ASSUME T # {} PROVE Final(T, x) \in T /\ \A j \in T : j <= Final(T, x)
  BY <1>1, <1>2 DEF Final
<1> QED
  BY <1>2 DEF Final

-----------------------------------------------------------------------------
(* The path info. *)

\* What lies further down in a path is not a directory if something above it is none.
LEMMA StatFacts ==
  ASSUME NEW s, NEW h \in Nat, NEW k \in Nat, h <= k, NEW dirs \in Nat, NEW then,
         then # "dir", Stat(s, h, dirs, then) # "dir"
  PROVE  Stat(s, k, dirs, then) # "dir"
<1> DEFINE H == {i \in 2..h : s[i] = "/"}
           K == {i \in 2..k : s[i] = "/"}
<1>1. IsFiniteSet(2..k)
  BY FS_Interval
<1>2. IsFiniteSet(K)
  <2>1. K \in SUBSET (2..k)
    OBVIOUS
  <2> QED
    BY <1>1, <2>1, FS_Subset
<1>3. H \in SUBSET K
  OBVIOUS
<1>4. IsFiniteSet(H) /\ Cardinality(H) <= Cardinality(K)
  BY <1>2, <1>3, FS_Subset
<1>5. Cardinality(H) \in Nat /\ Cardinality(K) \in Nat
  BY <1>2, <1>4, FS_CardinalityType
<1>6. ~(Cardinality(H) + 1 <= dirs)
  BY DEF Stat
<1> HIDE DEF H, K
<1>7. ~(Cardinality(K) + 1 <= dirs)
  BY <1>4, <1>5, <1>6
<1> QED
  BY <1>7 DEF Stat, K

\* PathinfoBehindFile, of any text.
LEMMA PathinfoFacts ==
  ASSUME TextTypeOK
  PROVE  PathinfoBehindFile
<1> SUFFICES ASSUME NEW dirs \in 0..MaxText, NEW then \in {"none", "file"},
                    NEW allow_dirs \in BOOLEAN,
                    SplitPathinfo(received, 1, allow_dirs, dirs, then) > 0
             PROVE  LET at == SplitPathinfo(received, 1, allow_dirs, dirs, then)
                    IN  /\ received[at] = "/"
                        /\ Stat(received, at - 1, dirs, then) = "file"
                             \/ /\ allow_dirs /\ Stat(received, at - 1, dirs, then) = "dir"
                                /\ \A k \in at + 1..Len(received) :
                                     received[k] = "/" => Stat(received, k - 1, dirs, then) # "dir"
  BY DEF PathinfoBehindFile
<1> DEFINE slashes == {i \in 1 + 1..Len(received) : received[i] = "/"}
           what(i) == Stat(received, i - 1, dirs, then)
           halts == {i \in slashes : what(i) # "dir"}
           halt == First(halts, 0)
           last_dir == {i \in slashes : i < halt}
           at == SplitPathinfo(received, 1, allow_dirs, dirs, then)
<1>1. Len(received) \in Nat /\ dirs \in Nat
  BY TextAssumption DEF TextTypeOK
<1>2. at = IF 1 > Len(received) THEN -1
           ELSE IF halt = 0 THEN 0
           ELSE IF what(halt) = "file" THEN halt
           ELSE IF allow_dirs /\ last_dir # {} THEN Final(last_dir, 0)
           ELSE -1
  BY DEF SplitPathinfo
<1>3. halts \in SUBSET Nat /\ 0 \notin halts
  BY <1>1
<1>4. halt # 0 => halt \in halts /\ \A j \in halts : halt <= j
  BY <1>3, FirstFacts
<1>5. last_dir \in SUBSET (0..Len(received))
  BY <1>1
<1> HIDE DEF halt, at
<1>6. at > 0 /\ halt # 0 /\ (at = halt \/ (allow_dirs /\ last_dir # {} /\ at = Final(last_dir, 0)))
  BY <1>2 DEF at
<1>7. CASE at = halt /\ what(halt) = "file"
  BY <1>4, <1>6, <1>7 DEF at
<1>8. CASE ~(at = halt /\ what(halt) = "file")
  <2>1. allow_dirs /\ last_dir # {} /\ at = Final(last_dir, 0)
    BY <1>2, <1>6, <1>8
  <2>2. at \in last_dir /\ \A j \in last_dir : j <= at
    BY <1>1, <1>5, <2>1, FinalFacts
  <2>3. at \in slashes /\ at < halt /\ at \in Nat /\ halt \in Nat /\ at >= 2 /\ halt >= 2
    BY <1>1, <1>4, <1>6, <2>2
  <2>4. at \notin halts
    BY <1>4, <1>6, <2>3
  <2>5. what(at) = "dir" /\ received[at] = "/"
    BY <2>3, <2>4
  <2>6. ASSUME NEW k \in at + 1..Len(received), received[k] = "/" PROVE what(k) # "dir"
    <3>1. k \in slashes /\ k \in Nat
      BY <1>1, <2>3, <2>6
    <3>2. ~(k <= at)
      BY <2>3
    <3>3. k >= halt
      BY <2>2, <2>3, <3>1, <3>2
    <3>4. what(halt) # "dir"
      BY <1>4, <1>6
    <3>5. halt - 1 \in Nat /\ k - 1 \in Nat /\ halt - 1 <= k - 1
      BY <2>3, <3>1, <3>3
    <3> QED
      BY <1>1, <3>4, <3>5, StatFacts
  <2> QED
    BY <2>1, <2>5, <2>6 DEF at
<1> QED
  BY <1>7, <1>8

-----------------------------------------------------------------------------
(* The host. *)

\* A part of a text.
LEMMA SliceFacts ==
  ASSUME NEW S, NEW s \in Seq(S), NEW m \in 1..(Len(s) + 1), NEW n \in (m - 1)..Len(s)
  PROVE  /\ SubSeq(s, m, n) \in Seq(S) /\ Len(SubSeq(s, m, n)) = n - m + 1
         /\ \A i \in 1..(n - m + 1) : SubSeq(s, m, n)[i] = s[m + i - 1]
OBVIOUS

\* A text cut at one character.
LEMMA CutAtOne ==
  ASSUME NEW S, NEW s \in Seq(S), NEW c \in 1..Len(s)
  PROVE  /\ SubSeq(s, 1, c - 1) \in Seq(S) /\ SubSeq(s, c + 1, Len(s)) \in Seq(S)
         /\ Len(SubSeq(s, 1, c - 1)) = c - 1
         /\ \A i \in 1..(c - 1) : SubSeq(s, 1, c - 1)[i] = s[i]
         /\ SubSeq(s, 1, c - 1) \o <<s[c]>> \o SubSeq(s, c + 1, Len(s)) = s
<1>1. Len(s) \in Nat /\ c \in Nat /\ \A i \in 1..Len(s) : s[i] \in S
  OBVIOUS
<1>2. /\ SubSeq(s, 1, c - 1) \in Seq(S) /\ Len(SubSeq(s, 1, c - 1)) = c - 1
      /\ \A i \in 1..(c - 1) : SubSeq(s, 1, c - 1)[i] = s[i]
  OBVIOUS
<1>3. /\ SubSeq(s, c + 1, Len(s)) \in Seq(S) /\ Len(SubSeq(s, c + 1, Len(s))) = Len(s) - c
      /\ \A i \in 1..(Len(s) - c) : SubSeq(s, c + 1, Len(s))[i] = s[c + i]
  OBVIOUS
<1> DEFINE u == SubSeq(s, 1, c - 1)
           w == SubSeq(s, c + 1, Len(s))
           t == u \o <<s[c]>> \o w
<1> HIDE DEF u, w
<1>4. u \in Seq(S) /\ w \in Seq(S) /\ Len(u) = c - 1 /\ Len(w) = Len(s) - c /\ s[c] \in S
  BY <1>1, <1>2, <1>3 DEF u, w
<1>5. t \in Seq(S) /\ Len(t) = Len(s)
  <2>1. <<s[c]>> \in Seq(S) /\ Len(<<s[c]>>) = 1
    BY <1>4
  <2>2. u \o <<s[c]>> \in Seq(S) /\ Len(u \o <<s[c]>>) = c
    BY <1>1, <1>4, <2>1
  <2>3. t \in Seq(S) /\ Len(t) = Len(u \o <<s[c]>>) + Len(w)
    BY <1>4, <2>2, ConcatProperties, Zenon
  <2>4. c + (Len(s) - c) = Len(s)
    BY <1>1
  <2> QED
    BY <1>4, <2>2, <2>3, <2>4, Zenon
<1>6. \A i \in 1..Len(s) : t[i] = IF i < c THEN u[i] ELSE IF i = c THEN s[c] ELSE w[i - c]
  BY <1>1, <1>4
<1> HIDE DEF t
<1>7. \A i \in 1..Len(s) : t[i] = s[i]
  <2> TAKE i \in 1..Len(s)
  <2>1. CASE i < c
    <3>1. i \in 1..(c - 1)
      BY <1>1, <2>1
    <3> QED
      BY <1>2, <1>6, <2>1, <3>1 DEF u
  <2>2. CASE i = c
    BY <1>1, <1>6, <2>2
  <2>3. CASE i > c
    <3>1. i - c \in 1..(Len(s) - c) /\ c + (i - c) = i
      BY <1>1, <2>3
    <3>2. w[i - c] = s[i]
      BY <1>3, <3>1 DEF w
    <3> QED
      BY <1>1, <1>6, <2>3, <3>2
  <2> QED
    BY <1>1, <2>1, <2>2, <2>3
<1>8. t = s
  BY <1>5, <1>7, SeqEqual
<1> QED
  BY <1>2, <1>4, <1>8 DEF t, u, w

\* HostKept, of any text.
LEMMA HostFacts ==
  ASSUME TextTypeOK
  PROVE  HostKept
<1> DEFINE s == received
           S == Characters
           colons == {i \in DOMAIN s : s[i] = ":"}
           colon == First(colons, 0)
           brackets == {i \in DOMAIN s : s[i] = "]"}
           bracket == Final(brackets, 0)
           behind == IF bracket < Len(s) THEN s[bracket + 1] ELSE NUL
           h == ParseHost(s)
<1>1. s \in Seq(S) /\ Len(s) \in Nat /\ DOMAIN s = 1..Len(s) /\ \A i \in 1..Len(s) : s[i] \in S
  BY DEF TextTypeOK
<1>2. colons \in SUBSET Nat /\ IsFiniteSet(colons) /\ Cardinality(colons) \in Nat
  <2>1. colons \in SUBSET (1..Len(s)) /\ IsFiniteSet(1..Len(s))
    BY <1>1, FS_Interval
  <2>2. IsFiniteSet(colons)
    BY <2>1, FS_Subset
  <2> QED
    BY <2>1, <2>2, FS_CardinalityType
<1> HIDE DEF h
<1>3. CASE colons = {}
  <2>1. h = [ret |-> "ok", host |-> s, port |-> <<>>]
    <3>1. Cardinality(colons) = 0
      BY <1>3, FS_EmptySet
    <3> HIDE DEF colons
    <3> QED
      BY <1>3, <3>1 DEF ParseHost, Host, colons, h
  <2> QED
    BY <2>1 DEF HostKept, h
<1>4. CASE colons # {} /\ Cardinality(colons) = 1
  <2>1. h = [ret |-> "ok", host |-> SubSeq(s, 1, colon - 1), port |-> SubSeq(s, colon + 1, Len(s))]
    BY <1>4 DEF ParseHost, Host, h
  <2>2. colon \in 1..Len(s) /\ s[colon] = ":" /\ colons = {colon}
    <3>1. colon \in colons
      BY <1>2, <1>4, FirstFacts
    <3>2. \E x : colons = {x}
      BY <1>2, <1>4, FS_Singleton
    <3> QED
      BY <1>1, <3>1, <3>2
  <2> HIDE DEF colon
  <2>3. /\ Len(SubSeq(s, 1, colon - 1)) = colon - 1 /\ SubSeq(s, 1, colon - 1) \in Seq(S)
        /\ \A i \in 1..(colon - 1) : SubSeq(s, 1, colon - 1)[i] = s[i]
        /\ SubSeq(s, 1, colon - 1) \o <<":">> \o SubSeq(s, colon + 1, Len(s)) = s
    BY <1>1, <2>2, CutAtOne
  <2>4. ~Contains(h.host, ":")
    <3>1. \A i \in 1..(colon - 1) : s[i] # ":"
      <4> TAKE i \in 1..(colon - 1)
      <4>1. i \in 1..Len(s) /\ i # colon
        BY <1>1, <2>2
      <4> QED
        BY <1>1, <2>2, <4>1
    <3>2. h.host = SubSeq(s, 1, colon - 1)
      BY <2>1
    <3> QED
      BY <2>3, <3>1, <3>2 DEF Contains
  <2>5. h.host = SubSeq(s, 1, colon - 1) /\ h.port = SubSeq(s, colon + 1, Len(s))
    BY <2>1
  <2>6. received = h.host \o <<":">> \o h.port
    BY <2>3, <2>5
  <2> QED
    BY <2>4, <2>6 DEF HostKept, h
<1>5. CASE Cardinality(colons) > 1 /\ s[1] # "["
  <2>1. colons # {} /\ Cardinality(colons) # 1
    BY <1>2, <1>5, FS_EmptySet
  <2>2. h = [ret |-> "ok", host |-> s, port |-> <<>>]
    <3> HIDE DEF colons
    <3> QED
      BY <1>5, <2>1 DEF ParseHost, Host, colons, h
  <2> QED
    BY <2>2 DEF HostKept, h
<1>6. CASE Cardinality(colons) > 1 /\ s[1] = "["
  <2> SUFFICES ASSUME h.ret = "ok"
               PROVE  /\ received = <<"[">> \o h.host \o <<"]", ":">> \o h.port
                      /\ received[1] = "["
    BY DEF HostKept, h
  <2>1. colons # {} /\ Cardinality(colons) # 1
    BY <1>2, <1>6, FS_EmptySet
  <2>2. h = IF bracket = 0 \/ behind # ":" THEN Host("error", <<>>, <<>>)
            ELSE Host("ok", SubSeq(s, 2, bracket - 1), SubSeq(s, bracket + 2, Len(s)))
    <3> HIDE DEF colons, bracket, behind
    <3> QED
      BY <1>6, <2>1 DEF ParseHost, colons, bracket, behind, h
  <2>3. bracket # 0 /\ behind = ":"
    BY <2>2 DEF Host
  <2>4. /\ h.host = SubSeq(s, 2, bracket - 1) /\ h.port = SubSeq(s, bracket + 2, Len(s))
    <3> HIDE DEF bracket, behind
    <3>1. h = [ret |-> "ok", host |-> SubSeq(s, 2, bracket - 1), port |-> SubSeq(s, bracket + 2, Len(s))]
      BY <2>2, <2>3 DEF Host
    <3> QED
      BY <3>1
  <2>5. bracket \in 1..Len(s) /\ s[bracket] = "]"
    <3>1. brackets \in SUBSET (0..Len(s))
      BY <1>1
    <3>2. bracket \in brackets
      BY <1>1, <2>3, <3>1, FinalFacts
    <3> QED
      BY <1>1, <3>2
  <2>6. bracket < Len(s) /\ s[bracket + 1] = ":"
    BY <2>3 DEF NUL
  <2>7. bracket >= 2
    BY <1>1, <1>6, <2>5
  <2> HIDE DEF bracket
  <2> DEFINE b == bracket
             x == SubSeq(s, 2, b - 1)
             y == SubSeq(s, b + 2, Len(s))
             t == <<s[1]>> \o x \o <<s[b], s[b + 1]>> \o y
  <2>8. b \in Nat /\ b >= 2 /\ b + 1 <= Len(s)
    BY <1>1, <2>5, <2>6, <2>7
  <2> HIDE DEF b
  <2>9. /\ x \in Seq(S) /\ Len(x) = b - 2 /\ \A i \in 1..(b - 2) : x[i] = s[i + 1]
        /\ y \in Seq(S) /\ Len(y) = Len(s) - (b + 1)
        /\ \A i \in 1..(Len(s) - (b + 1)) : y[i] = s[(b + 1) + i]
    <3>1. x \in Seq(S) /\ Len(x) = b - 2 /\ \A i \in 1..(b - 2) : x[i] = s[i + 1]
      <4> HIDE DEF S
      <4> QED
        BY <1>1, <2>8
    <3>2. /\ y \in Seq(S) /\ Len(y) = Len(s) - (b + 1)
          /\ \A i \in 1..(Len(s) - (b + 1)) : y[i] = s[(b + 1) + i]
      <4>1. b + 2 \in 1..(Len(s) + 1) /\ Len(s) \in ((b + 2) - 1)..Len(s)
        BY <1>1, <2>8
      <4>2. /\ y \in Seq(S) /\ Len(y) = Len(s) - (b + 2) + 1
            /\ \A i \in 1..(Len(s) - (b + 2) + 1) : y[i] = s[(b + 2) + i - 1]
        BY <1>1, <4>1, SliceFacts
      <4>3. /\ Len(s) - (b + 2) + 1 = Len(s) - (b + 1)
            /\ \A i \in Int : (b + 2) + i - 1 = (b + 1) + i
        BY <1>1, <2>8
      <4>4. \A i \in 1..(Len(s) - (b + 1)) : i \in Int
        OBVIOUS
      <4> QED
        BY <4>2, <4>3, <4>4, Zenon
    <3> QED
      BY <3>1, <3>2
  <2> HIDE DEF x, y
  <2>10. s[1] \in S /\ s[b] \in S /\ s[b + 1] \in S
    BY <1>1, <2>8
  <2>11. t \in Seq(S) /\ Len(t) = Len(s)
    <3>1. /\ <<s[1]>> \in Seq(S) /\ Len(<<s[1]>>) = 1
          /\ <<s[b], s[b + 1]>> \in Seq(S) /\ Len(<<s[b], s[b + 1]>>) = 2
      BY <2>10
    <3>2. <<s[1]>> \o x \in Seq(S) /\ Len(<<s[1]>> \o x) = b - 1
      BY <2>8, <2>9, <3>1
    <3>3. /\ <<s[1]>> \o x \o <<s[b], s[b + 1]>> \in Seq(S)
          /\ Len(<<s[1]>> \o x \o <<s[b], s[b + 1]>>) = b + 1
      BY <2>8, <3>1, <3>2
    <3>4. t \in Seq(S) /\ Len(t) = Len(<<s[1]>> \o x \o <<s[b], s[b + 1]>>) + Len(y)
      BY <2>9, <3>3, ConcatProperties, Zenon
    <3>5. (b + 1) + (Len(s) - (b + 1)) = Len(s)
      BY <1>1, <2>8
    <3> QED
      BY <2>9, <3>3, <3>4, <3>5, Zenon
  <2>12. \A i \in 1..Len(s) : t[i] = IF i = 1 THEN s[1] ELSE IF i < b THEN x[i - 1]
                                     ELSE IF i = b THEN s[b] ELSE IF i = b + 1 THEN s[b + 1]
                                     ELSE y[i - (b + 1)]
    BY <1>1, <2>8, <2>9, <2>10
  <2> HIDE DEF t
  <2>13. \A i \in 1..Len(s) : t[i] = s[i]
    <3> TAKE i \in 1..Len(s)
    <3>1. CASE i > 1 /\ i < b
      <4>1. i - 1 \in 1..(b - 2) /\ (i - 1) + 1 = i
        BY <1>1, <2>8, <3>1
      <4> QED
        BY <1>1, <2>8, <2>9, <2>12, <3>1, <4>1
    <3>2. CASE i > b + 1
      <4>1. i - (b + 1) \in 1..(Len(s) - (b + 1)) /\ (b + 1) + (i - (b + 1)) = i
        BY <1>1, <2>8, <3>2
      <4> QED
        BY <1>1, <2>8, <2>9, <2>12, <3>2, <4>1
    <3>3. CASE i = 1 \/ i = b \/ i = b + 1
      BY <1>1, <2>8, <2>12, <3>3
    <3> QED
      BY <1>1, <2>8, <3>1, <3>2, <3>3
  <2>14. t = s
    BY <1>1, <2>11, <2>13, SeqEqual
  <2> QED
    BY <1>6, <2>4, <2>5, <2>6, <2>14 DEF t, x, y, b
<1>7. Cardinality(colons) = 0 => colons = {}
  BY <1>2, FS_EmptySet
<1> HIDE DEF colons
<1>8. Cardinality(colons) = 0 \/ Cardinality(colons) = 1 \/ Cardinality(colons) > 1
  BY <1>2
<1> QED
  BY <1>3, <1>4, <1>5, <1>6, <1>7, <1>8

-----------------------------------------------------------------------------
(* The end of a header. *)

\* fin - c_str
Fin(s) == IF Len(s) < MaxHeader THEN Len(s) ELSE MaxHeader

\* The local variables of the loop.
HeaderStates ==
  [ret : {"not_found", "ok", "error"}, end : Nat, sep_len : Int, begin : Nat, cr_n : Nat, lf_n : Nat]

\* A second LF with nothing but CRs since the first.
Blank(s, i) ==
  s[i] = LF /\ \E j \in 1..i - 1 : s[j] = LF /\ \A k \in j + 1..i - 1 : s[k] = CR

\* The second CR of a run that begins with two.
TwoCRs(s, i) == /\ i > 1 /\ s[i] = CR /\ s[i - 1] = CR
                /\ i > 2 => s[i - 2] \notin {CR, LF}

\* A run of CRs and LFs from b to p, with l LFs.
RunOf(s, b, p, l) ==
  /\ \A i \in b..p : s[i] \in {CR, LF}
  /\ b > 1 => s[b - 1] \notin {CR, LF}
  /\ \/ l = 0 /\ \A i \in b..p : s[i] # LF
     \/ l = 1 /\ \E j \in b..p : s[j] = LF /\ \A i \in b..p : s[i] = LF => i = j

\* What the loop knows behind p characters.
HeaderOK(s, a, p) ==
  /\ a.ret = "not_found" =>
       /\ a.begin <= p
       /\ a.begin = 0 => p = 0 \/ s[p] \notin {CR, LF}
       /\ a.begin > 0 => RunOf(s, a.begin, p, a.lf_n)
       /\ a.begin > 0 /\ a.lf_n = 0 => a.begin = p /\ a.cr_n = 1
       /\ \A i \in 1..p : ~Blank(s, i) /\ ~TwoCRs(s, i)
  /\ a.ret = "error" =>
       \E e \in 1..p : TwoCRs(s, e) /\ \A i \in 1..(e - 1) : ~Blank(s, i) /\ ~TwoCRs(s, i)
  /\ a.ret = "ok" =>
       \E e \in 1..p :
         /\ a.end \in 1..e /\ a.end + a.sep_len - 1 = e
         /\ Blank(s, e) /\ \A i \in 1..(e - 1) : ~Blank(s, i) /\ ~TwoCRs(s, i)
         /\ \A i \in a.end..e : s[i] \in {CR, LF}
         /\ a.end > 1 => s[a.end - 1] \notin {CR, LF}

\* A record of the loop's state after a character.
LEMMA HeaderStepType ==
  ASSUME NEW s, NEW a \in HeaderStates, NEW p \in Nat
  PROVE  HeaderStep(s, a, p) \in HeaderStates
<1> DEFINE run == IF a.begin = 0 THEN NewRun(a, p) ELSE a
           cr_n == run.cr_n + IF s[p] = CR THEN 1 ELSE 0
           lf_n == run.lf_n + IF s[p] = LF THEN 1 ELSE 0
<1>1. run \in HeaderStates
  BY DEF HeaderStates, NewRun
<1>2. HeaderStep(s, a, p) =
        IF a.ret # "not_found" THEN a
        ELSE IF s[p] \notin {CR, LF} THEN [a EXCEPT !.begin = 0]
        ELSE IF s[p] = LF /\ lf_n = 2
             THEN [run EXCEPT !.ret = "ok", !.end = run.begin, !.sep_len = (p - run.begin) + 1]
        ELSE IF (cr_n = 1 /\ lf_n = 2) \/ (cr_n = 2 /\ lf_n = 0) THEN [run EXCEPT !.ret = "error"]
        ELSE [run EXCEPT !.cr_n = cr_n, !.lf_n = lf_n]
  BY DEF HeaderStep
<1> HIDE DEF run
<1>3. cr_n \in Nat /\ lf_n \in Nat
  BY <1>1 DEF HeaderStates
<1> HIDE DEF cr_n, lf_n
<1>4. [a EXCEPT !.begin = 0] \in HeaderStates
  BY DEF HeaderStates
<1>5. [run EXCEPT !.ret = "ok", !.end = run.begin, !.sep_len = (p - run.begin) + 1] \in HeaderStates
  <2>1. run.begin \in Nat /\ (p - run.begin) + 1 \in Int
    BY <1>1 DEF HeaderStates
  <2> DEFINE z == (p - run.begin) + 1
             y == run.begin
  <2> HIDE DEF z, y
  <2>2. [run EXCEPT !.ret = "ok", !.end = y, !.sep_len = z] \in HeaderStates
    <3>1. y \in Nat /\ z \in Int
      BY <2>1 DEF y, z
    <3> QED
      BY <1>1, <3>1 DEF HeaderStates
  <2> QED
    BY <2>2 DEF y, z
<1>6. [run EXCEPT !.ret = "error"] \in HeaderStates
  BY <1>1 DEF HeaderStates
<1>7. [run EXCEPT !.cr_n = cr_n, !.lf_n = lf_n] \in HeaderStates
  BY <1>1, <1>3 DEF HeaderStates
<1> QED
  BY <1>2, <1>4, <1>5, <1>6, <1>7

\* The loop of http2d_find_header_end_cstr, character by character.
LEMMA HeaderLoop ==
  ASSUME NEW s, Len(s) \in Nat
  PROVE  \E A \in [0..Fin(s) -> HeaderStates] :
           /\ HeaderScan(s) = A[Fin(s)] /\ A[0] = HeaderStart
           /\ \A p \in 1..Fin(s) : A[p] = HeaderStep(s, A[p - 1], p)
<1> DEFINE n == Fin(s)
           step == [p \in 1..n |-> [a \in HeaderStates |-> HeaderStep(s, a, p)]]
           F(t) == [p \in 0..n |-> IF p = 0 THEN HeaderStart ELSE HeaderStep(s, t[p - 1], p)]
<1>1. n \in Nat
  BY TextAssumption DEF Fin
<1>2. HeaderStart \in HeaderStates
  BY DEF HeaderStart, HeaderStates
<1>3. HeaderScan(s) = (CHOOSE u : u = F(u))[n]
  BY DEF HeaderScan, Fin
<1> HIDE DEF n
<1>4. \A a \in HeaderStates, p \in 1..n : HeaderStep(s, a, p) \in HeaderStates
  BY <1>1, HeaderStepType
<1>5. step \in [1..n -> [HeaderStates -> HeaderStates]]
  BY <1>4
<1>6. \A a \in HeaderStates, p \in 1..n : step[p][a] = HeaderStep(s, a, p)
  OBVIOUS
<1> HIDE DEF step
<1>7. PICK t : GoesBy(t, n, HeaderStates, HeaderStart, step)
  BY <1>1, <1>2, <1>5, Recursion
<1>8. /\ t \in [0..n -> HeaderStates] /\ t[0] = HeaderStart
      /\ \A p \in 1..n : t[p] = step[p][t[p - 1]]
  BY <1>7 DEF GoesBy
<1>9. \A p \in 1..n : t[p - 1] \in HeaderStates /\ t[p] = HeaderStep(s, t[p - 1], p)
  <2> TAKE p \in 1..n
  <2>1. t[p - 1] \in HeaderStates
    <3>1. p - 1 \in 0..n
      BY <1>1
    <3> QED
      BY <1>8, <3>1
  <2> QED
    BY <1>6, <1>8, <2>1
<1>10. t = F(t)
  <2>1. \A p \in 0..n : t[p] = F(t)[p]
    BY <1>1, <1>8, <1>9
  <2> QED
    BY <1>8, <2>1
<1> DEFINE A == CHOOSE u : u = F(u)
<1>11. A = F(A)
  <2> HIDE DEF F
  <2> QED
    BY <1>10
<1> HIDE DEF A
<1>12. A[0] = HeaderStart /\ \A p \in 1..n : A[p] = HeaderStep(s, A[p - 1], p)
  BY <1>1, <1>11
<1>13. \A p \in 0..n : A[p] \in HeaderStates
  <2> DEFINE Q == {p \in 0..n : A[p] \in HeaderStates}
  <2>1. 0 \in Q
    BY <1>1, <1>2, <1>12
  <2>2. ASSUME NEW p \in 1..n, p - 1 \in Q PROVE p \in Q
    <3>1. A[p - 1] \in HeaderStates /\ A[p] = HeaderStep(s, A[p - 1], p)
      BY <1>12, <2>2
    <3>2. A[p] \in HeaderStates
      BY <1>4, <3>1
    <3> QED
      BY <1>1, <3>2
  <2> HIDE DEF Q
  <2>3. \A p \in 0..n : p \in Q
    BY <1>1, <2>1, <2>2, InductionTo
  <2> QED
    BY <2>3 DEF Q
<1>14. A \in [0..n -> HeaderStates]
  BY <1>11, <1>13
<1>15. HeaderScan(s) = A[n]
  BY <1>3 DEF A
<1> QED
  BY <1>12, <1>14, <1>15 DEF n

\* A character keeps what the loop knows.
LEMMA HeaderStepKeeps ==
  ASSUME NEW s, NEW a \in HeaderStates, NEW p \in Nat \ {0}, HeaderOK(s, a, p - 1)
  PROVE  HeaderOK(s, HeaderStep(s, a, p), p)
<1> DEFINE run == IF a.begin = 0 THEN NewRun(a, p) ELSE a
           cr_n == run.cr_n + IF s[p] = CR THEN 1 ELSE 0
           lf_n == run.lf_n + IF s[p] = LF THEN 1 ELSE 0
           b == run.begin
           l == run.lf_n
           c == HeaderStep(s, a, p)
<1>1. CASE a.ret # "not_found"
  <2>1. c = a
    BY <1>1 DEF HeaderStep
  <2>2. CASE a.ret = "ok"
    <3>1. PICK e \in 1..(p - 1) :
            /\ a.end \in 1..e /\ a.end + a.sep_len - 1 = e
            /\ Blank(s, e) /\ \A i \in 1..(e - 1) : ~Blank(s, i) /\ ~TwoCRs(s, i)
            /\ \A i \in a.end..e : s[i] \in {CR, LF}
            /\ a.end > 1 => s[a.end - 1] \notin {CR, LF}
      BY <2>2 DEF HeaderOK
    <3>2. e \in 1..p
      OBVIOUS
    <3> QED
      BY <2>1, <2>2, <3>1, <3>2 DEF HeaderOK
  <2>3. CASE a.ret = "error"
    <3>1. PICK e \in 1..(p - 1) :
            TwoCRs(s, e) /\ \A i \in 1..(e - 1) : ~Blank(s, i) /\ ~TwoCRs(s, i)
      BY <2>3 DEF HeaderOK
    <3>2. e \in 1..p
      OBVIOUS
    <3> QED
      BY <2>1, <2>3, <3>1, <3>2 DEF HeaderOK
  <2> QED
    BY <1>1, <2>1, <2>2, <2>3 DEF HeaderStates
<1>2. CASE a.ret = "not_found" /\ s[p] \notin {CR, LF}
  <2>1. c = [a EXCEPT !.begin = 0]
    BY <1>2 DEF HeaderStep
  <2>2. c.begin = 0 /\ c.ret = "not_found"
    BY <1>2, <2>1 DEF HeaderStates
  <2>3. ~Blank(s, p) /\ ~TwoCRs(s, p)
    BY <1>2 DEF Blank, TwoCRs
  <2>4. \A i \in 1..p : ~Blank(s, i) /\ ~TwoCRs(s, i)
    <3>1. \A i \in 1..p : i = p \/ i \in 1..(p - 1)
      OBVIOUS
    <3> QED
      BY <1>2, <2>3, <3>1 DEF HeaderOK
  <2> HIDE DEF c
  <2> QED
    BY <1>2, <2>2, <2>4 DEF HeaderOK, c
<1>3. CASE a.ret = "not_found" /\ s[p] \in {CR, LF}
  <2>1. /\ run \in HeaderStates /\ run.ret = "not_found"
        /\ b = IF a.begin = 0 THEN p ELSE a.begin
        /\ l = IF a.begin = 0 THEN 0 ELSE a.lf_n
        /\ run.cr_n = IF a.begin = 0 THEN 0 ELSE a.cr_n
    BY <1>3 DEF HeaderStates, NewRun
  <2>2. c = IF s[p] = LF /\ lf_n = 2
            THEN [run EXCEPT !.ret = "ok", !.end = run.begin, !.sep_len = (p - run.begin) + 1]
            ELSE IF (cr_n = 1 /\ lf_n = 2) \/ (cr_n = 2 /\ lf_n = 0) THEN [run EXCEPT !.ret = "error"]
            ELSE [run EXCEPT !.cr_n = cr_n, !.lf_n = lf_n]
    BY <1>3 DEF HeaderStep
  <2> HIDE DEF run, c
  <2>3. b \in Nat /\ l \in Nat /\ 0 < b /\ b <= p
    <3>1. a.begin \in Nat /\ a.lf_n \in Nat /\ a.begin <= p - 1
      BY <1>3 DEF HeaderStates, HeaderOK
    <3> QED
      BY <2>1, <3>1
  <2>4. RunOf(s, b, p - 1, l)
    <3>1. CASE a.begin = 0
      <4>1. b = p /\ l = 0 /\ b..(p - 1) = {}
        BY <2>1, <3>1
      <4>2. b > 1 => s[b - 1] \notin {CR, LF}
        BY <1>3, <3>1, <4>1 DEF HeaderOK
      <4> QED
        BY <4>1, <4>2 DEF RunOf
    <3>2. CASE a.begin # 0
      <4>1. b = a.begin /\ l = a.lf_n
        BY <2>1, <3>2
      <4> QED
        BY <1>3, <2>3, <3>2, <4>1 DEF HeaderOK
    <3> QED
      BY <3>1, <3>2
  <2> HIDE DEF b, l
  <2>5. \A i \in 1..(p - 1) : ~Blank(s, i) /\ ~TwoCRs(s, i)
    BY <1>3 DEF HeaderOK
  <2>6. l = 0 \/ l = 1
    BY <2>4 DEF RunOf
  <2>7. /\ \A i \in b..p : s[i] \in {CR, LF}
        /\ b > 1 => s[b - 1] \notin {CR, LF}
    <3>1. \A i \in b..p : i = p \/ i \in b..(p - 1)
      BY <2>3
    <3> QED
      BY <1>3, <2>4, <3>1 DEF RunOf
  <2>8. CASE s[p] = LF /\ l = 1
    <3>1. lf_n = 2
      BY <2>8 DEF l
    <3>2. c.ret = "ok" /\ c.end = b /\ c.sep_len = (p - b) + 1
      BY <2>1, <2>2, <2>8, <3>1 DEF HeaderStates, b
    <3>3. PICK j \in b..(p - 1) : s[j] = LF /\ \A i \in b..(p - 1) : s[i] = LF => i = j
      BY <2>4, <2>8 DEF RunOf
    <3>4. j \in 1..(p - 1) /\ \A i \in (j + 1)..(p - 1) : i \in b..(p - 1) /\ i \in b..p /\ i # j
      BY <2>3
    <3>5. Blank(s, p)
      BY <2>7, <2>8, <3>3, <3>4 DEF Blank
    <3>6. b \in 1..p /\ b + ((p - b) + 1) - 1 = p /\ p \in 1..p
      BY <2>3
    <3> QED
      BY <2>5, <2>7, <3>2, <3>5, <3>6 DEF HeaderOK, c
  <2>10. CASE s[p] = CR /\ l = 0 /\ a.begin # 0
    <3>1. a.begin \in Nat /\ a.begin > 0 /\ a.lf_n = 0
      BY <2>1, <2>10 DEF HeaderStates
    <3>2. b = p - 1 /\ run.cr_n = 1
      BY <1>3, <2>1, <2>10, <3>1 DEF HeaderOK
    <3>3. cr_n = 2 /\ lf_n = 0
      BY <2>10, <3>2 DEF l, CR, LF
    <3>4. c.ret = "error"
      BY <2>1, <2>2, <3>3 DEF HeaderStates
    <3>5. s[p - 1] = CR
      <4>1. p - 1 \in b..(p - 1)
        BY <2>3, <3>2
      <4>2. s[p - 1] \in {CR, LF} /\ s[p - 1] # LF
        BY <2>4, <2>10, <4>1 DEF RunOf
      <4> QED
        BY <4>2
    <3>6. TwoCRs(s, p)
      BY <2>3, <2>7, <2>10, <3>2, <3>5 DEF TwoCRs
    <3>7. p \in 1..p
      OBVIOUS
    <3> QED
      BY <2>5, <3>4, <3>6, <3>7 DEF HeaderOK, c
  <2>9. CASE ~(s[p] = LF /\ l = 1) /\ ~(s[p] = CR /\ l = 0 /\ a.begin # 0)
    <3>1. lf_n # 2
      BY <2>6, <2>9 DEF l
    <3>a. ~(cr_n = 2 /\ lf_n = 0)
      <4> SUFFICES ASSUME cr_n = 2, lf_n = 0 PROVE FALSE
        OBVIOUS
      <4>1. s[p] = CR /\ l = 0
        BY <1>3, <2>3 DEF l
      <4>2. a.begin = 0 /\ run.cr_n = 0
        BY <2>1, <2>9, <4>1
      <4> QED
        BY <4>1, <4>2
    <3>2. c.ret = "not_found" /\ c.begin = b /\ c.lf_n = lf_n /\ c.cr_n = cr_n
      BY <2>1, <2>2, <3>1, <3>a DEF HeaderStates, b
    <3>b. lf_n = 0 => b = p /\ cr_n = 1
      <4> SUFFICES ASSUME lf_n = 0 PROVE b = p /\ cr_n = 1
        OBVIOUS
      <4>1. s[p] = CR /\ l = 0
        BY <1>3, <2>3 DEF l
      <4>2. a.begin = 0 /\ run.cr_n = 0 /\ b = p
        BY <2>1, <2>9, <4>1
      <4> QED
        BY <4>1, <4>2
    <3>c. ~TwoCRs(s, p)
      <4> SUFFICES ASSUME s[p] = CR, p > 1, s[p - 1] = CR, p > 2 => s[p - 2] \notin {CR, LF}
                   PROVE  FALSE
        BY DEF TwoCRs
      <4>1. CASE a.begin = 0
        BY <1>3, <4>1 DEF HeaderOK
      <4>2. CASE a.begin # 0
        <5>1. l = 1
          BY <2>6, <2>9, <4>2
        <5>2. PICK j \in b..(p - 1) : s[j] = LF
          BY <2>4, <5>1 DEF RunOf
        <5>3. j # p - 1
          BY <5>2 DEF CR, LF
        <5>4. p - 2 \in b..(p - 1) /\ p > 2
          BY <2>3, <5>2, <5>3
        <5> QED
          BY <2>4, <5>4 DEF RunOf
      <4> QED
        BY <4>1, <4>2
    <3>3. RunOf(s, b, p, lf_n)
      <4>1. \A i \in b..p : i = p \/ i \in b..(p - 1)
        BY <2>3
      <4>2. \A i \in b..(p - 1) : i # p /\ i \in b..p
        BY <2>3
      <4>3. p \in b..p
        BY <2>3
      <4>4. CASE s[p] = LF
        <5>1. lf_n = 1 /\ \A i \in b..(p - 1) : s[i] # LF
          BY <2>4, <2>6, <2>9, <4>4 DEF RunOf, l
        <5>2. \A i \in b..p : s[i] = LF => i = p
          BY <4>1, <5>1
        <5> HIDE DEF lf_n
        <5> QED
          BY <2>7, <4>3, <4>4, <5>1, <5>2 DEF RunOf
      <4>5. CASE s[p] # LF
        <5>1. lf_n = l
          BY <2>3, <4>5 DEF l
        <5> HIDE DEF lf_n
        <5>2. CASE l = 0
          <6>1. \A i \in b..p : s[i] # LF
            BY <2>4, <4>1, <4>5, <5>2 DEF RunOf
          <6> QED
            BY <2>7, <5>1, <5>2, <6>1 DEF RunOf
        <5>3. CASE l = 1
          <6>1. PICK j \in b..(p - 1) : s[j] = LF /\ \A i \in b..(p - 1) : s[i] = LF => i = j
            BY <2>4, <5>3 DEF RunOf
          <6>2. j \in b..p /\ \A i \in b..p : s[i] = LF => i = j
            BY <4>1, <4>2, <4>5, <6>1
          <6> QED
            BY <2>7, <5>1, <5>3, <6>1, <6>2 DEF RunOf
        <5> QED
          BY <2>6, <5>2, <5>3
      <4> QED
        BY <4>4, <4>5
    <3>4. ~Blank(s, p)
      <4> SUFFICES ASSUME s[p] = LF, NEW j \in 1..(p - 1), s[j] = LF,
                          \A k \in (j + 1)..(p - 1) : s[k] = CR
                   PROVE  FALSE
        BY DEF Blank
      <4>1. l = 0 /\ \A i \in b..(p - 1) : s[i] # LF
        BY <2>4, <2>6, <2>9 DEF RunOf
      <4>2. j < b
        BY <2>3, <4>1
      <4>3. b > 1 /\ (b - 1 = j \/ b - 1 \in (j + 1)..(p - 1))
        BY <2>3, <4>2
      <4>4. s[b - 1] \in {CR, LF}
        BY <4>3
      <4> QED
        BY <2>7, <4>3, <4>4
    <3>5. \A i \in 1..p : ~Blank(s, i) /\ ~TwoCRs(s, i)
      <4>1. \A i \in 1..p : i = p \/ i \in 1..(p - 1)
        OBVIOUS
      <4> QED
        BY <2>5, <3>4, <3>c, <4>1
    <3> HIDE DEF lf_n, cr_n
    <3> QED
      BY <2>3, <3>2, <3>3, <3>5, <3>b DEF HeaderOK, c
  <2> QED
    BY <2>8, <2>9, <2>10
<1> QED
  BY <1>1, <1>2, <1>3

\* What the loop knows at its end.
LEMMA HeaderScanFacts ==
  ASSUME NEW S, NEW s \in Seq(S)
  PROVE  HeaderScan(s) \in HeaderStates /\ HeaderOK(s, HeaderScan(s), Fin(s))
<1>1. Len(s) \in Nat
  OBVIOUS
<1>2. PICK A \in [0..Fin(s) -> HeaderStates] :
        /\ HeaderScan(s) = A[Fin(s)] /\ A[0] = HeaderStart
        /\ \A p \in 1..Fin(s) : A[p] = HeaderStep(s, A[p - 1], p)
  BY <1>1, HeaderLoop
<1> DEFINE n == Fin(s)
           Q == {p \in 0..n : HeaderOK(s, A[p], p)}
<1>3. n \in Nat
  BY <1>1, TextAssumption DEF Fin
<1> HIDE DEF n
<1>4. 0 \in Q
  <2>1. A[0].ret = "not_found" /\ A[0].begin = 0
    BY <1>2 DEF HeaderStart
  <2>2. HeaderOK(s, A[0], 0)
    BY <2>1 DEF HeaderOK
  <2> QED
    BY <1>3, <2>2
<1>5. ASSUME NEW p \in 1..n, p - 1 \in Q PROVE p \in Q
  <2>1. p \in Nat \ {0} /\ p \in 0..n /\ p - 1 \in 0..n
    BY <1>3
  <2>2. A[p - 1] \in HeaderStates /\ HeaderOK(s, A[p - 1], p - 1) /\ A[p] = HeaderStep(s, A[p - 1], p)
    BY <1>2, <1>5, <2>1 DEF n
  <2>3. HeaderOK(s, A[p], p)
    BY <2>1, <2>2, HeaderStepKeeps
  <2> QED
    BY <2>1, <2>3
<1> HIDE DEF Q
<1>6. \A p \in 0..n : p \in Q
  BY <1>3, <1>4, <1>5, InductionTo
<1>7. n \in 0..n /\ n \in Q
  BY <1>3, <1>6
<1> QED
  BY <1>2, <1>7 DEF Q, n

\* More of a header does not change what was found in the part that was there.
LEMMA HeaderScanFront ==
  ASSUME NEW S, NEW s \in Seq(S), s # <<>>, HeaderScan(Front(s)).ret # "not_found"
  PROVE  HeaderScan(s) = HeaderScan(Front(s))
<1> DEFINE f == Front(s)
           m == Fin(f)
           n == Fin(s)
<1>1. /\ Len(s) \in Nat \ {0} /\ f \in Seq(S) /\ Len(f) = Len(s) - 1
      /\ \A i \in 1..(Len(s) - 1) : f[i] = s[i]
  BY FrontFacts
<1>2. m \in Nat /\ n \in Nat /\ m <= n /\ n <= m + 1 /\ m <= Len(s) - 1
  BY <1>1, TextAssumption DEF Fin
<1> HIDE DEF f
<1>2a. Len(f) \in Nat /\ Len(s) \in Nat
  BY <1>1
<1>3. PICK A \in [0..n -> HeaderStates] :
        /\ HeaderScan(s) = A[n] /\ A[0] = HeaderStart
        /\ \A p \in 1..n : A[p] = HeaderStep(s, A[p - 1], p)
  BY <1>2a, HeaderLoop
<1>4. PICK B \in [0..m -> HeaderStates] :
        /\ HeaderScan(f) = B[m] /\ B[0] = HeaderStart
        /\ \A p \in 1..m : B[p] = HeaderStep(f, B[p - 1], p)
  BY <1>2a, HeaderLoop
<1> HIDE DEF m, n
<1> DEFINE Q == {p \in 0..m : A[p] = B[p]}
<1>5. 0 \in Q
  BY <1>2, <1>3, <1>4
<1>6. ASSUME NEW p \in 1..m, p - 1 \in Q PROVE p \in Q
  <2>1. p \in 1..n /\ p \in 0..m /\ p \in 1..(Len(s) - 1)
    BY <1>1, <1>2
  <2>2. A[p - 1] = B[p - 1] /\ f[p] = s[p]
    BY <1>1, <1>6, <2>1
  <2>3. A[p] = HeaderStep(s, A[p - 1], p) /\ B[p] = HeaderStep(f, B[p - 1], p)
    BY <1>3, <1>4, <2>1
  <2>4. HeaderStep(s, A[p - 1], p) = HeaderStep(f, A[p - 1], p)
    BY <2>2 DEF HeaderStep
  <2>5. A[p] = B[p]
    BY <2>2, <2>3, <2>4
  <2> QED
    BY <2>1, <2>5
<1> HIDE DEF Q
<1>7. \A p \in 0..m : p \in Q
  BY <1>2, <1>5, <1>6, InductionTo
<1>8. m \in 0..m /\ A[m] = B[m]
  BY <1>2, <1>7 DEF Q
<1>9. A[m].ret # "not_found"
  BY <1>4, <1>8 DEF f
<1>10. A[n] = A[m]
  <2>1. CASE n = m
    BY <2>1
  <2>2. CASE n # m
    <3>1. n \in 1..n /\ n - 1 = m
      BY <1>2, <2>2
    <3>2. A[n] = HeaderStep(s, A[m], n)
      BY <1>3, <3>1
    <3> QED
      BY <1>9, <3>2 DEF HeaderStep
  <2> QED
    BY <2>1, <2>2
<1> QED
  BY <1>3, <1>4, <1>8, <1>10 DEF f

\* HeaderEndStable, of any text.
LEMMA HeaderFacts ==
  ASSUME TextTypeOK
  PROVE  HeaderEndStable
<1> DEFINE s == received
           S == Characters
           now == FindHeaderEnd(s)
           then == IF s = <<>> THEN now ELSE FindHeaderEnd(Front(s))
           blank == {i \in 1..Len(s) :
                       /\ i <= MaxHeader /\ s[i] = LF
                       /\ \E j \in 1..i - 1 : /\ s[j] = LF
                                              /\ \A k \in j + 1..i - 1 : s[k] = CR}
           bad == {i \in 2..Len(s) :
                     /\ i <= MaxHeader /\ s[i] = CR /\ s[i - 1] = CR
                     /\ i > 2 => s[i - 2] \notin {CR, LF}}
           a == HeaderScan(s)
           n == Fin(s)
<1>1. s \in Seq(S) /\ Len(s) \in Nat
  BY DEF TextTypeOK
<1>2. a \in HeaderStates /\ HeaderOK(s, a, n)
  BY <1>1, HeaderScanFacts
<1>3. n \in Nat /\ \A i \in Nat : i \in 1..n <=> i \in 1..Len(s) /\ i <= MaxHeader
  BY <1>1, TextAssumption DEF Fin
<1>4. now = [ret |-> a.ret, end |-> a.end, sep_len |-> a.sep_len]
  BY DEF FindHeaderEnd
<1>5. now.ret = a.ret /\ now.end = a.end /\ now.sep_len = a.sep_len
  BY <1>4
<1>6. \A i \in Nat : i \in blank <=> i \in 1..n /\ Blank(s, i)
  BY <1>3 DEF Blank
<1>6a. \A i \in Nat : i \in bad <=> i \in 1..n /\ TwoCRs(s, i)
  BY <1>3 DEF TwoCRs
<1>7. blank \in SUBSET Nat /\ bad \in SUBSET Nat
  OBVIOUS
<1>8. then.ret # "not_found" => now = then
  <2> SUFFICES ASSUME s # <<>>, FindHeaderEnd(Front(s)).ret # "not_found"
               PROVE  now = FindHeaderEnd(Front(s))
    OBVIOUS
  <2>1. HeaderScan(Front(s)).ret # "not_found"
    BY DEF FindHeaderEnd
  <2>2. HeaderScan(s) = HeaderScan(Front(s))
    BY <1>1, <2>1, HeaderScanFront
  <2> QED
    BY <2>2 DEF FindHeaderEnd
<1> HIDE DEF now, blank, bad, a, n, s
<1>9. ASSUME now.ret = "not_found" PROVE blank = {} /\ bad = {}
  <2>1. \A i \in 1..n : ~Blank(s, i) /\ ~TwoCRs(s, i)
    BY <1>2, <1>5, <1>9 DEF HeaderOK
  <2> QED
    BY <1>6, <1>6a, <1>7, <2>1
<1>11. ASSUME now.ret = "error" PROVE bad # {} /\ \A i \in blank : First(bad, 0) < i
  <2>1. PICK e \in 1..n :
          TwoCRs(s, e) /\ \A i \in 1..(e - 1) : ~Blank(s, i) /\ ~TwoCRs(s, i)
    BY <1>2, <1>5, <1>11 DEF HeaderOK
  <2>2. e \in Nat /\ e \in bad
    BY <1>3, <1>6a, <2>1
  <2>3. First(bad, 0) \in bad /\ First(bad, 0) <= e
    BY <1>7, <2>2, FirstFacts
  <2>4. ~Blank(s, e)
    BY <2>1 DEF TwoCRs, Blank, CR, LF
  <2>5. \A i \in blank : i \in Nat /\ i \in 1..n /\ Blank(s, i) /\ i \notin 1..(e - 1) /\ i # e
    BY <1>6, <1>7, <2>1, <2>4
  <2>6. \A i \in blank : e < i
    BY <1>3, <2>2, <2>5
  <2>7. First(bad, 0) \in Nat
    BY <1>7, <2>3
  <2> QED
    BY <1>7, <2>2, <2>3, <2>5, <2>6, <2>7
<1>10. ASSUME now.ret = "ok"
       PROVE  /\ now.end + now.sep_len - 1 = First(blank, 0)
              /\ \A i \in bad : First(blank, 0) < i
              /\ \A i \in now.end..now.end + now.sep_len - 1 : s[i] \in {CR, LF}
              /\ now.end > 1 => s[now.end - 1] \notin {CR, LF}
  <2>1. PICK e \in 1..n :
          /\ a.end \in 1..e /\ a.end + a.sep_len - 1 = e
          /\ Blank(s, e) /\ \A i \in 1..(e - 1) : ~Blank(s, i) /\ ~TwoCRs(s, i)
          /\ \A i \in a.end..e : s[i] \in {CR, LF}
          /\ a.end > 1 => s[a.end - 1] \notin {CR, LF}
    BY <1>2, <1>5, <1>10 DEF HeaderOK
  <2>2. e \in Nat /\ e \in blank
    BY <1>3, <1>6, <2>1
  <2>3. First(blank, 0) \in blank /\ First(blank, 0) <= e
    BY <1>7, <2>2, FirstFacts
  <2>4. First(blank, 0) \in 1..n /\ Blank(s, First(blank, 0))
    BY <1>6, <1>7, <2>3
  <2>5. First(blank, 0) \notin 1..(e - 1)
    BY <2>1, <2>4
  <2>6. First(blank, 0) = e
    BY <1>3, <2>2, <2>3, <2>4, <2>5
  <2>7. ~TwoCRs(s, e)
    BY <2>1 DEF TwoCRs, Blank, CR, LF
  <2>8. \A i \in bad : i \in Nat /\ i \in 1..n /\ i \notin 1..(e - 1) /\ i # e
    BY <1>6a, <1>7, <2>1, <2>7
  <2>9. \A i \in bad : e < i
    BY <1>3, <2>2, <2>8
  <2> QED
    BY <1>5, <2>1, <2>6, <2>9
<1> QED
  BY <1>8, <1>9, <1>10, <1>11 DEF HeaderEndStable, now, blank, bad, s

-----------------------------------------------------------------------------
(* The query string. *)

\* Where the arguments of a query string begin, and what they are.
Starts(s) == {i \in DOMAIN s : i = 1 \/ s[i - 1] = "&"}
TokenAt(s, i) == SubSeq(s, i, First({k \in i..Len(s) : s[k] = "&"}, Len(s) + 1) - 1)
EquIn(t) == First({k \in DOMAIN t : t[k] = "="}, Len(t) + 1)
NameAt(s, i) == SubSeq(TokenAt(s, i), 1, EquIn(TokenAt(s, i)) - 1)
ValueAt(s, i) == SubSeq(TokenAt(s, i), EquIn(TokenAt(s, i)) + 1, Len(TokenAt(s, i)))

\* The arguments that begin before strsep goes on at p, all of them if p is NULL.
Passed(s, p) == {i \in Starts(s) : p = -1 \/ i <= p}
ArgumentsOf(s, T) ==
  [k \in {NameAt(s, i) : i \in T} \ {<<>>} |->
     ValueAt(s, First({j \in Starts(s) : NameAt(s, j) = k}, 0))]

\* What the loop of http2d_parse_query_string has made when strsep goes on at p.
QueryState(s, p) ==
  [mem |-> IF p = -1 THEN [Memory(s) EXCEPT ![Len(s)] = "&"] ELSE Memory(s),
   string |-> p, args |-> ArgumentsOf(s, Passed(s, p))]

\* Where strsep may go on.
Points(s) == {-1} \cup {p \in 0..Len(s) : p = 0 \/ s[p] = "&"}

\* One more argument.
LEMMA ArgumentAdded ==
  ASSUME NEW s, Len(s) \in Nat, DOMAIN s = 1..Len(s), NEW i \in Starts(s), NEW T,
         T = {j \in Starts(s) : j < i}
  PROVE  ArgumentsOf(s, T \cup {i}) = AddArgument(ArgumentsOf(s, T), NameAt(s, i), ValueAt(s, i))
<1> DEFINE name == NameAt(s, i)
           D(X) == {NameAt(s, j) : j \in X} \ {<<>>}
           val(k) == ValueAt(s, First({j \in Starts(s) : NameAt(s, j) = k}, 0))
           old == ArgumentsOf(s, T)
           new == ArgumentsOf(s, T \cup {i})
<1>1. old = [k \in D(T) |-> val(k)] /\ new = [k \in D(T \cup {i}) |-> val(k)]
  BY DEF ArgumentsOf
<1>2. D(T \cup {i}) = D(T) \cup ({name} \ {<<>>})
  OBVIOUS
<1>3. ASSUME name = <<>> \/ name \in D(T) PROVE new = old
  <2>1. D(T \cup {i}) = D(T)
    BY <1>2, <1>3
  <2> HIDE DEF D, val
  <2> QED
    BY <1>1, <2>1
<1>4. ASSUME name # <<>>, name \notin D(T)
      PROVE  val(name) = ValueAt(s, i)
  <2> DEFINE J == {j \in Starts(s) : NameAt(s, j) = name}
  <2>1. J \in SUBSET Nat /\ i \in J
    BY DEF Starts
  <2>2. First(J, 0) \in J /\ First(J, 0) <= i
    BY <2>1, FirstFacts
  <2>3. First(J, 0) \notin T
    BY <1>4, <2>2
  <2> HIDE DEF name
  <2>4. First(J, 0) = i
    BY <2>1, <2>2, <2>3
  <2> QED
    BY <2>4 DEF name
<1>5. ASSUME name # <<>>, name \notin D(T)
      PROVE  new = [k \in D(T) \cup {name} |-> IF k = name THEN ValueAt(s, i) ELSE old[k]]
  <2>1. D(T \cup {i}) = D(T) \cup {name}
    BY <1>2, <1>5
  <2>2. val(name) = ValueAt(s, i)
    BY <1>4, <1>5
  <2> HIDE DEF D, val, name, old, new
  <2>3. \A k \in D(T) : old[k] = val(k)
    BY <1>1
  <2> QED
    BY <1>1, <2>1, <2>2, <2>3
<1>6. DOMAIN old = D(T)
  BY <1>1
<1> HIDE DEF D, name, old, new
<1>7. CASE name = <<>> \/ name \in D(T)
  BY <1>3, <1>6, <1>7 DEF AddArgument, old, new, name
<1>8. CASE name # <<>> /\ name \notin D(T)
  <2>1. AddArgument(old, name, ValueAt(s, i))
          = [k \in D(T) \cup {name} |-> IF k = name THEN ValueAt(s, i) ELSE old[k]]
    BY <1>6, <1>8 DEF AddArgument
  <2> QED
    BY <1>5, <1>8, <2>1 DEF old, new, name
<1> QED
  BY <1>7, <1>8

\* A token that ends where the loop ends it is the one that begins there.
LEMMA TokenFacts ==
  ASSUME NEW S, NEW s \in Seq(S), NEW p \in 0..(Len(s) - 1), NEW e \in p..Len(s),
         \A i \in (p + 1)..e : s[i] # "&", e < Len(s) => s[e + 1] = "&"
  PROVE  TokenAt(s, p + 1) = SubSeq(s, p + 1, e)
<1> DEFINE K == {k \in (p + 1)..Len(s) : s[k] = "&"}
<1>1. Len(s) \in Nat
  OBVIOUS
<1>2. K \in SUBSET Nat
  BY <1>1
<1>3. First(K, Len(s) + 1) = e + 1
  <2>1. CASE e = Len(s)
    <3>1. K = {}
      BY <1>1, <2>1
    <3> HIDE DEF K
    <3> QED
      BY <1>2, <2>1, <3>1, FirstFacts
  <2>2. CASE e < Len(s)
    <3>1. e + 1 \in K
      BY <1>1, <2>2
    <3>2. First(K, Len(s) + 1) \in K /\ First(K, Len(s) + 1) <= e + 1
      BY <1>2, <3>1, FirstFacts
    <3>3. \A k \in K : k \in Nat /\ k > e
      BY <1>1
    <3> HIDE DEF K
    <3> QED
      BY <1>1, <3>2, <3>3
  <2> QED
    BY <1>1, <2>1, <2>2
<1>4. (e + 1) - 1 = e
  BY <1>1
<1> QED
  BY <1>3, <1>4 DEF TokenAt

\* A name and its value, as the loop takes them from a token.
LEMMA NameValueFacts ==
  ASSUME NEW S, NEW t \in Seq(S), NEW equ, equ = First({i \in DOMAIN t : t[i] = "="}, 0)
  PROVE  /\ equ = 0 => SubSeq(t, 1, EquIn(t) - 1) = t /\ SubSeq(t, EquIn(t) + 1, Len(t)) = <<>>
         /\ equ # 0 => EquIn(t) = equ
         /\ t = <<>> => SubSeq(t, 1, EquIn(t) - 1) = <<>>
<1> DEFINE E == {i \in DOMAIN t : t[i] = "="}
<1>1. Len(t) \in Nat /\ E \in SUBSET Nat /\ 0 \notin E
  OBVIOUS
<1>2. ASSUME E # {} PROVE equ # 0 /\ EquIn(t) = equ /\ t # <<>>
  <2>1. equ \in E
    BY <1>1, <1>2, FirstFacts
  <2>2. EquIn(t) = equ
    BY <1>2 DEF EquIn, First
  <2> QED
    BY <1>1, <2>1, <2>2
<1>3. ASSUME E = {}
      PROVE  equ = 0 /\ SubSeq(t, 1, EquIn(t) - 1) = t /\ SubSeq(t, EquIn(t) + 1, Len(t)) = <<>>
  <2>1. equ = 0 /\ EquIn(t) = Len(t) + 1
    BY <1>3 DEF EquIn, First
  <2>2. (Len(t) + 1) - 1 = Len(t) /\ Len(t) \in 0..Len(t)
    BY <1>1
  <2>3. SubSeq(t, 1, Len(t)) = t
    OBVIOUS
  <2>4. SubSeq(t, (Len(t) + 1) + 1, Len(t)) = <<>>
    <3>1. (Len(t) + 1) + 1 > Len(t)
      BY <1>1
    <3> QED
      BY <1>1, <3>1
  <2> QED
    BY <2>1, <2>2, <2>3, <2>4
<1> QED
  BY <1>2, <1>3

\* The arguments that strsep passes on its way from p to q.
LEMMA PassedFacts ==
  ASSUME NEW s, Len(s) \in Nat, DOMAIN s = 1..Len(s), NEW p \in Points(s) \ {-1},
         NEW e \in p..Len(s), \A i \in (p + 1)..e : s[i] # "&",
         NEW q, q = IF e < Len(s) THEN e + 1 ELSE -1
  PROVE  /\ p < Len(s) => /\ p + 1 \in Starts(s) /\ Passed(s, q) = Passed(s, p) \cup {p + 1}
                          /\ Passed(s, p) = {j \in Starts(s) : j < p + 1}
         /\ p = Len(s) => Passed(s, q) = Passed(s, p)
<1>1. p \in 0..Len(s) /\ (p = 0 \/ s[p] = "&")
  BY DEF Points
<1>2. Passed(s, p) = {j \in Starts(s) : j <= p}
  BY <1>1 DEF Passed
<1>3. \A j \in Starts(s) : j \in 1..Len(s) /\ (j = 1 \/ s[j - 1] = "&")
  BY DEF Starts
<1>4. \A j \in Starts(s) : j \in Passed(s, q) <=> q = -1 \/ j <= q
  BY DEF Passed
<1>5. Passed(s, q) \in SUBSET Starts(s)
  BY DEF Passed
<1>6. ASSUME p < Len(s) PROVE p + 1 \in Starts(s)
  <2>1. p + 1 \in 1..Len(s) /\ (p + 1) - 1 = p
    BY <1>1, <1>6
  <2> QED
    BY <1>1, <2>1 DEF Starts
<1>7. \A j \in Starts(s) : j \in Passed(s, q) => j <= p + 1
  <2> SUFFICES ASSUME NEW j \in Starts(s), j \in Passed(s, q), j > p + 1 PROVE FALSE
    BY <1>1, <1>3
  <2>1. j \in 1..Len(s) /\ j <= e + 1 /\ j # 1
    BY <1>1, <1>3, <1>4
  <2>2. j - 1 \in (p + 1)..e
    BY <1>1, <2>1
  <2> QED
    BY <1>3, <2>1, <2>2
<1>8. \A j \in Starts(s) : j <= p \/ j = p + 1 => j \in Passed(s, q)
  BY <1>1, <1>3, <1>4
<1>9. \A j \in Starts(s) : j \in Passed(s, q) <=> j <= p \/ j = p + 1
  BY <1>1, <1>3, <1>7, <1>8
<1>10. ASSUME p < Len(s) PROVE Passed(s, q) = Passed(s, p) \cup {p + 1}
  BY <1>2, <1>5, <1>6, <1>9, <1>10
<1>11. ASSUME p = Len(s) PROVE Passed(s, q) = Passed(s, p)
  <2>1. \A j \in Starts(s) : j # p + 1
    BY <1>3, <1>11
  <2> QED
    BY <1>2, <1>5, <1>9, <2>1
<1>12. Passed(s, p) = {j \in Starts(s) : j < p + 1}
  <2>1. \A j \in Starts(s) : j <= p <=> j < p + 1
    BY <1>1, <1>3
  <2> QED
    BY <1>2, <2>1
<1> QED
  BY <1>6, <1>10, <1>11, <1>12

\* One turn of the loop takes one argument and goes on behind it, or ends.
LEMMA QueryTurnFacts ==
  ASSUME NEW S, NEW s \in Seq(S), NUL \notin S, NEW p \in Points(s) \ {-1}
  PROVE  \E q \in Points(s) : /\ QueryTurn(QueryState(s, p)) = QueryState(s, q)
                              /\ q = -1 \/ q > p
<1> DEFINE n == Len(s)
           mem == Memory(s)
           st == QueryState(s, p)
           ends == {i \in DOMAIN mem : i >= p /\ mem[i] \in {"&", NUL}}
           e == First(ends, -1)
           text == Token(mem, p, e)
           equ == First({i \in DOMAIN text : text[i] = "="}, 0)
           args == ArgumentsOf(s, Passed(s, p))
           args2 == IF text = <<>> THEN args
                    ELSE IF equ = 0 THEN AddArgument(args, text, <<>>)
                    ELSE AddArgument(args, SubSeq(text, 1, equ - 1),
                                     SubSeq(text, equ + 1, Len(text)))
           q == IF e < n THEN e + 1 ELSE -1
<1>1. n \in Nat /\ DOMAIN s = 1..n /\ \A i \in 1..n : s[i] \in S /\ s[i] # NUL
  OBVIOUS
<1>2. p \in 0..n /\ p # -1
  BY <1>1 DEF Points
<1>3. DOMAIN mem = 0..n /\ mem[n] = NUL /\ \A i \in 0..(n - 1) : mem[i] = s[i + 1]
  BY <1>1 DEF Memory
<1>4. st = [mem |-> mem, string |-> p, args |-> args]
  BY <1>2 DEF QueryState
<1>5. QueryTurn(st) = [mem    |-> [mem EXCEPT ![e] = "&"],
                       string |-> IF mem[e] = "&" THEN e + 1 ELSE -1,
                       args   |-> args2]
  <2>1. st.mem = mem /\ st.string = p /\ st.args = args
    BY <1>4
  <2> HIDE DEF st, args, mem
  <2> QED
    BY <2>1 DEF QueryTurn
<1> HIDE DEF mem, n, args, st
<1>6. ends \in SUBSET Nat /\ n \in ends
  BY <1>1, <1>2, <1>3
<1>7. e \in ends /\ \A j \in ends : e <= j
  BY <1>6, FirstFacts
<1>8. e \in p..n /\ mem[e] \in {"&", NUL}
  BY <1>1, <1>2, <1>3, <1>6, <1>7
<1>9. \A i \in p..(e - 1) : mem[i] # "&" /\ i \in 0..(n - 1)
  <2> TAKE i \in p..(e - 1)
  <2>1. i \in 0..(n - 1) /\ i \in 0..n /\ i >= p /\ ~(e <= i)
    BY <1>1, <1>2, <1>8
  <2>2. i \notin ends
    BY <1>7, <2>1
  <2> QED
    BY <1>3, <2>1, <2>2
<1> HIDE DEF e
<1>10. \A i \in (p + 1)..e : s[i] # "&"
  <2> TAKE i \in (p + 1)..e
  <2>1. i - 1 \in p..(e - 1) /\ (i - 1) + 1 = i
    BY <1>2, <1>8
  <2> QED
    BY <1>3, <1>9, <2>1
<1>11. (e < n => mem[e] = "&" /\ s[e + 1] = "&") /\ (e = n => mem[e] = NUL)
  <2>1. ASSUME e < n PROVE mem[e] = "&" /\ s[e + 1] = "&"
    <3>1. e \in 0..(n - 1) /\ e + 1 \in 1..n
      BY <1>1, <1>2, <1>8, <2>1
    <3>2. mem[e] = s[e + 1] /\ s[e + 1] # NUL
      BY <1>1, <1>3, <3>1
    <3> QED
      BY <1>8, <3>2
  <2> QED
    BY <1>3, <2>1
<1>12. e < n \/ e = n
  BY <1>1, <1>2, <1>8
<1>13. (IF mem[e] = "&" THEN e + 1 ELSE -1) = q
  BY <1>1, <1>11, <1>12 DEF NUL
<1>14. q \in Points(s) /\ (q = -1 \/ q > p)
  <2>1. CASE e < n
    <3>1. e + 1 \in 0..n /\ e + 1 > p
      BY <1>1, <1>2, <1>8, <2>1
    <3> QED
      BY <1>11, <2>1, <3>1 DEF Points, n
  <2>2. CASE ~(e < n)
    BY <2>2 DEF Points
  <2> QED
    BY <2>1, <2>2
<1>15. [mem EXCEPT ![e] = "&"] = IF q = -1 THEN [mem EXCEPT ![n] = "&"] ELSE mem
  <2>1. CASE e = n
    BY <1>1, <2>1
  <2>2. CASE e < n
    <3>1. q # -1 /\ mem[e] = "&"
      BY <1>1, <1>2, <1>8, <1>11, <2>2
    <3>2. mem = [i \in 0..n |-> mem[i]]
      BY <1>3 DEF mem, Memory, n
    <3>3. [mem EXCEPT ![e] = "&"] = mem
      BY <3>1, <3>2
    <3> QED
      BY <3>1, <3>3
  <2> QED
    BY <1>12, <2>1, <2>2
<1>16. text = SubSeq(s, p + 1, e) /\ text \in Seq(S) /\ Len(text) = e - p
  <2>1. p + 1 \in 1..(n + 1) /\ e \in ((p + 1) - 1)..n
    BY <1>1, <1>2, <1>8
  <2>2. /\ SubSeq(s, p + 1, e) \in Seq(S) /\ Len(SubSeq(s, p + 1, e)) = e - (p + 1) + 1
        /\ \A i \in 1..(e - (p + 1) + 1) : SubSeq(s, p + 1, e)[i] = s[(p + 1) + i - 1]
    BY <2>1, SliceFacts DEF n
  <2>3. /\ e - (p + 1) + 1 = e - p
        /\ \A i \in Int : (p + 1) + i - 1 = p + i
    BY <1>2, <1>8
  <2> DEFINE u == SubSeq(s, p + 1, e)
  <2> HIDE DEF u
  <2>4. u \in Seq(S) /\ Len(u) = e - p /\ \A i \in 1..(e - p) : u[i] = s[p + i]
    <3>1. \A i \in 1..(e - p) : i \in Int
      OBVIOUS
    <3> QED
      BY <2>2, <2>3, <3>1, Zenon DEF u
  <2>5. \A i \in 1..(e - p) : mem[p + i - 1] = u[i]
    <3> TAKE i \in 1..(e - p)
    <3>1. p + i - 1 \in 0..(n - 1) /\ (p + i - 1) + 1 = p + i
      BY <1>1, <1>2, <1>8
    <3>2. mem[p + i - 1] = s[(p + i - 1) + 1]
      BY <1>3, <3>1
    <3> QED
      BY <2>4, <3>1, <3>2
  <2>6. u = [i \in 1..(e - p) |-> u[i]]
    BY <2>4
  <2>7. text = [i \in 1..(e - p) |-> mem[p + i - 1]]
    BY DEF Token
  <2>8. text = u
    BY <2>5, <2>6, <2>7
  <2> QED
    BY <2>4, <2>8 DEF u
<1> HIDE DEF text, q
<1>17. /\ p < n => /\ p + 1 \in Starts(s) /\ Passed(s, q) = Passed(s, p) \cup {p + 1}
                   /\ Passed(s, p) = {j \in Starts(s) : j < p + 1}
       /\ p = n => Passed(s, q) = Passed(s, p)
  <2>1. Len(s) \in Nat /\ DOMAIN s = 1..Len(s) /\ e \in p..Len(s)
    BY <1>1, <1>8 DEF n
  <2>2. q = IF e < Len(s) THEN e + 1 ELSE -1
    BY DEF q, n
  <2>3. p < Len(s) => /\ p + 1 \in Starts(s) /\ Passed(s, q) = Passed(s, p) \cup {p + 1}
                      /\ Passed(s, p) = {j \in Starts(s) : j < p + 1}
    BY <1>10, <2>1, <2>2, PassedFacts
  <2>4. p = Len(s) => Passed(s, q) = Passed(s, p)
    BY <1>10, <2>1, <2>2, PassedFacts
  <2> QED
    BY <2>3, <2>4 DEF n
<1>18. args2 = ArgumentsOf(s, Passed(s, q))
  <2>1. CASE p = n
    <3>1. text = <<>>
      <4>1. Len(text) = 0
        BY <1>1, <1>8, <1>16, <2>1
      <4> QED
        BY <1>16, <4>1, EmptySeq
    <3> QED
      BY <1>17, <2>1, <3>1 DEF args
  <2>2. CASE p < n
    <3>1. TokenAt(s, p + 1) = text
      <4>1. p \in 0..(n - 1) /\ e \in p..n
        BY <1>1, <1>2, <1>8, <2>2
      <4>2. TokenAt(s, p + 1) = SubSeq(s, p + 1, e)
        BY <1>10, <1>11, <4>1, TokenFacts DEF n
      <4> QED
        BY <1>16, <4>2
    <3>2. /\ NameAt(s, p + 1) = SubSeq(text, 1, EquIn(text) - 1)
          /\ ValueAt(s, p + 1) = SubSeq(text, EquIn(text) + 1, Len(text))
      BY <3>1 DEF NameAt, ValueAt
    <3>3. ArgumentsOf(s, Passed(s, q)) = AddArgument(args, NameAt(s, p + 1), ValueAt(s, p + 1))
      <4>1. Len(s) \in Nat /\ DOMAIN s = 1..Len(s) /\ p + 1 \in Starts(s)
        BY <1>1, <1>17, <2>2 DEF n
      <4>2. ArgumentsOf(s, Passed(s, p) \cup {p + 1})
              = AddArgument(ArgumentsOf(s, Passed(s, p)), NameAt(s, p + 1), ValueAt(s, p + 1))
        BY <1>17, <2>2, <4>1, ArgumentAdded
      <4> QED
        BY <1>17, <2>2, <4>2 DEF args
    <3>4. /\ equ = 0 => SubSeq(text, 1, EquIn(text) - 1) = text /\ SubSeq(text, EquIn(text) + 1, Len(text)) = <<>>
          /\ equ # 0 => EquIn(text) = equ
          /\ text = <<>> => SubSeq(text, 1, EquIn(text) - 1) = <<>>
      BY <1>16, NameValueFacts
    <3> HIDE DEF equ
    <3>5. CASE text = <<>>
      <4>1. NameAt(s, p + 1) = <<>>
        BY <3>2, <3>4, <3>5
      <4>2. AddArgument(args, NameAt(s, p + 1), ValueAt(s, p + 1)) = args
        BY <4>1 DEF AddArgument
      <4> QED
        BY <3>3, <3>5, <4>2
    <3>6. CASE text # <<>> /\ equ = 0
      <4>1. NameAt(s, p + 1) = text /\ ValueAt(s, p + 1) = <<>>
        BY <3>2, <3>4, <3>6
      <4> QED
        BY <3>3, <3>6, <4>1
    <3>7. CASE text # <<>> /\ equ # 0
      <4>1. /\ NameAt(s, p + 1) = SubSeq(text, 1, equ - 1)
            /\ ValueAt(s, p + 1) = SubSeq(text, equ + 1, Len(text))
        BY <3>2, <3>4, <3>7
      <4> QED
        BY <3>3, <3>7, <4>1
    <3> QED
      BY <3>5, <3>6, <3>7
  <2> QED
    BY <1>1, <1>2, <2>1, <2>2
<1> HIDE DEF args2
<1>19. QueryTurn(st) = [mem |-> IF q = -1 THEN [mem EXCEPT ![n] = "&"] ELSE mem,
                        string |-> q, args |-> ArgumentsOf(s, Passed(s, q))]
  BY <1>5, <1>13, <1>15, <1>18
<1>20. QueryTurn(st) = QueryState(s, q)
  BY <1>19 DEF QueryState, mem, n
<1> QED
  BY <1>14, <1>20 DEF st

\* The turn of the loop, which does nothing once strsep has come to the end.
QueryStep(st) == IF st.string = -1 THEN st ELSE QueryTurn(st)

\* The states of the loop.
QueryStates(s) == {QueryState(s, p) : p \in Points(s)}

\* A turn leads from one of the states to one of them, and on.
LEMMA QueryStepFacts ==
  ASSUME NEW S, NEW s \in Seq(S), NUL \notin S, NEW st \in QueryStates(s)
  PROVE  /\ QueryStep(st) \in QueryStates(s)
         /\ st.string \in Points(s) /\ st = QueryState(s, st.string)
         /\ QueryStep(st).string = -1 \/ QueryStep(st).string > st.string
<1>1. PICK p \in Points(s) : st = QueryState(s, p)
  BY DEF QueryStates
<1>2. \A r : QueryState(s, r).string = r
  BY DEF QueryState
<1>3. st.string = p
  BY <1>1, <1>2
<1>4. CASE p = -1
  BY <1>1, <1>3, <1>4 DEF QueryStep
<1>5. CASE p # -1
  <2>1. PICK q \in Points(s) : QueryTurn(QueryState(s, p)) = QueryState(s, q) /\ (q = -1 \/ q > p)
    BY <1>5, QueryTurnFacts
  <2>2. QueryStep(st) = QueryState(s, q)
    BY <1>1, <1>3, <1>5, <2>1 DEF QueryStep
  <2> QED
    BY <1>1, <1>2, <1>3, <2>1, <2>2 DEF QueryStates
<1> QED
  BY <1>4, <1>5

\* At the end of the loop all arguments have been taken.
LEMMA QueryLoop ==
  ASSUME NEW S, NEW s \in Seq(S), NUL \notin S, s # <<>>
  PROVE  ParseQueryString(s) = [QueryState(s, -1) EXCEPT !.mem[Len(s)] = NUL]
<1> DEFINE n == Len(s) + 1
           start == [mem |-> Memory(s), string |-> 0, args |-> NoArguments]
           X == QueryStates(s)
           step == [i \in 1..n |-> [st \in X |-> QueryStep(st)]]
           F(t) == [i \in 0..n |-> IF i = 0 THEN start
                                   ELSE IF t[i - 1].string = -1 THEN t[i - 1]
                                   ELSE QueryTurn(t[i - 1])]
<1>1. n \in Nat /\ Len(s) \in Nat
  OBVIOUS
<1>2. start \in X
  <2>1. Passed(s, 0) = {}
    BY DEF Passed, Starts
  <2>2. ArgumentsOf(s, {}) = NoArguments
    BY DEF ArgumentsOf, NoArguments
  <2>3. QueryState(s, 0).args = NoArguments /\ QueryState(s, 0).mem = Memory(s)
    <3>1. ArgumentsOf(s, Passed(s, 0)) = NoArguments
      BY <2>1, <2>2, Zenon
    <3> QED
      BY <3>1 DEF QueryState
  <2>4. QueryState(s, 0) = [mem |-> QueryState(s, 0).mem, string |-> 0,
                            args |-> QueryState(s, 0).args]
    BY DEF QueryState
  <2>5. start = QueryState(s, 0)
    BY <2>3, <2>4
  <2>6. 0 \in Points(s)
    BY <1>1 DEF Points
  <2> QED
    BY <2>5, <2>6 DEF QueryStates
<1>3. ParseQueryString(s) = [(CHOOSE u : u = F(u))[n] EXCEPT !.mem[Len(s)] = NUL]
  BY DEF ParseQueryString
<1> HIDE DEF n, start, X
<1>4. \A st \in X : QueryStep(st) \in X
  BY QueryStepFacts DEF X
<1>5. step \in [1..n -> [X -> X]] /\ \A st \in X, i \in 1..n : step[i][st] = QueryStep(st)
  BY <1>4
<1> HIDE DEF step
<1>6. PICK t : GoesBy(t, n, X, start, step)
  BY <1>1, <1>2, <1>5, Recursion
<1>7. t \in [0..n -> X] /\ t[0] = start /\ \A i \in 1..n : t[i] = step[i][t[i - 1]]
  BY <1>6 DEF GoesBy
<1>8. \A i \in 1..n : t[i] = QueryStep(t[i - 1])
  <2> TAKE i \in 1..n
  <2>1. i - 1 \in 0..n
    BY <1>1
  <2> QED
    BY <1>5, <1>7, <2>1
<1>9. t = F(t)
  <2>1. \A i \in 0..n : t[i] = F(t)[i]
    BY <1>1, <1>7, <1>8 DEF QueryStep
  <2> QED
    BY <1>7, <2>1
<1> DEFINE A == CHOOSE u : u = F(u)
<1>10. A = F(A)
  <2> HIDE DEF F
  <2> QED
    BY <1>9
<1>11. ParseQueryString(s) = [A[n] EXCEPT !.mem[Len(s)] = NUL]
  BY <1>3
<1> HIDE DEF A
<1>12. A[0] = start /\ \A i \in 1..n : A[i] = QueryStep(A[i - 1])
  BY <1>1, <1>10 DEF QueryStep
<1> DEFINE Q == {i \in 0..n : A[i] \in X /\ (A[i].string = -1 \/ A[i].string >= i)}
<1>13. 0 \in Q
  BY <1>1, <1>2, <1>12 DEF start
<1>14. ASSUME NEW i \in 1..n, i - 1 \in Q PROVE i \in Q
  <2>1. A[i - 1] \in X /\ (A[i - 1].string = -1 \/ A[i - 1].string >= i - 1) /\ A[i] = QueryStep(A[i - 1])
    BY <1>12, <1>14
  <2>2. A[i] \in X /\ (A[i].string = -1 \/ A[i].string > A[i - 1].string)
    BY <2>1, QueryStepFacts DEF X
  <2>3. A[i - 1].string \in Points(s) /\ A[i].string \in Points(s)
    BY <2>1, <2>2, QueryStepFacts DEF X
  <2>4. Points(s) \in SUBSET Int
    BY <1>1 DEF Points
  <2>5. CASE A[i - 1].string = -1
    BY <1>1, <2>1, <2>2, <2>5 DEF QueryStep
  <2>6. CASE A[i - 1].string # -1
    BY <1>1, <2>1, <2>2, <2>3, <2>4, <2>6
  <2> QED
    BY <2>5, <2>6
<1> HIDE DEF Q
<1>15. \A i \in 0..n : i \in Q
  BY <1>1, <1>13, <1>14, InductionTo
<1>16. A[n] \in X /\ (A[n].string = -1 \/ A[n].string >= n)
  BY <1>1, <1>15 DEF Q
<1>17. A[n].string \in Points(s) /\ A[n] = QueryState(s, A[n].string)
  BY <1>16, QueryStepFacts DEF X
<1>18. A[n].string = -1
  BY <1>1, <1>16, <1>17 DEF Points, n
<1> QED
  BY <1>11, <1>17, <1>18

\* QueryRestored, of any text.
LEMMA QueryFacts ==
  ASSUME TextTypeOK
  PROVE  QueryRestored
<1> DEFINE s == received
           S == Characters
           q == ParseQueryString(s)
           args == ArgumentsOf(s, Starts(s))
<1>1. s \in Seq(S) /\ Len(s) \in Nat /\ DOMAIN s = 1..Len(s)
  BY DEF TextTypeOK
<1>2. NUL \notin S
  BY AlphabetsAssumption DEF Characters
<1>3. q.mem = Memory(s) /\ q.args = args
  <2>1. CASE s = <<>>
    <3>1. q = [mem |-> Memory(s), string |-> 0, args |-> NoArguments]
      BY <2>1 DEF ParseQueryString
    <3>2. Starts(s) = {}
      BY <2>1 DEF Starts
    <3>3. args = NoArguments
      BY <3>2 DEF ArgumentsOf, NoArguments
    <3> HIDE DEF args
    <3> QED
      BY <3>1, <3>3
  <2>2. CASE s # <<>>
    <3> DEFINE m == [Memory(s) EXCEPT ![Len(s)] = "&"]
               d == QueryState(s, -1)
    <3>1. Passed(s, -1) = Starts(s)
      BY DEF Passed
    <3>2. d = [mem |-> m, string |-> -1, args |-> args]
      BY <3>1 DEF QueryState
    <3>3. q = [d EXCEPT !.mem[Len(s)] = NUL]
      BY <1>1, <1>2, <2>2, QueryLoop
    <3> HIDE DEF q, d, m, args
    <3>4. q.mem = [m EXCEPT ![Len(s)] = NUL] /\ q.args = args
      BY <3>2, <3>3
    <3>5. [m EXCEPT ![Len(s)] = NUL] = Memory(s)
      BY <1>1 DEF m, Memory
    <3> QED
      BY <3>4, <3>5 DEF q
  <2> QED
    BY <2>1, <2>2
<1>4. DOMAIN args = {NameAt(s, i) : i \in Starts(s)} \ {<<>>}
  BY DEF ArgumentsOf
<1>5. \A k \in DOMAIN args : args[k] = ValueAt(s, First({j \in Starts(s) : NameAt(s, j) = k}, 0))
  BY DEF ArgumentsOf
<1> HIDE DEF q, args
<1> QED
  BY <1>3, <1>4, <1>5 DEF QueryRestored, q, Starts, NameAt, ValueAt, TokenAt, EquIn

-----------------------------------------------------------------------------
(* The theorem. *)

\* TextScanned: whatever arrives, and in whatever portions, headers, queries, hosts
\* and paths are cut where they should be.
THEOREM TextAlwaysScanned == TextSpec => []TextScanned
<1>1. TextInit => TextTypeOK
  BY DEF TextInit, TextTypeOK
<1>2. TextTypeOK /\ [TextNext]_textVars => TextTypeOK'
  BY DEF TextNext, Receive, textVars, TextTypeOK, Characters
<1>3. TextTypeOK => TextScanned
  BY HeaderFacts, QueryFacts, HostFacts, PathinfoFacts DEF TextScanned
<1> QED
  BY <1>1, <1>2, <1>3, PTL DEF TextSpec

-----------------------------------------------------------------------------
(* The resolver cache.  The races lose memory, but a thread can lose only    *)
(* what it holds: the entries of a name that no table leads to belong to    *)
(* threads that are about to add them, until one of them did, and from then *)
(* on no lookup misses.                                                     *)


ResolverEntries == [name : Names, resolv : Nat, freed : BOOLEAN]
ResolverCalls   == [pc : {"idle", "create", "take", "lookup", "fill_up", "add"}, resolv : Nat,
            domain : Names \cup {CHOOSE n \in Names : TRUE}, entry : Nat]

TypesOK ==
  /\ tables \in Seq([Names -> Nat])
  /\ entries \in Seq(ResolverEntries)
  /\ caller \in [Threads -> ResolverCalls]
  /\ answer \in [Threads -> Nat]
  /\ __global_resolv = Len(tables)

\* An entry of the name n that was not freed.
Good(es, e, n) == e \in 1..Len(es) /\ es[e].name = n /\ es[e].freed = FALSE

TablesOK ==
  \A r \in 1..Len(tables), n \in Names : tables[r][n] # 0 => Good(entries, tables[r][n], n)

EntriesOK == \A e \in 1..Len(entries) : entries[e].resolv \in 1..Len(tables)

\* What a call has in its hands at each of its steps.
CallerOK(t) ==
  /\ caller[t].pc # "idle" => caller[t].domain \in Names
  /\ caller[t].pc = "take" => Len(tables) >= 1
  /\ caller[t].pc \in {"lookup", "fill_up", "add"} => caller[t].resolv \in 1..Len(tables)
  /\ caller[t].pc = "add" => Good(entries, caller[t].entry, caller[t].domain)
  /\ caller[t].pc = "idle" /\ answer[t] # 0 => Good(entries, answer[t], caller[t].domain)

CallersOK == \A t \in Threads : CallerOK(t)

\* The threads that are about to create a resolver, to resolve n, to add it.
Creating == {t \in Threads : caller[t].pc = "create"}
At(cs, pc, r, n) == {t \in Threads : /\ cs[t].pc = pc
                                        /\ cs[t].resolv = r /\ cs[t].domain = n}

\* The entries of n in r, in its table or lost.
EntriesOf(es, r, n) ==
  {e \in 1..Len(es) : es[e].name = n /\ es[e].resolv = r /\ ~es[e].freed}

\* A resolver for each thread that has created one or is about to.
ResolversBounded == Len(tables) + Cardinality(Creating) <= Cardinality(Threads)

\* An entry for each thread that has resolved the name or is about to; as long
\* as none is in the table they are all still in the hands of their threads.
EntriesBounded ==
  \A r \in 1..Len(tables), n \in Names :
    /\ Cardinality(EntriesOf(entries, r, n)) + Cardinality(At(caller, "fill_up", r, n))
         <= Cardinality(Threads)
    /\ tables[r][n] = 0 =>
         Cardinality(EntriesOf(entries, r, n)) <= Cardinality(At(caller, "add", r, n))

ResInv ==
  TypesOK /\ TablesOK /\ EntriesOK /\ CallersOK /\ ResolversBounded /\ EntriesBounded

-----------------------------------------------------------------------------
(* Counting. *)

\* A thread that enters or leaves a set of threads.
LEMMA ThreadSets ==
  ASSUME IsFiniteSet(Threads), NEW S \in SUBSET Threads, NEW t
  PROVE  /\ IsFiniteSet(S) /\ Cardinality(S) \in Nat
         /\ Cardinality(S) <= Cardinality(Threads)
         /\ t \in S => Cardinality(S \ {t}) = Cardinality(S) - 1
         /\ t \notin S => Cardinality(S \cup {t}) = Cardinality(S) + 1
<1>1. IsFiniteSet(S) /\ Cardinality(S) <= Cardinality(Threads)
  BY FS_Subset
<1>2. Cardinality(S) \in Nat
  BY <1>1, FS_CardinalityType
<1>3. t \in S => Cardinality(S \ {t}) = Cardinality(S) - 1
  BY <1>1, FS_RemoveElement
<1>4. t \notin S => Cardinality(S \cup {t}) = Cardinality(S) + 1
  BY <1>1, FS_AddElement
<1> QED
  BY <1>1, <1>2, <1>3, <1>4

\* Two sets of threads that share none.
LEMMA ApartThreads ==
  ASSUME IsFiniteSet(Threads), NEW S \in SUBSET Threads, NEW T \in SUBSET Threads,
         S \cap T = {}
  PROVE  Cardinality(S) + Cardinality(T) <= Cardinality(Threads)
<1>1. IsFiniteSet(S) /\ IsFiniteSet(T) /\ Cardinality(S) \in Nat /\ Cardinality(T) \in Nat
  BY ThreadSets
<1>2. Cardinality(S \cup T) = Cardinality(S) + Cardinality(T) - Cardinality(S \cap T)
  BY <1>1, FS_Union
<1>3. Cardinality(S \cap T) = 0
  BY FS_EmptySet
<1>4. S \cup T \in SUBSET Threads
  OBVIOUS
<1>5. Cardinality(S \cup T) <= Cardinality(Threads) /\ Cardinality(S \cup T) \in Nat
  BY <1>4, ThreadSets
<1> QED
  BY <1>1, <1>2, <1>3, <1>5

\* The entries of a name are finitely many.
LEMMA EntrySets ==
  ASSUME TypesOK, NEW r, NEW n
  PROVE  IsFiniteSet(EntriesOf(entries, r, n)) /\ Cardinality(EntriesOf(entries, r, n)) \in Nat
<1>1. Len(entries) \in Nat
  BY DEF TypesOK
<1>2. IsFiniteSet(1..Len(entries))
  BY <1>1, FS_Interval
<1>3. EntriesOf(entries, r, n) \subseteq 1..Len(entries)
  BY DEF EntriesOf
<1>4. IsFiniteSet(EntriesOf(entries, r, n))
  BY <1>2, <1>3, FS_Subset
<1> QED
  BY <1>4, FS_CardinalityType

-----------------------------------------------------------------------------
(* What a step leaves alone. *)

\* entry_new puts a new entry behind the others: these stay as they are.
LEMMA NewEntries ==
  ASSUME TypesOK, NEW e \in ResolverEntries, entries' = Append(entries, e)
  PROVE  /\ entries' \in Seq(ResolverEntries) /\ Len(entries) \in Nat
         /\ Len(entries') = Len(entries) + 1
         /\ entries'[Len(entries) + 1] = e
         /\ \A i \in 1..Len(entries) : entries'[i] = entries[i]
         /\ \A i, n : Good(entries, i, n) => Good(entries', i, n)
         /\ \A r, n : EntriesOf(entries', r, n) =
              IF e.name = n /\ e.resolv = r /\ ~e.freed
              THEN EntriesOf(entries, r, n) \cup {Len(entries) + 1} ELSE EntriesOf(entries, r, n)
<1>1. /\ entries' \in Seq(ResolverEntries) /\ Len(entries) \in Nat
      /\ Len(entries') = Len(entries) + 1
      /\ entries'[Len(entries) + 1] = e
      /\ \A i \in 1..Len(entries) : entries'[i] = entries[i]
  BY DEF TypesOK
<1>2. 1..Len(entries') = 1..Len(entries) \cup {Len(entries) + 1}
  BY <1>1
<1>3. \A i, n : Good(entries, i, n) => Good(entries', i, n)
  BY <1>1, <1>2 DEF Good
<1>4. ASSUME NEW r, NEW n
      PROVE  EntriesOf(entries', r, n) =
               IF e.name = n /\ e.resolv = r /\ ~e.freed
               THEN EntriesOf(entries, r, n) \cup {Len(entries) + 1} ELSE EntriesOf(entries, r, n)
  <2>1. \A i : i \in EntriesOf(entries', r, n) <=>
                 /\ i \in 1..Len(entries) \/ i = Len(entries) + 1
                 /\ entries'[i].name = n /\ entries'[i].resolv = r /\ ~entries'[i].freed
    BY <1>2 DEF EntriesOf
  <2>2. \A i : i \in EntriesOf(entries, r, n) <=>
                 /\ i \in 1..Len(entries)
                 /\ entries[i].name = n /\ entries[i].resolv = r /\ ~entries[i].freed
    BY DEF EntriesOf
  <2>3. \A i : i \in EntriesOf(entries', r, n) <=>
                 \/ i \in EntriesOf(entries, r, n)
                 \/ i = Len(entries) + 1 /\ e.name = n /\ e.resolv = r /\ ~e.freed
    <3> TAKE i
    <3>1. CASE i \in 1..Len(entries)
      <4>1. entries'[i] = entries[i] /\ i # Len(entries) + 1
        BY <1>1, <3>1
      <4> QED
        BY <2>1, <2>2, <3>1, <4>1, Zenon
    <3>2. CASE i = Len(entries) + 1
      <4>1. entries'[i] = e /\ i \notin 1..Len(entries)
        BY <1>1, <3>2
      <4> QED
        BY <2>1, <2>2, <3>2, <4>1, Zenon
    <3>3. CASE i \notin 1..Len(entries) /\ i # Len(entries) + 1
      BY <2>1, <2>2, <3>3, Zenon
    <3> QED
      BY <3>1, <3>2, <3>3, Zenon
  <2>4. CASE e.name = n /\ e.resolv = r /\ ~e.freed
    <3>1. EntriesOf(entries', r, n) = EntriesOf(entries, r, n) \cup {Len(entries) + 1}
      BY <2>3, <2>4, Zenon
    <3> QED
      BY <2>4, <3>1
  <2>5. CASE ~(e.name = n /\ e.resolv = r /\ ~e.freed)
    <3>1. EntriesOf(entries', r, n) = EntriesOf(entries, r, n)
      BY <2>3, <2>5, Zenon
    <3> QED
      BY <2>5, <3>1
  <2> QED
    BY <2>4, <2>5
<1> QED
  BY <1>1, <1>3, <1>4

\* A step of a thread to the call c: the others stay where they are.
LEMMA OneCaller ==
  ASSUME TypesOK, NEW t \in Threads, NEW c \in ResolverCalls, caller' = [caller EXCEPT ![t] = c]
  PROVE  /\ caller' \in [Threads -> ResolverCalls] /\ caller'[t] = c
         /\ \A u \in Threads : u # t => caller'[u] = caller[u]
         /\ Creating \in SUBSET Threads
         /\ c.pc # "create" => Creating' = Creating \ {t}
         /\ t \in Creating <=> caller[t].pc = "create"
<1>1. /\ caller' \in [Threads -> ResolverCalls] /\ caller'[t] = c
      /\ \A u \in Threads : u # t => caller'[u] = caller[u]
  BY DEF TypesOK
<1>2. c.pc # "create" => Creating' = Creating \ {t}
  BY <1>1, Zenon DEF Creating
<1>3. Creating \in SUBSET Threads /\ (t \in Creating <=> caller[t].pc = "create")
  BY DEF Creating
<1> QED
  BY <1>1, <1>2, <1>3

\* A step that neither begins nor ends a resolution and leaves the entries and
\* the tables alone.
LEMMA CountsStay ==
  ASSUME ResInv, NEW t \in Threads, NEW c \in ResolverCalls, caller' = [caller EXCEPT ![t] = c],
         UNCHANGED <<tables, entries>>,
         caller[t].pc \notin {"fill_up", "add"}, c.pc \notin {"fill_up", "add"}
  PROVE  EntriesBounded'
<1>1. TypesOK /\ EntriesBounded
  BY DEF ResInv
<1>2. \A r, n : At(caller', "fill_up", r, n) = At(caller, "fill_up", r, n) /\ At(caller', "add", r, n) = At(caller, "add", r, n)
  <2> TAKE r, n
  <2>1. c.pc # "fill_up" /\ c.pc # "add"
    OBVIOUS
  <2>2. t \notin At(caller, "fill_up", r, n) /\ t \notin At(caller, "add", r, n)
    BY DEF At
  <2>3. caller'[t] = c /\ \A u \in Threads : u # t => caller'[u] = caller[u]
    BY <1>1, OneCaller
  <2>4. /\ At(caller', "fill_up", r, n) = At(caller, "fill_up", r, n) \ {t}
        /\ At(caller', "add", r, n) = At(caller, "add", r, n) \ {t}
    BY <2>1, <2>3, Zenon DEF At
  <2> QED
    BY <2>2, <2>4
<1>3. \A r, n : EntriesOf(entries', r, n) = EntriesOf(entries, r, n)
  BY DEF EntriesOf
<1>4. tables' = tables
  OBVIOUS
<1> QED
  BY <1>1, <1>2, <1>3, <1>4, Zenon DEF EntriesBounded

\* What is said of the tables and of the calls holds for longer entries.
LEMMA OthersStay ==
  ASSUME ResInv, NEW t \in Threads, NEW c \in ResolverCalls, caller' = [caller EXCEPT ![t] = c],
         Len(tables') \in Nat, Len(tables') >= Len(tables),
         \A i, n : Good(entries, i, n) => Good(entries', i, n),
         \A u \in Threads : u # t => answer'[u] = answer[u],
         CallerOK(t)'
  PROVE  CallersOK'
<1>1. TypesOK /\ \A u \in Threads : CallerOK(u)
  BY DEF ResInv, CallersOK
<1>2. \A u \in Threads : u # t => caller'[u] = caller[u]
  BY <1>1, OneCaller
<1>3. ASSUME NEW u \in Threads, u # t
      PROVE  CallerOK(u)'
  <2>1. caller'[u] = caller[u] /\ answer'[u] = answer[u] /\ CallerOK(u)
    BY <1>1, <1>2, <1>3
  <2>2. Len(tables) \in Nat /\ \A r : r \in 1..Len(tables) => r \in 1..Len(tables')
    BY <1>1 DEF TypesOK
  <2>3. Len(tables) >= 1 => Len(tables') >= 1
    BY <2>2
  <2> QED
    BY <2>1, <2>2, <2>3, Zenon DEF CallerOK
<1> QED
  BY <1>3 DEF CallersOK

-----------------------------------------------------------------------------
(* The steps of a call. *)

\* The test for NULL; the thread creates a resolver only while there is none.
LEMMA GetDefaultKeeps ==
  ASSUME IsFiniteSet(Threads), ResInv, NEW t \in Threads, NEW n \in Names, GetDefault(t, n)
  PROVE  ResInv'
<1> DEFINE c == [Idle(n) EXCEPT !.pc = IF __global_resolv = 0 THEN "create" ELSE "take"]
<1>1. TypesOK /\ TablesOK /\ EntriesOK /\ CallersOK /\ ResolversBounded
  BY DEF ResInv
<1>2. /\ caller[t].pc = "idle" /\ caller' = [caller EXCEPT ![t] = c]
      /\ UNCHANGED <<__global_resolv, tables, entries, answer>>
  BY DEF GetDefault
<1>3. c \in ResolverCalls /\ c.pc \in {"create", "take"} /\ c.domain = n
      /\ (c.pc = "create" <=> Len(tables) = 0)
  BY <1>1 DEF ResolverCalls, TypesOK, Idle
<1> HIDE DEF c
<1>4. /\ caller' \in [Threads -> ResolverCalls] /\ caller'[t] = c
      /\ Creating \in SUBSET Threads
      /\ c.pc # "create" => Creating' = Creating \ {t}
      /\ t \in Creating <=> caller[t].pc = "create"
  BY <1>1, <1>2, <1>3, OneCaller
<1>5. TypesOK' /\ TablesOK' /\ EntriesOK'
  BY <1>1, <1>2, <1>4 DEF TypesOK, TablesOK, EntriesOK
<1>6. CallersOK'
  <2>1. Len(tables) \in Nat
    BY <1>1 DEF TypesOK
  <2>2. CallerOK(t)'
    BY <1>2, <1>3, <1>4, <2>1 DEF CallerOK
  <2>3. /\ \A i, m : Good(entries, i, m) => Good(entries', i, m)
        /\ Len(tables') \in Nat /\ Len(tables') >= Len(tables)
        /\ \A u \in Threads : u # t => answer'[u] = answer[u]
    BY <1>2, <2>1
  <2>4. caller' = [caller EXCEPT ![t] = c] /\ c \in ResolverCalls
    BY <1>2, <1>3
  <2> QED
    BY <2>2, <2>3, <2>4, OthersStay
<1>7. ResolversBounded'
  <2>1. CASE c.pc = "create"
    <3>1. Len(tables') = 0
      BY <1>2, <1>3, <2>1
    <3>2. Creating' \in SUBSET Threads
      BY DEF Creating
    <3>3. Cardinality(Creating') <= Cardinality(Threads) /\ Cardinality(Creating') \in Nat
      BY <3>2, ThreadSets
    <3> QED
      BY <3>1, <3>3 DEF ResolversBounded
  <2>2. CASE c.pc # "create"
    <3>1. Creating' = Creating
      BY <1>2, <1>4, <2>2
    <3> QED
      BY <1>1, <1>2, <3>1 DEF ResolversBounded
  <2> QED
    BY <2>1, <2>2
<1>8. EntriesBounded'
  BY <1>2, <1>3, CountsStay
<1> QED
  BY <1>5, <1>6, <1>7, <1>8 DEF ResInv

\* The default is read again: there is one.
LEMMA TakeDefaultKeeps ==
  ASSUME IsFiniteSet(Threads), ResInv, NEW t \in Threads, TakeDefault(t)
  PROVE  ResInv'
<1> DEFINE c == [caller[t] EXCEPT !.resolv = __global_resolv, !.pc = "lookup"]
<1>1. TypesOK /\ TablesOK /\ EntriesOK /\ CallersOK /\ ResolversBounded
  BY DEF ResInv
<1>2. /\ caller[t].pc = "take" /\ caller' = [caller EXCEPT ![t] = c]
      /\ UNCHANGED <<__global_resolv, tables, entries, answer>>
  BY DEF TakeDefault
<1>3. /\ c \in ResolverCalls /\ c.pc = "lookup" /\ c.resolv = Len(tables)
      /\ c.domain = caller[t].domain
  <2>1. /\ caller[t] \in ResolverCalls /\ __global_resolv = Len(tables)
        /\ __global_resolv \in Nat
    BY <1>1 DEF TypesOK
  <2> QED
    BY <2>1 DEF ResolverCalls
<1> HIDE DEF c
<1>4. /\ caller' \in [Threads -> ResolverCalls] /\ caller'[t] = c /\ Creating' = Creating
  <2>1. c.pc # "create" /\ caller[t].pc # "create"
    BY <1>2, <1>3
  <2>2. /\ caller' \in [Threads -> ResolverCalls] /\ caller'[t] = c
        /\ c.pc # "create" => Creating' = Creating \ {t}
        /\ t \in Creating <=> caller[t].pc = "create"
    BY <1>1, <1>2, <1>3, OneCaller
  <2> QED
    BY <2>1, <2>2
<1>5. TypesOK' /\ TablesOK' /\ EntriesOK' /\ ResolversBounded'
  BY <1>1, <1>2, <1>4 DEF TypesOK, TablesOK, EntriesOK, ResolversBounded
<1>6. CallersOK'
  <2>1. Len(tables) \in Nat
    BY <1>1 DEF TypesOK
  <2>2. Len(tables) >= 1 /\ caller[t].domain \in Names
    BY <1>1, <1>2 DEF CallersOK, CallerOK
  <2>3. CallerOK(t)'
    BY <1>2, <1>3, <1>4, <2>1, <2>2 DEF CallerOK
  <2>4. /\ \A i, m : Good(entries, i, m) => Good(entries', i, m)
        /\ Len(tables') \in Nat /\ Len(tables') >= Len(tables)
        /\ \A u \in Threads : u # t => answer'[u] = answer[u]
    BY <1>2, <2>1
  <2>5. caller' = [caller EXCEPT ![t] = c] /\ c \in ResolverCalls
    BY <1>2, <1>3
  <2> QED
    BY <2>3, <2>4, <2>5, OthersStay
<1>7. EntriesBounded'
  BY <1>2, <1>3, CountsStay
<1> QED
  BY <1>5, <1>6, <1>7 DEF ResInv

\* A new resolver: nobody has a name in it yet.
LEMMA CreateDefaultKeeps ==
  ASSUME IsFiniteSet(Threads), ResInv, NEW t \in Threads, CreateDefault(t)
  PROVE  ResInv'
<1> DEFINE c == [caller[t] EXCEPT !.pc = "take"]
           new == [n \in Names |-> 0]
<1>1. TypesOK /\ TablesOK /\ EntriesOK /\ CallersOK /\ ResolversBounded /\ EntriesBounded
  BY DEF ResInv
<1>2. /\ caller[t].pc = "create" /\ caller' = [caller EXCEPT ![t] = c]
      /\ tables' = Append(tables, new) /\ __global_resolv' = Len(tables')
      /\ UNCHANGED <<entries, answer>>
  BY DEF CreateDefault, Goto
<1>3. /\ c \in ResolverCalls /\ c.pc = "take" /\ c.domain = caller[t].domain
  <2>1. caller[t] \in ResolverCalls
    BY <1>1 DEF TypesOK
  <2> QED
    BY <2>1 DEF ResolverCalls
<1>4. new \in [Names -> Nat] /\ \A n \in Names : new[n] = 0
  OBVIOUS
<1> HIDE DEF c, new
<1>5. /\ tables' \in Seq([Names -> Nat]) /\ Len(tables) \in Nat
      /\ Len(tables') = Len(tables) + 1
      /\ tables'[Len(tables) + 1] = new
      /\ \A r \in 1..Len(tables) : tables'[r] = tables[r]
  BY <1>1, <1>2, <1>4 DEF TypesOK
<1>6. /\ caller' \in [Threads -> ResolverCalls] /\ caller'[t] = c
      /\ \A u \in Threads : u # t => caller'[u] = caller[u]
      /\ Creating \in SUBSET Threads
      /\ c.pc # "create" => Creating' = Creating \ {t}
      /\ t \in Creating <=> caller[t].pc = "create"
  BY <1>1, <1>2, <1>3, OneCaller
<1>7. TypesOK'
  BY <1>1, <1>2, <1>5, <1>6 DEF TypesOK
<1>8. TablesOK'
  <2>1. ASSUME NEW r \in 1..Len(tables'), NEW n \in Names, tables'[r][n] # 0
        PROVE  Good(entries', tables'[r][n], n)
    <3>1. r \in 1..Len(tables) \/ r = Len(tables) + 1
      BY <1>5
    <3>2. r # Len(tables) + 1
      BY <1>4, <1>5, <2>1
    <3>3. r \in 1..Len(tables) /\ tables'[r] = tables[r]
      BY <1>5, <3>1, <3>2
    <3> QED
      BY <1>1, <1>2, <2>1, <3>3 DEF TablesOK
  <2> QED
    BY <2>1 DEF TablesOK
<1>9. EntriesOK'
  BY <1>1, <1>2, <1>5 DEF EntriesOK
<1>10. CallersOK'
  <2>1. caller[t].domain \in Names
    BY <1>1, <1>2 DEF CallersOK, CallerOK
  <2>2. CallerOK(t)'
    BY <1>2, <1>3, <1>5, <1>6, <2>1 DEF CallerOK
  <2>3. /\ \A i, m : Good(entries, i, m) => Good(entries', i, m)
        /\ Len(tables') \in Nat /\ Len(tables') >= Len(tables)
        /\ \A u \in Threads : u # t => answer'[u] = answer[u]
    BY <1>2, <1>5
  <2>4. caller' = [caller EXCEPT ![t] = c] /\ c \in ResolverCalls
    BY <1>2, <1>3
  <2> QED
    BY <2>2, <2>3, <2>4, OthersStay
<1>11. ResolversBounded'
  <2>1. Creating' = Creating \ {t} /\ t \in Creating
    BY <1>2, <1>3, <1>6
  <2>2. Cardinality(Creating') = Cardinality(Creating) - 1 /\ Cardinality(Creating) \in Nat
    BY <1>6, <2>1, ThreadSets
  <2> QED
    BY <1>1, <1>5, <2>2 DEF ResolversBounded
<1>12. EntriesBounded'
  <2> SUFFICES ASSUME NEW r \in 1..Len(tables'), NEW n \in Names
               PROVE  /\ Cardinality(EntriesOf(entries', r, n)) +
                           Cardinality(At(caller', "fill_up", r, n)) <= Cardinality(Threads)
                      /\ tables'[r][n] = 0 =>
                           Cardinality(EntriesOf(entries', r, n))
                             <= Cardinality(At(caller', "add", r, n))
    BY DEF EntriesBounded
  <2>1. /\ At(caller', "fill_up", r, n) = At(caller, "fill_up", r, n) \ {t}
        /\ At(caller', "add", r, n) = At(caller, "add", r, n) \ {t}
    <3>1. c.pc # "fill_up" /\ c.pc # "add"
      BY <1>3
    <3> QED
      BY <1>6, <3>1, Zenon DEF At
  <2>2. t \notin At(caller, "fill_up", r, n) /\ t \notin At(caller, "add", r, n)
    BY <1>2 DEF At
  <2>3. /\ At(caller', "fill_up", r, n) = At(caller, "fill_up", r, n)
        /\ At(caller', "add", r, n) = At(caller, "add", r, n)
        /\ EntriesOf(entries', r, n) = EntriesOf(entries, r, n)
    BY <1>2, <2>1, <2>2
  <2>4. CASE r \in 1..Len(tables)
    <3>1. tables'[r] = tables[r]
      BY <1>5, <2>4
    <3> QED
      BY <1>1, <2>3, <2>4, <3>1, Zenon DEF EntriesBounded
  <2>5. CASE r \notin 1..Len(tables)
    <3>1. EntriesOf(entries, r, n) = {}
      BY <1>1, <2>5 DEF EntriesOK, EntriesOf
    <3>2. At(caller, "fill_up", r, n) = {}
      BY <1>1, <2>5 DEF CallersOK, CallerOK, At
    <3>3. Cardinality({}) = 0
      BY FS_EmptySet
    <3>4. /\ At(caller, "add", r, n) \in SUBSET Threads
          /\ At(caller, "fill_up", r, n) \in SUBSET Threads
      BY DEF At
    <3>5. /\ Cardinality(At(caller, "add", r, n)) \in Nat
          /\ Cardinality(At(caller, "fill_up", r, n)) <= Cardinality(Threads)
      BY <3>4, ThreadSets
    <3>6. /\ Cardinality(EntriesOf(entries', r, n)) = 0
          /\ Cardinality(At(caller', "fill_up", r, n)) = 0
          /\ Cardinality(At(caller', "add", r, n)) \in Nat
          /\ 0 <= Cardinality(Threads)
      BY <2>3, <3>1, <3>2, <3>3, <3>5, Zenon
    <3> QED
      BY <3>6
  <2> QED
    BY <2>4, <2>5
<1> QED
  BY <1>7, <1>8, <1>9, <1>10, <1>11, <1>12 DEF ResInv

\* A name that is found: the thread gets the entry of the table.
LEMMA FoundKeeps ==
  ASSUME IsFiniteSet(Threads), ResInv, NEW t \in Threads, Lookup(t),
         tables[caller[t].resolv][caller[t].domain] # 0
  PROVE  ResInv'
<1> DEFINE c == [caller[t] EXCEPT !.pc = "idle"]
           found == tables[caller[t].resolv][caller[t].domain]
<1>1. TypesOK /\ TablesOK /\ EntriesOK /\ CallersOK /\ ResolversBounded
  BY DEF ResInv
<1>2. /\ caller[t].pc = "lookup" /\ caller' = [caller EXCEPT ![t] = c]
      /\ answer' = [answer EXCEPT ![t] = found]
      /\ UNCHANGED <<__global_resolv, tables, entries>>
  BY DEF Lookup, Goto
<1>3. /\ c \in ResolverCalls /\ c.pc = "idle" /\ c.domain = caller[t].domain
  <2>1. caller[t] \in ResolverCalls
    BY <1>1 DEF TypesOK
  <2> QED
    BY <2>1 DEF ResolverCalls
<1>4. caller[t].resolv \in 1..Len(tables) /\ caller[t].domain \in Names
  BY <1>1, <1>2 DEF CallersOK, CallerOK
<1>5. found \in Nat /\ Good(entries, found, caller[t].domain)
  <2>1. tables[caller[t].resolv] \in [Names -> Nat]
    BY <1>1, <1>4 DEF TypesOK
  <2>2. Good(entries, found, caller[t].domain)
    BY <1>1, <1>4, Zenon DEF TablesOK
  <2> QED
    BY <1>4, <2>1, <2>2
<1> HIDE DEF c, found
<1>6. /\ caller' \in [Threads -> ResolverCalls] /\ caller'[t] = c
      /\ c.pc # "create" => Creating' = Creating \ {t}
      /\ t \in Creating <=> caller[t].pc = "create"
  BY <1>1, <1>2, <1>3, OneCaller
<1>7. /\ answer' \in [Threads -> Nat] /\ answer'[t] = found
      /\ \A u \in Threads : u # t => answer'[u] = answer[u]
  BY <1>1, <1>2, <1>5 DEF TypesOK
<1>8. TypesOK' /\ TablesOK' /\ EntriesOK'
  BY <1>1, <1>2, <1>6, <1>7 DEF TypesOK, TablesOK, EntriesOK
<1>9. ResolversBounded'
  <2>1. Creating' = Creating
    BY <1>2, <1>3, <1>6
  <2> QED
    BY <1>1, <1>2, <2>1 DEF ResolversBounded
<1>10. CallersOK'
  <2>1. Len(tables) \in Nat
    BY <1>1 DEF TypesOK
  <2>2. CallerOK(t)'
    BY <1>2, <1>3, <1>5, <1>6, <1>7 DEF CallerOK
  <2>3. /\ \A i, m : Good(entries, i, m) => Good(entries', i, m)
        /\ Len(tables') \in Nat /\ Len(tables') >= Len(tables)
    BY <1>2, <2>1
  <2>4. caller' = [caller EXCEPT ![t] = c] /\ c \in ResolverCalls
    BY <1>2, <1>3
  <2> QED
    BY <1>7, <2>2, <2>3, <2>4, OthersStay
<1>11. EntriesBounded'
  BY <1>2, <1>3, CountsStay
<1> QED
  BY <1>8, <1>9, <1>10, <1>11 DEF ResInv

\* A name that is missing: every entry of it is in the hands of a thread that is
\* about to add it, and this thread is another one.
LEMMA MissedKeeps ==
  ASSUME IsFiniteSet(Threads), ResInv, NEW t \in Threads, Lookup(t),
         tables[caller[t].resolv][caller[t].domain] = 0
  PROVE  ResInv'
<1> DEFINE c == [caller[t] EXCEPT !.pc = "fill_up"]
<1>1. TypesOK /\ TablesOK /\ EntriesOK /\ CallersOK /\ ResolversBounded /\ EntriesBounded
  BY DEF ResInv
<1>2. /\ caller[t].pc = "lookup" /\ caller' = [caller EXCEPT ![t] = c]
      /\ UNCHANGED <<__global_resolv, tables, entries, answer>>
  BY DEF Lookup, Goto
<1>3. /\ c \in ResolverCalls /\ c.pc = "fill_up" /\ c.domain = caller[t].domain
      /\ c.resolv = caller[t].resolv
  <2>1. caller[t] \in ResolverCalls
    BY <1>1 DEF TypesOK
  <2> QED
    BY <2>1 DEF ResolverCalls
<1> HIDE DEF c
<1>4. caller[t].resolv \in 1..Len(tables) /\ caller[t].domain \in Names
  BY <1>1, <1>2 DEF CallersOK, CallerOK
<1>5. /\ caller' \in [Threads -> ResolverCalls] /\ caller'[t] = c
      /\ \A u \in Threads : u # t => caller'[u] = caller[u]
      /\ c.pc # "create" => Creating' = Creating \ {t}
      /\ t \in Creating <=> caller[t].pc = "create"
  BY <1>1, <1>2, <1>3, OneCaller
<1>6. TypesOK' /\ TablesOK' /\ EntriesOK'
  BY <1>1, <1>2, <1>5 DEF TypesOK, TablesOK, EntriesOK
<1>7. ResolversBounded'
  <2>1. Creating' = Creating
    BY <1>2, <1>3, <1>5
  <2> QED
    BY <1>1, <1>2, <2>1 DEF ResolversBounded
<1>8. CallersOK'
  <2>1. Len(tables) \in Nat
    BY <1>1 DEF TypesOK
  <2>2. CallerOK(t)'
    BY <1>2, <1>3, <1>4, <1>5 DEF CallerOK
  <2>3. /\ \A i, m : Good(entries, i, m) => Good(entries', i, m)
        /\ Len(tables') \in Nat /\ Len(tables') >= Len(tables)
        /\ \A u \in Threads : u # t => answer'[u] = answer[u]
    BY <1>2, <2>1
  <2>4. caller' = [caller EXCEPT ![t] = c] /\ c \in ResolverCalls
    BY <1>2, <1>3
  <2> QED
    BY <2>2, <2>3, <2>4, OthersStay
<1>9. EntriesBounded'
  <2> SUFFICES ASSUME NEW r \in 1..Len(tables), NEW n \in Names
               PROVE  /\ Cardinality(EntriesOf(entries, r, n)) +
                           Cardinality(At(caller', "fill_up", r, n)) <= Cardinality(Threads)
                      /\ tables[r][n] = 0 =>
                           Cardinality(EntriesOf(entries, r, n))
                             <= Cardinality(At(caller', "add", r, n))
    BY <1>2 DEF EntriesBounded
  <2>1. At(caller', "add", r, n) = At(caller, "add", r, n) /\ t \notin At(caller, "add", r, n)
    <3>1. c.pc # "add"
      BY <1>3
    <3>2. At(caller', "add", r, n) = At(caller, "add", r, n) \ {t}
      BY <1>5, <3>1, Zenon DEF At
    <3>3. t \notin At(caller, "add", r, n)
      BY <1>2 DEF At
    <3> QED
      BY <3>2, <3>3
  <2>2. /\ Cardinality(EntriesOf(entries, r, n)) + Cardinality(At(caller, "fill_up", r, n))
             <= Cardinality(Threads)
        /\ tables[r][n] = 0 =>
             Cardinality(EntriesOf(entries, r, n)) <= Cardinality(At(caller, "add", r, n))
    BY <1>1 DEF EntriesBounded
  <2>3. CASE r # caller[t].resolv \/ n # caller[t].domain
    <3>1. At(caller', "fill_up", r, n) = At(caller, "fill_up", r, n) \ {t}
      BY <1>3, <1>5, <2>3, Zenon DEF At
    <3>2. t \notin At(caller, "fill_up", r, n)
      BY <2>3 DEF At
    <3>3. At(caller', "fill_up", r, n) = At(caller, "fill_up", r, n)
      BY <3>1, <3>2
    <3> QED
      BY <2>1, <2>2, <3>3, Zenon
  <2>4. CASE r = caller[t].resolv /\ n = caller[t].domain
    <3>1. tables[r][n] = 0
      BY <2>4
    <3>2. /\ At(caller', "fill_up", r, n) \in SUBSET Threads
          /\ At(caller', "add", r, n) \in SUBSET Threads
          /\ At(caller', "fill_up", r, n) \cap At(caller', "add", r, n) = {}
      BY DEF At
    <3>3. Cardinality(At(caller', "fill_up", r, n)) + Cardinality(At(caller', "add", r, n))
            <= Cardinality(Threads)
      BY <3>2, ApartThreads
    <3>4. /\ Cardinality(At(caller', "fill_up", r, n)) \in Nat
          /\ Cardinality(At(caller', "add", r, n)) \in Nat
          /\ Cardinality(EntriesOf(entries, r, n)) \in Nat
          /\ Cardinality(Threads) \in Nat
      BY <1>1, <3>2, ThreadSets, EntrySets, FS_CardinalityType
    <3>5. Cardinality(EntriesOf(entries, r, n)) <= Cardinality(At(caller', "add", r, n))
      BY <2>1, <2>2, <3>1, Zenon
    <3> QED
      BY <3>3, <3>4, <3>5
  <2> QED
    BY <2>3, <2>4
<1> QED
  BY <1>6, <1>7, <1>8, <1>9 DEF ResInv

\* The new entry of a thread that resolves a name.
LEMMA NewEntryOK ==
  ASSUME ResInv, NEW t \in Threads, caller[t].pc = "fill_up", NEW filled \in BOOLEAN
  PROVE  \E e \in ResolverEntries : /\ NewEntry(t, filled) = Append(entries, e)
                            /\ e.name = caller[t].domain /\ e.resolv = caller[t].resolv
                            /\ e.freed = ~filled
                            /\ e.name \in Names /\ e.resolv \in 1..Len(tables)
<1> DEFINE e == [name |-> caller[t].domain, resolv |-> caller[t].resolv, freed |-> ~filled]
<1>1. caller[t].resolv \in 1..Len(tables) /\ caller[t].domain \in Names
  BY DEF ResInv, CallersOK, CallerOK
<1>2. caller[t].resolv \in Nat
  BY <1>1
<1>3. (~filled) \in BOOLEAN
  OBVIOUS
<1>4. e \in ResolverEntries
  BY <1>1, <1>2, <1>3 DEF ResolverEntries
<1>5. NewEntry(t, filled) = Append(entries, e)
  BY DEF NewEntry
<1>6. e.name = caller[t].domain /\ e.resolv = caller[t].resolv
  OBVIOUS
<1>7. e.freed = ~filled
  BY Zenon
<1> HIDE DEF e
<1> QED
  BY <1>1, <1>4, <1>5, <1>6, <1>7, Zenon

\* What a longer list of entries keeps.
LEMMA LongerEntries ==
  ASSUME ResInv, NEW e \in ResolverEntries, entries' = Append(entries, e),
         e.resolv \in 1..Len(tables), UNCHANGED <<tables, __global_resolv>>,
         caller' \in [Threads -> ResolverCalls], answer' \in [Threads -> Nat]
  PROVE  TypesOK' /\ TablesOK' /\ EntriesOK'
<1>1. TypesOK /\ TablesOK /\ EntriesOK
  BY DEF ResInv
<1>2. /\ entries' \in Seq(ResolverEntries) /\ Len(entries) \in Nat
      /\ Len(entries') = Len(entries) + 1
      /\ entries'[Len(entries) + 1] = e
      /\ \A i \in 1..Len(entries) : entries'[i] = entries[i]
      /\ \A i, n : Good(entries, i, n) => Good(entries', i, n)
  BY <1>1, NewEntries
<1>3. TypesOK'
  BY <1>1, <1>2 DEF TypesOK
<1>4. TablesOK'
  BY <1>1, <1>2, Zenon DEF TablesOK
<1>5. EntriesOK'
  <2>1. ASSUME NEW i \in 1..Len(entries')
        PROVE  entries'[i].resolv \in 1..Len(tables')
    <3>1. CASE i \in 1..Len(entries)
      BY <1>1, <1>2, <3>1 DEF EntriesOK
    <3>2. CASE i = Len(entries) + 1
      BY <1>2, <3>2
    <3> QED
      BY <1>2, <3>1, <3>2
  <2> QED
    BY <2>1 DEF EntriesOK
<1> QED
  BY <1>3, <1>4, <1>5

\* entry_fill_up fails: the entry is freed at once.
LEMMA FillUpFailsKeeps ==
  ASSUME IsFiniteSet(Threads), ResInv, NEW t \in Threads, FillUpFails(t)
  PROVE  ResInv'
<1> DEFINE c == [caller[t] EXCEPT !.pc = "idle"]
<1>1. TypesOK /\ CallersOK /\ ResolversBounded /\ EntriesBounded
  BY DEF ResInv
<1>2. /\ caller[t].pc = "fill_up" /\ caller' = [caller EXCEPT ![t] = c]
      /\ entries' = NewEntry(t, FALSE) /\ answer' = [answer EXCEPT ![t] = 0]
      /\ UNCHANGED <<__global_resolv, tables>>
  BY DEF FillUpFails, Goto
<1>3. /\ c \in ResolverCalls /\ c.pc = "idle"
  <2>1. caller[t] \in ResolverCalls
    BY <1>1 DEF TypesOK
  <2> QED
    BY <2>1 DEF ResolverCalls
<1> HIDE DEF c
<1>4. PICK e \in ResolverEntries : /\ entries' = Append(entries, e) /\ e.freed = TRUE
                           /\ e.resolv \in 1..Len(tables)
  BY <1>2, NewEntryOK
<1>5. /\ Len(entries) \in Nat
      /\ \A i, n : Good(entries, i, n) => Good(entries', i, n)
      /\ \A r, n : EntriesOf(entries', r, n) =
           IF e.name = n /\ e.resolv = r /\ ~e.freed
           THEN EntriesOf(entries, r, n) \cup {Len(entries) + 1} ELSE EntriesOf(entries, r, n)
  BY <1>1, <1>4, NewEntries
<1>6. /\ caller' \in [Threads -> ResolverCalls] /\ caller'[t] = c
      /\ \A u \in Threads : u # t => caller'[u] = caller[u]
      /\ c.pc # "create" => Creating' = Creating \ {t}
      /\ t \in Creating <=> caller[t].pc = "create"
  BY <1>1, <1>2, <1>3, OneCaller
<1>7. /\ answer' \in [Threads -> Nat] /\ answer'[t] = 0
      /\ \A u \in Threads : u # t => answer'[u] = answer[u]
  BY <1>1, <1>2 DEF TypesOK
<1>8. TypesOK' /\ TablesOK' /\ EntriesOK'
  BY <1>2, <1>4, <1>6, <1>7, LongerEntries
<1>9. ResolversBounded'
  <2>1. Creating' = Creating
    BY <1>2, <1>3, <1>6
  <2> QED
    BY <1>1, <1>2, <2>1 DEF ResolversBounded
<1>10. CallersOK'
  <2>1. CallerOK(t)'
    BY <1>3, <1>6, <1>7 DEF CallerOK
  <2>2. Len(tables') \in Nat /\ Len(tables') >= Len(tables)
    BY <1>1, <1>2 DEF TypesOK
  <2>3. caller' = [caller EXCEPT ![t] = c] /\ c \in ResolverCalls
    BY <1>2, <1>3
  <2> QED
    BY <1>5, <1>7, <2>1, <2>2, <2>3, OthersStay
<1>11. EntriesBounded'
  <2> SUFFICES ASSUME NEW r \in 1..Len(tables), NEW n \in Names
               PROVE  /\ Cardinality(EntriesOf(entries', r, n)) +
                           Cardinality(At(caller', "fill_up", r, n)) <= Cardinality(Threads)
                      /\ tables[r][n] = 0 =>
                           Cardinality(EntriesOf(entries', r, n))
                             <= Cardinality(At(caller', "add", r, n))
    BY <1>2 DEF EntriesBounded
  <2>1. EntriesOf(entries', r, n) = EntriesOf(entries, r, n)
    BY <1>4, <1>5
  <2>2. c.pc # "add" /\ c.pc # "fill_up"
    BY <1>3
  <2>3. /\ At(caller', "add", r, n) = At(caller, "add", r, n) \ {t}
        /\ At(caller', "fill_up", r, n) = At(caller, "fill_up", r, n) \ {t}
    BY <1>6, <2>2, Zenon DEF At
  <2>4. At(caller', "add", r, n) = At(caller, "add", r, n)
    <3>1. t \notin At(caller, "add", r, n)
      BY <1>2 DEF At
    <3> QED
      BY <2>3, <3>1
  <2>5. /\ Cardinality(At(caller', "fill_up", r, n)) <= Cardinality(At(caller, "fill_up", r, n))
        /\ Cardinality(At(caller', "fill_up", r, n)) \in Nat
        /\ Cardinality(At(caller, "fill_up", r, n)) \in Nat
    <3>1. /\ At(caller, "fill_up", r, n) \in SUBSET Threads
          /\ At(caller', "fill_up", r, n) \in SUBSET Threads
      BY DEF At
    <3>2. /\ Cardinality(At(caller, "fill_up", r, n)) \in Nat
          /\ IsFiniteSet(At(caller, "fill_up", r, n))
          /\ Cardinality(At(caller', "fill_up", r, n)) \in Nat
      BY <3>1, ThreadSets
    <3>3. At(caller', "fill_up", r, n) \subseteq At(caller, "fill_up", r, n)
      BY <2>3
    <3> QED
      BY <3>2, <3>3, FS_Subset
  <2>6. /\ Cardinality(EntriesOf(entries, r, n)) + Cardinality(At(caller, "fill_up", r, n))
             <= Cardinality(Threads)
        /\ tables[r][n] = 0 =>
             Cardinality(EntriesOf(entries, r, n)) <= Cardinality(At(caller, "add", r, n))
    BY <1>1 DEF EntriesBounded
  <2>7. Cardinality(EntriesOf(entries, r, n)) \in Nat /\ Cardinality(Threads) \in Nat
    BY <1>1, EntrySets, FS_CardinalityType
  <2>8. Cardinality(EntriesOf(entries', r, n)) + Cardinality(At(caller', "fill_up", r, n))
          <= Cardinality(Threads)
    BY <2>1, <2>5, <2>6, <2>7
  <2> QED
    BY <2>1, <2>4, <2>6, <2>8, Zenon
<1> QED
  BY <1>8, <1>9, <1>10, <1>11 DEF ResInv

\* entry_fill_up has the addresses: the thread holds the entry until it adds it.
LEMMA FillUpDoneKeeps ==
  ASSUME IsFiniteSet(Threads), ResInv, NEW t \in Threads, FillUpDone(t)
  PROVE  ResInv'
<1> DEFINE c == [caller[t] EXCEPT !.entry = Len(entries'), !.pc = "add"]
<1>1. TypesOK /\ CallersOK /\ ResolversBounded /\ EntriesBounded
  BY DEF ResInv
<1>2. /\ caller[t].pc = "fill_up" /\ caller' = [caller EXCEPT ![t] = c]
      /\ entries' = NewEntry(t, TRUE)
      /\ UNCHANGED <<__global_resolv, tables, answer>>
  BY DEF FillUpDone
<1>3. PICK e \in ResolverEntries : /\ entries' = Append(entries, e) /\ e.freed = FALSE
                           /\ e.name = caller[t].domain /\ e.resolv = caller[t].resolv
                           /\ e.name \in Names /\ e.resolv \in 1..Len(tables)
  BY <1>2, NewEntryOK
<1>4. /\ Len(entries) \in Nat /\ Len(entries') = Len(entries) + 1
      /\ entries'[Len(entries) + 1] = e
      /\ \A i, n : Good(entries, i, n) => Good(entries', i, n)
      /\ \A r, n : EntriesOf(entries', r, n) =
           IF e.name = n /\ e.resolv = r /\ ~e.freed
           THEN EntriesOf(entries, r, n) \cup {Len(entries) + 1} ELSE EntriesOf(entries, r, n)
  BY <1>1, <1>3, NewEntries
<1>5. /\ c \in ResolverCalls /\ c.pc = "add" /\ c.entry = Len(entries) + 1
      /\ c.domain = caller[t].domain /\ c.resolv = caller[t].resolv
  <2>1. caller[t] \in ResolverCalls /\ Len(entries') \in Nat
    BY <1>1, <1>4 DEF TypesOK
  <2> QED
    BY <1>4, <2>1 DEF ResolverCalls
<1> HIDE DEF c
<1>6. /\ caller' \in [Threads -> ResolverCalls] /\ caller'[t] = c
      /\ \A u \in Threads : u # t => caller'[u] = caller[u]
      /\ c.pc # "create" => Creating' = Creating \ {t}
      /\ t \in Creating <=> caller[t].pc = "create"
  BY <1>1, <1>2, <1>5, OneCaller
<1>7. answer' \in [Threads -> Nat] /\ \A u \in Threads : u # t => answer'[u] = answer[u]
  BY <1>1, <1>2 DEF TypesOK
<1>8. TypesOK' /\ TablesOK' /\ EntriesOK'
  BY <1>2, <1>3, <1>6, <1>7, LongerEntries
<1>9. ResolversBounded'
  <2>1. Creating' = Creating
    BY <1>2, <1>5, <1>6
  <2> QED
    BY <1>1, <1>2, <2>1 DEF ResolversBounded
<1>10. CallersOK'
  <2>1. Good(entries', c.entry, c.domain)
    BY <1>3, <1>4, <1>5 DEF Good
  <2>2. CallerOK(t)'
    BY <1>2, <1>3, <1>5, <1>6, <2>1 DEF CallerOK
  <2>3. Len(tables') \in Nat /\ Len(tables') >= Len(tables)
    BY <1>1, <1>2 DEF TypesOK
  <2>4. caller' = [caller EXCEPT ![t] = c] /\ c \in ResolverCalls
    BY <1>2, <1>5
  <2> QED
    BY <1>4, <1>7, <2>2, <2>3, <2>4, OthersStay
<1>11. EntriesBounded'
  <2> SUFFICES ASSUME NEW r \in 1..Len(tables), NEW n \in Names
               PROVE  /\ Cardinality(EntriesOf(entries', r, n)) +
                           Cardinality(At(caller', "fill_up", r, n)) <= Cardinality(Threads)
                      /\ tables[r][n] = 0 =>
                           Cardinality(EntriesOf(entries', r, n))
                             <= Cardinality(At(caller', "add", r, n))
    BY <1>2 DEF EntriesBounded
  <2>1. At(caller', "fill_up", r, n) = At(caller, "fill_up", r, n) \ {t}
    <3>1. c.pc # "fill_up"
      BY <1>5
    <3> QED
      BY <1>6, <3>1, Zenon DEF At
  <2>2. /\ Cardinality(EntriesOf(entries, r, n)) + Cardinality(At(caller, "fill_up", r, n))
             <= Cardinality(Threads)
        /\ tables[r][n] = 0 =>
             Cardinality(EntriesOf(entries, r, n)) <= Cardinality(At(caller, "add", r, n))
    BY <1>1 DEF EntriesBounded
  <2>3. t \notin At(caller, "add", r, n)
    BY <1>2 DEF At
  <2>4. CASE r # caller[t].resolv \/ n # caller[t].domain
    <3>1. EntriesOf(entries', r, n) = EntriesOf(entries, r, n)
      BY <1>3, <1>4, <2>4
    <3>2. At(caller', "add", r, n) = At(caller, "add", r, n) \ {t}
      BY <1>5, <1>6, <2>4, Zenon DEF At
    <3>3. t \notin At(caller, "fill_up", r, n)
      BY <2>4 DEF At
    <3>4. /\ At(caller', "add", r, n) = At(caller, "add", r, n)
          /\ At(caller', "fill_up", r, n) = At(caller, "fill_up", r, n)
      BY <2>1, <2>3, <3>2, <3>3
    <3> QED
      BY <2>2, <3>1, <3>4, Zenon
  <2>5. CASE r = caller[t].resolv /\ n = caller[t].domain
    <3>1. /\ EntriesOf(entries', r, n) = EntriesOf(entries, r, n) \cup {Len(entries) + 1}
          /\ Len(entries) + 1 \notin EntriesOf(entries, r, n)
      BY <1>3, <1>4, <2>5 DEF EntriesOf
    <3>2. At(caller', "add", r, n) = At(caller, "add", r, n) \cup {t}
      BY <1>5, <1>6, <2>5, Zenon DEF At
    <3>3. t \in At(caller, "fill_up", r, n)
      BY <1>2, <2>5 DEF At
    <3>4. /\ IsFiniteSet(EntriesOf(entries, r, n)) /\ Cardinality(EntriesOf(entries, r, n)) \in Nat
      BY <1>1, EntrySets
    <3>5. Cardinality(EntriesOf(entries', r, n)) = Cardinality(EntriesOf(entries, r, n)) + 1
      BY <3>1, <3>4, FS_AddElement
    <3>6. /\ At(caller, "fill_up", r, n) \in SUBSET Threads
          /\ At(caller, "add", r, n) \in SUBSET Threads
      BY DEF At
    <3>7. /\ Cardinality(At(caller, "fill_up", r, n)) \in Nat
          /\ Cardinality(At(caller', "fill_up", r, n)) = Cardinality(At(caller, "fill_up", r, n)) - 1
      BY <2>1, <3>3, <3>6, ThreadSets
    <3>8. /\ Cardinality(At(caller, "add", r, n)) \in Nat
          /\ Cardinality(At(caller', "add", r, n)) = Cardinality(At(caller, "add", r, n)) + 1
      BY <2>3, <3>2, <3>6, ThreadSets
    <3>9. Cardinality(Threads) \in Nat
      BY FS_CardinalityType
    <3> QED
      BY <2>2, <3>4, <3>5, <3>7, <3>8, <3>9
  <2> QED
    BY <2>4, <2>5
<1> QED
  BY <1>8, <1>9, <1>10, <1>11 DEF ResInv

\* table_add_new_entry: the name is in the table afterwards, with this entry or
\* with the one of a thread that was faster; nobody's entry is lost from sight
\* of the thread that got it.
LEMMA AddNewEntryKeeps ==
  ASSUME IsFiniteSet(Threads), ResInv, NEW t \in Threads, AddNewEntry(t)
  PROVE  ResInv'
<1> DEFINE c == [caller[t] EXCEPT !.pc = "idle"]
           R == caller[t].resolv
           D == caller[t].domain
           e == caller[t].entry
<1>1. TypesOK /\ TablesOK /\ EntriesOK /\ CallersOK /\ ResolversBounded /\ EntriesBounded
  BY DEF ResInv
<1>2. /\ caller[t].pc = "add" /\ caller' = [caller EXCEPT ![t] = c]
      /\ tables' = IF tables[R][D] # 0 THEN tables ELSE [tables EXCEPT ![R][D] = e]
      /\ answer' = [answer EXCEPT ![t] = e]
      /\ UNCHANGED <<__global_resolv, entries>>
  BY DEF AddNewEntry, Goto
<1>3. /\ c \in ResolverCalls /\ c.pc = "idle" /\ c.domain = D
      /\ e \in Nat
  <2>1. caller[t] \in ResolverCalls
    BY <1>1 DEF TypesOK
  <2> QED
    BY <2>1 DEF ResolverCalls
<1>4. R \in 1..Len(tables) /\ D \in Names /\ Good(entries, e, D)
  BY <1>1, <1>2 DEF CallersOK, CallerOK
<1> HIDE DEF c, R, D, e
<1>5. e # 0
  BY <1>4 DEF Good
<1>6. /\ tables \in Seq([Names -> Nat]) /\ Len(tables) \in Nat
      /\ \A r \in 1..Len(tables) : tables[r] \in [Names -> Nat]
  BY <1>1 DEF TypesOK
<1>7. /\ tables' \in Seq([Names -> Nat]) /\ Len(tables') = Len(tables)
      /\ tables'[R][D] # 0
      /\ tables[R][D] # 0 => tables'[R][D] = tables[R][D]
      /\ tables[R][D] = 0 => tables'[R][D] = e
      /\ \A r \in 1..Len(tables), n \in Names : r # R \/ n # D => tables'[r][n] = tables[r][n]
  <2>1. CASE tables[R][D] # 0
    BY <1>2, <1>6, <2>1
  <2>2. CASE tables[R][D] = 0
    <3> DEFINE row == [tables[R] EXCEPT ![D] = e]
    <3>1. tables' = [tables EXCEPT ![R] = row]
      BY <1>2, <2>2
    <3>2. row \in [Names -> Nat] /\ row[D] = e /\ \A n \in Names : n # D => row[n] = tables[R][n]
      BY <1>3, <1>4, <1>6
    <3> HIDE DEF row
    <3>3. tables' \in Seq([Names -> Nat]) /\ Len(tables') = Len(tables)
      BY <1>4, <1>6, <3>1, <3>2
    <3>4. tables'[R] = row /\ \A r \in 1..Len(tables) : r # R => tables'[r] = tables[r]
      <4>1. DOMAIN tables = 1..Len(tables)
        BY <1>6
      <4> QED
        BY <1>4, <3>1, <4>1
    <3>5. tables'[R][D] = e /\ \A n \in Names : n # D => tables'[R][n] = tables[R][n]
      BY <3>2, <3>4
    <3> QED
      BY <1>5, <2>2, <3>3, <3>4, <3>5
  <2> QED
    BY <2>1, <2>2
<1>8. /\ caller' \in [Threads -> ResolverCalls] /\ caller'[t] = c
      /\ \A u \in Threads : u # t => caller'[u] = caller[u]
      /\ c.pc # "create" => Creating' = Creating \ {t}
      /\ t \in Creating <=> caller[t].pc = "create"
  BY <1>1, <1>2, <1>3, OneCaller
<1>9. /\ answer' \in [Threads -> Nat] /\ answer'[t] = e
      /\ \A u \in Threads : u # t => answer'[u] = answer[u]
  BY <1>1, <1>2, <1>3 DEF TypesOK
<1>10. TypesOK'
  BY <1>1, <1>2, <1>7, <1>8, <1>9 DEF TypesOK
<1>11. TablesOK'
  <2>1. ASSUME NEW r \in 1..Len(tables), NEW n \in Names, tables'[r][n] # 0
        PROVE  Good(entries, tables'[r][n], n)
    <3>1. CASE r # R \/ n # D
      BY <1>1, <1>7, <2>1, <3>1 DEF TablesOK
    <3>2. CASE r = R /\ n = D
      <4>1. CASE tables[R][D] # 0
        BY <1>1, <1>7, <2>1, <3>2, <4>1 DEF TablesOK
      <4>2. CASE tables[R][D] = 0
        BY <1>4, <1>7, <3>2, <4>2
      <4> QED
        BY <4>1, <4>2
    <3> QED
      BY <3>1, <3>2
  <2>2. entries' = entries
    BY <1>2
  <2> QED
    BY <1>7, <2>1, <2>2, Zenon DEF TablesOK
<1>12. EntriesOK'
  BY <1>1, <1>2, <1>7 DEF EntriesOK
<1>13. ResolversBounded'
  <2>1. Creating' = Creating
    BY <1>2, <1>3, <1>8
  <2> QED
    BY <1>1, <1>7, <2>1 DEF ResolversBounded
<1>14. CallersOK'
  <2>1. CallerOK(t)'
    BY <1>2, <1>3, <1>4, <1>8, <1>9 DEF CallerOK
  <2>2. /\ \A i, m : Good(entries, i, m) => Good(entries', i, m)
        /\ Len(tables') \in Nat /\ Len(tables') >= Len(tables)
    BY <1>2, <1>6, <1>7
  <2>3. caller' = [caller EXCEPT ![t] = c] /\ c \in ResolverCalls
    BY <1>2, <1>3
  <2> QED
    BY <1>9, <2>1, <2>2, <2>3, OthersStay
<1>15. EntriesBounded'
  <2> SUFFICES ASSUME NEW r \in 1..Len(tables), NEW n \in Names
               PROVE  /\ Cardinality(EntriesOf(entries, r, n)) +
                           Cardinality(At(caller', "fill_up", r, n)) <= Cardinality(Threads)
                      /\ tables'[r][n] = 0 =>
                           Cardinality(EntriesOf(entries, r, n))
                             <= Cardinality(At(caller', "add", r, n))
    <3>1. entries' = entries /\ Len(tables') = Len(tables)
      BY <1>2, <1>7
    <3> QED
      BY <3>1, Zenon DEF EntriesBounded
  <2>1. c.pc # "fill_up" /\ c.pc # "add"
    BY <1>3
  <2>2. /\ At(caller', "fill_up", r, n) = At(caller, "fill_up", r, n) \ {t}
        /\ At(caller', "add", r, n) = At(caller, "add", r, n) \ {t}
    BY <1>8, <2>1, Zenon DEF At
  <2>3. At(caller', "fill_up", r, n) = At(caller, "fill_up", r, n)
    <3>1. t \notin At(caller, "fill_up", r, n)
      BY <1>2 DEF At
    <3> QED
      BY <2>2, <3>1
  <2>4. /\ Cardinality(EntriesOf(entries, r, n)) + Cardinality(At(caller, "fill_up", r, n))
             <= Cardinality(Threads)
        /\ tables[r][n] = 0 =>
             Cardinality(EntriesOf(entries, r, n)) <= Cardinality(At(caller, "add", r, n))
    BY <1>1 DEF EntriesBounded
  <2>5. CASE r # R \/ n # D
    <3>1. t \notin At(caller, "add", r, n)
      BY <2>5 DEF At, R, D
    <3>2. At(caller', "add", r, n) = At(caller, "add", r, n)
      BY <2>2, <3>1
    <3>3. tables'[r][n] = tables[r][n]
      BY <1>7, <2>5
    <3> QED
      BY <2>3, <2>4, <3>2, <3>3, Zenon
  <2>6. CASE r = R /\ n = D
    <3>1. tables'[r][n] # 0
      BY <1>7, <2>6
    <3> QED
      BY <2>3, <2>4, <3>1, Zenon
  <2> QED
    BY <2>5, <2>6
<1> QED
  BY <1>10, <1>11, <1>12, <1>13, <1>14, <1>15 DEF ResInv

-----------------------------------------------------------------------------
(* The theorems. *)

\* No resolver, no entry, no call.
LEMMA ResolverStarts == IsFiniteSet(Threads) /\ Init => ResInv
<1> SUFFICES ASSUME IsFiniteSet(Threads), Init
             PROVE  ResInv
  OBVIOUS
<1>1. /\ __global_resolv = 0 /\ tables = <<>> /\ entries = <<>>
      /\ caller = [t \in Threads |-> Idle(CHOOSE n \in Names : TRUE)]
      /\ answer = [t \in Threads |-> 0]
  BY DEF Init
<1>2. Idle(CHOOSE n \in Names : TRUE) \in ResolverCalls /\ Idle(CHOOSE n \in Names : TRUE).pc = "idle"
  BY DEF Idle, ResolverCalls
<1>3. caller \in [Threads -> ResolverCalls] /\ \A t \in Threads : caller[t].pc = "idle"
  BY <1>1, <1>2
<1>4. Len(tables) = 0 /\ Len(entries) = 0 /\ 1..0 = {}
  BY <1>1
<1>5. TypesOK
  BY <1>1, <1>3 DEF TypesOK
<1>6. TablesOK /\ EntriesOK /\ EntriesBounded
  BY <1>4 DEF TablesOK, EntriesOK, EntriesBounded
<1>7. CallersOK
  BY <1>1, <1>3 DEF CallersOK, CallerOK
<1>8. ResolversBounded
  <2>1. Creating = {}
    BY <1>3 DEF Creating
  <2>2. Cardinality(Creating) = 0 /\ Cardinality(Threads) \in Nat
    BY <2>1, FS_EmptySet, FS_CardinalityType
  <2> QED
    BY <1>4, <2>2 DEF ResolversBounded
<1> QED
  BY <1>5, <1>6, <1>7, <1>8 DEF ResInv

\* Where the calls of all threads are, what they hold, and how much the races of
\* get_default and of table_add_new_entry can have lost.
THEOREM ResolverInvariance ==
  ASSUME IsFiniteSet(Threads)
  PROVE  Spec => []ResInv
<1>1. Init => ResInv
  BY ResolverStarts
<1>2. ResInv /\ [Next]_vars => ResInv'
  <2> SUFFICES ASSUME ResInv, [Next]_vars
               PROVE  ResInv'
    OBVIOUS
  <2>1. CASE UNCHANGED vars
    <3>1. TypesOK' /\ TablesOK' /\ EntriesOK'
      BY <2>1 DEF vars, ResInv, TypesOK, TablesOK, EntriesOK
    <3>2. CallersOK' /\ ResolversBounded' /\ EntriesBounded'
      BY <2>1 DEF vars, ResInv, CallersOK, CallerOK, ResolversBounded, Creating, EntriesBounded
    <3> QED
      BY <3>1, <3>2 DEF ResInv
  <2>2. ASSUME NEW t \in Threads, NEW n \in Names, GetDefault(t, n)
        PROVE  ResInv'
    BY <2>2, GetDefaultKeeps
  <2>3. ASSUME NEW t \in Threads, CreateDefault(t)
        PROVE  ResInv'
    BY <2>3, CreateDefaultKeeps
  <2>4. ASSUME NEW t \in Threads, TakeDefault(t)
        PROVE  ResInv'
    BY <2>4, TakeDefaultKeeps
  <2>5. ASSUME NEW t \in Threads, Lookup(t)
        PROVE  ResInv'
    BY <2>5, FoundKeeps, MissedKeeps
  <2>6. ASSUME NEW t \in Threads, FillUpFails(t)
        PROVE  ResInv'
    BY <2>6, FillUpFailsKeeps
  <2>7. ASSUME NEW t \in Threads, FillUpDone(t)
        PROVE  ResInv'
    BY <2>7, FillUpDoneKeeps
  <2>8. ASSUME NEW t \in Threads, AddNewEntry(t)
        PROVE  ResInv'
    BY <2>8, AddNewEntryKeeps
  <2> QED
    BY <2>1, <2>2, <2>3, <2>4, <2>5, <2>6, <2>7, <2>8 DEF Next
<1> QED
  BY <1>1, <1>2, PTL DEF Spec

\* However many threads resolve the same names at once: what a caller was given is
\* an entry of the name it asked for and stays so, and no more than one resolver
\* and one entry of a name in it are allocated for each thread, although the
\* code takes no lock for the default resolver and does not look at what
\* http2d_avl_add answers.
THEOREM RacesAreHarmless ==
  ASSUME IsFiniteSet(Threads)
  PROVE  Spec => []RacesHarmless
<1>1. ResInv => RacesHarmless
  <2> SUFFICES ASSUME ResInv
               PROVE  RacesHarmless
    OBVIOUS
  <2>1. TypesOK /\ TablesOK /\ CallersOK /\ ResolversBounded /\ EntriesBounded
    BY DEF ResInv
  <2>2. AnswersStay
    BY <2>1 DEF AnswersStay, TablesOK, CallersOK, CallerOK, Good
  <2>3. Len(tables) <= Cardinality(Threads)
    <3>1. Creating \in SUBSET Threads
      BY DEF Creating
    <3>2. Cardinality(Creating) \in Nat /\ Cardinality(Threads) \in Nat
      BY <3>1, ThreadSets, FS_CardinalityType
    <3>3. Len(tables) \in Nat
      BY <2>1 DEF TypesOK
    <3> QED
      BY <2>1, <3>2, <3>3 DEF ResolversBounded
  <2>4. ASSUME NEW r \in 1..Len(tables), NEW n \in Names
        PROVE  Cardinality(EntriesOf(entries, r, n)) <= Cardinality(Threads)
    <3>1. Cardinality(EntriesOf(entries, r, n)) + Cardinality(At(caller, "fill_up", r, n))
            <= Cardinality(Threads)
      BY <2>1 DEF EntriesBounded
    <3>2. At(caller, "fill_up", r, n) \in SUBSET Threads
      BY DEF At
    <3>3. /\ Cardinality(EntriesOf(entries, r, n)) \in Nat
          /\ Cardinality(At(caller, "fill_up", r, n)) \in Nat /\ Cardinality(Threads) \in Nat
      BY <2>1, <3>2, ThreadSets, EntrySets, FS_CardinalityType
    <3> QED
      BY <3>1, <3>3
  <2> QED
    BY <2>2, <2>3, <2>4 DEF RacesHarmless, LeaksBounded, EntriesOf
<1> QED
  BY <1>1, ResolverInvariance, PTL
=============================================================================
