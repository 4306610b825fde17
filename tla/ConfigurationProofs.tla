------------------------ MODULE ConfigurationProofs ------------------------
(***************************************************************************)
(* Theorems about Configuration: for access files of any length, addresses  *)
(* of any width, and any number of interfaces and clients; and for every    *)
(* device with every constraint of its options, every file of options, and  *)
(* every ticket that the capabilities or the form lead to.                  *)
(***************************************************************************)
EXTENDS Configuration, InductionProofs, TLAPS

USE AccessAssumption

-----------------------------------------------------------------------------
(* The bits of a mask.                                                      *)

(* Division with a remainder, by the bits of a byte.                        *)
LEMMA ByteAndBit ==
    ASSUME NEW i \in Nat
    PROVE  /\ i \div ByteBits \in Nat /\ i % ByteBits \in 0 .. ByteBits - 1
           /\ i = (i \div ByteBits) * ByteBits + (i % ByteBits)
OBVIOUS

(* Without a remainder.                                                     *)
LEMMA WholeMultiple ==
    ASSUME NEW i \in Nat, i % ByteBits = 0
    PROVE  \E m \in Nat : i = m * ByteBits
<1>1. i \div ByteBits \in Nat /\ i = (i \div ByteBits) * ByteBits + (i % ByteBits)
  BY ByteAndBit
<1> DEFINE q == i \div ByteBits
<1> HIDE DEF q
<1>2. q \in Nat /\ i = q * ByteBits
  BY <1>1 DEF q
<1> QED BY <1>2

(* A number given by a quotient and a remainder has these.                  *)
LEMMA ByteOfBit ==
    ASSUME NEW q \in Nat, NEW r \in 0 .. ByteBits - 1
    PROVE  /\ q * ByteBits + r \in Nat
           /\ (q * ByteBits + r) \div ByteBits = q /\ (q * ByteBits + r) % ByteBits = r
OBVIOUS

(* A bit of one of the first m bytes, by its byte.                          *)
LEMMA BitBelow ==
    ASSUME NEW m \in Nat, NEW q \in Nat, NEW r \in 0 .. ByteBits - 1
    PROVE  q * ByteBits + r < m * ByteBits <=> q < m
<1> DEFINE B == ByteBits
<1>1. B \in Nat /\ B > 0
  OBVIOUS
<1>2. CASE q < m
  <2>1. m - q - 1 \in Nat
    BY <1>2
  <2>2. (m - q - 1) * B >= 0
    BY <1>1, <2>1
  <2>3. m * B = q * B + B + (m - q - 1) * B
    BY <1>1
  <2> QED BY <1>1, <1>2, <2>2, <2>3
<1>3. CASE m <= q
  <2>1. q - m \in Nat
    BY <1>3
  <2>2. (q - m) * B >= 0
    BY <1>1, <2>1
  <2>3. q * B = m * B + (q - m) * B
    BY <1>1
  <2> QED BY <1>1, <1>3, <2>2, <2>3
<1> QED BY <1>2, <1>3

(* A bit is mirrored within its byte, and mirrored again it is the bit.     *)
LEMMA MaskBitMirror ==
    ASSUME NEW i \in Nat
    PROVE  /\ MaskBit(i) \in Nat
           /\ MaskBit(MaskBit(i)) = i
           /\ \A m \in Nat : i < m * ByteBits => MaskBit(i) < m * ByteBits
<1> DEFINE q == i \div ByteBits
           r == i % ByteBits
           s == ByteBits - 1 - r
<1>1. q \in Nat /\ r \in 0 .. ByteBits - 1 /\ i = q * ByteBits + r
  BY ByteAndBit
<1>2. MaskBit(i) = q * ByteBits + s
  BY DEF MaskBit
<1>3. s \in 0 .. ByteBits - 1 /\ ByteBits - 1 - s = r
  BY <1>1
<1> HIDE DEF q, r, s
<1>4. /\ q * ByteBits + s \in Nat
      /\ (q * ByteBits + s) \div ByteBits = q /\ (q * ByteBits + s) % ByteBits = s
  BY <1>1, <1>3, ByteOfBit
<1>5. MaskBit(MaskBit(i)) = q * ByteBits + r
  <2> DEFINE k == MaskBit(i)
  <2>1. k \div ByteBits = q /\ k % ByteBits = s
    BY <1>2, <1>4
  <2> HIDE DEF k
  <2>2. MaskBit(k) = q * ByteBits + r
    BY <1>3, <2>1 DEF MaskBit
  <2> QED BY <2>2 DEF k
<1>6. \A m \in Nat : i < m * ByteBits => MaskBit(i) < m * ByteBits
  BY <1>1, <1>2, <1>3, BitBelow
<1> QED BY <1>1, <1>2, <1>4, <1>5, <1>6

(* The mask of a prefix that ends with a byte is the prefix.                *)
LEMMA MaskOfBytes ==
    ASSUME NEW m \in Nat
    PROVE  {MaskBit(i) : i \in 0 .. m * ByteBits - 1} = 0 .. m * ByteBits - 1
<1> DEFINE n == m * ByteBits
<1>1. n \in Nat
  OBVIOUS
<1>2. ASSUME NEW i \in 0 .. n - 1
      PROVE  MaskBit(i) \in 0 .. n - 1 /\ MaskBit(MaskBit(i)) = i
  <2>1. i \in Nat /\ i < n
    BY <1>1
  <2>2. MaskBit(i) \in Nat /\ MaskBit(i) < n /\ MaskBit(MaskBit(i)) = i
    BY <2>1, MaskBitMirror
  <2> QED BY <1>1, <2>2
<1> HIDE DEF n
<1>3. {MaskBit(i) : i \in 0 .. n - 1} = 0 .. n - 1
  BY <1>2, Zenon
<1> QED BY <1>3 DEF n

-----------------------------------------------------------------------------
(* Rules.                                                                   *)

(* Two addresses agree under a mask if they agree in its bits.              *)
LEMMA MatchBits ==
    ASSUME NEW c, NEW n
    PROVE  MatchAddresses(c, n) <=>
              c.fam = n.fam /\ \A k \in n.mask : k \in c.addr <=> k \in n.addr
BY Zenon DEF MatchAddresses

(* A rule with an address matches the range it names, if the range ends     *)
(* with a byte and is no longer than an address.                            *)
LEMMA AddressMeans ==
    ASSUME NEW line \in Line, line.rule.type = "address", WholeBytes(line), WithinWidth(line),
           NEW c, NEW interfaces
    PROVE  MatchAddresses(c, AddressNetwork(line.rule)) <=> Means(line.rule, c, interfaces)
<1> DEFINE r == line.rule
           bits == IF r.bits = NoPrefix THEN Width(r.fam) ELSE r.bits
           network == AddressNetwork(r)
<1>1. r \in Rule /\ r.type = "address"
  BY DEF Line
<1>2. r.fam \in DOMAIN Bytes /\ r.bits \in Int
  BY <1>1 DEF Rule
<1>3. Bytes[r.fam] \in Nat /\ Width(r.fam) \in Nat
  BY <1>2 DEF Width
<1>4. ASSUME bits \in Nat PROVE \E m \in Nat : bits = m * ByteBits
  <2>1. CASE r.bits = NoPrefix
    BY <1>3, <2>1 DEF Width
  <2>2. CASE r.bits # NoPrefix
    <3>1. r.bits \in Nat /\ r.bits % ByteBits = 0
      BY <1>1, <1>2, <1>4, <2>2 DEF WholeBytes
    <3>2. \E m \in Nat : r.bits = m * ByteBits
      BY <3>1, WholeMultiple
    <3> QED BY <2>2, <3>2
  <2> QED BY <2>1, <2>2
<1>5. bits \in Int /\ bits <= Width(r.fam)
  BY <1>1, <1>2, <1>3 DEF WithinWidth
<1>6. network = [fam |-> r.fam, addr |-> r.addr, mask |-> SetMaskBits(r.addr, r.fam, bits)]
  BY DEF AddressNetwork
<1>7. Means(r, c, interfaces) <=> c.fam = r.fam /\ \A i \in 0 .. bits - 1 : i \in c.addr <=> i \in r.addr
  BY <1>1 DEF Means, InRange
<1> HIDE DEF bits, network, r
<1>8. SetMaskBits(r.addr, r.fam, bits) = 0 .. bits - 1
  <2>1. ~(bits > Width(r.fam))
    BY <1>3, <1>5
  <2>2. {MaskBit(i) : i \in 0 .. bits - 1} = 0 .. bits - 1
    <3>1. CASE bits \in Nat
      <4>1. PICK m \in Nat : bits = m * ByteBits
        BY <1>4, <3>1
      <4> QED BY <4>1, MaskOfBytes, Zenon
    <3>2. CASE bits \notin Nat
      <4>1. 0 .. bits - 1 = {}
        BY <1>5, <3>2
      <4> QED BY <4>1, Zenon
    <3> QED BY <3>1, <3>2
  <2> QED BY <2>1, <2>2, Zenon DEF SetMaskBits
<1>9. network.fam = r.fam /\ network.addr = r.addr /\ network.mask = 0 .. bits - 1
  BY <1>6, <1>8
<1>10. MatchAddresses(c, network) <=> Means(r, c, interfaces)
  BY <1>7, <1>9, MatchBits, Zenon
<1> QED BY <1>10 DEF network, r

\* No network was stored as it was found in memory, or it is of no family.
NoGarbage(interfaces, garbage) ==
    garbage.fam \in DOMAIN Bytes => \A i \in interfaces : i.fam \in DOMAIN Bytes

(* A rule for local networks matches the networks of its interfaces.        *)
LEMMA LocalMeans ==
    ASSUME NEW r, r.type = "local", NEW c, c.fam \in DOMAIN Bytes, NEW interfaces, NEW garbage,
           NoGarbage(interfaces, garbage)
    PROVE  (\E n \in LocalNetworks(r.ifname, interfaces, garbage) : MatchAddresses(c, n))
           <=> Means(r, c, interfaces)
<1> DEFINE named == {f \in interfaces : r.ifname \in {"*", f.name}}
           Own(i) == [fam |-> i.fam, addr |-> i.addr, mask |-> i.mask]
           Network(i) == IF i.fam \in DOMAIN Bytes THEN Own(i) ELSE garbage
<1>1. LocalNetworks(r.ifname, interfaces, garbage) = {Network(i) : i \in named}
  BY Zenon DEF LocalNetworks
<1>2. Means(r, c, interfaces) <=>
         \E i \in named : /\ i.fam \in DOMAIN Bytes /\ c.fam = i.fam
                         /\ \A k \in i.mask : k \in c.addr <=> k \in i.addr
  <2>1. Means(r, c, interfaces) <=>
           \E i \in interfaces : /\ i.fam \in DOMAIN Bytes /\ r.ifname \in {"*", i.name}
                                /\ c.fam = i.fam
                                /\ \A k \in i.mask : k \in c.addr <=> k \in i.addr
    BY DEF Means
  <2> QED BY <2>1, Zenon
<1>3. ASSUME NEW i \in named
      PROVE  MatchAddresses(c, Network(i)) <=>
                /\ i.fam \in DOMAIN Bytes /\ c.fam = i.fam
                /\ \A k \in i.mask : k \in c.addr <=> k \in i.addr
  <2>1. CASE i.fam \in DOMAIN Bytes
    <3>1. Network(i) = Own(i)
      BY <2>1, Zenon
    <3>2. Own(i).fam = i.fam /\ Own(i).addr = i.addr /\ Own(i).mask = i.mask
      OBVIOUS
    <3> HIDE DEF Own, Network
    <3> QED BY <2>1, <3>1, <3>2, MatchBits, Zenon
  <2>2. CASE i.fam \notin DOMAIN Bytes
    <3>1. Network(i) = garbage
      BY <2>2, Zenon
    <3>2. garbage.fam \notin DOMAIN Bytes
      BY <2>2, Zenon DEF NoGarbage
    <3>3. ~MatchAddresses(c, garbage)
      BY <3>2, Zenon DEF MatchAddresses
    <3> HIDE DEF Network
    <3> QED BY <2>2, <3>1, <3>3, Zenon
  <2> QED BY <2>1, <2>2
<1> HIDE DEF Network, named
<1> QED BY <1>1, <1>2, <1>3, Zenon

(* A line without errors makes an entry that matches as its rule says.      *)
LEMMA EntryMeans ==
    ASSUME NEW line \in Line, WholeBytes(line), WithinWidth(line),
           NEW c, c.fam \in DOMAIN Bytes, NEW interfaces, NEW garbage,
           NoGarbage(interfaces, garbage),
           Parse(line, interfaces, garbage).networks # {}
    PROVE  /\ Parse(line, interfaces, garbage).kind = line.kind
           /\ (\E n \in Parse(line, interfaces, garbage).networks : MatchAddresses(c, n))
              <=> Means(line.rule, c, interfaces)
<1> DEFINE e == Parse(line, interfaces, garbage)
<1>1. e.kind = line.kind
      /\ e.networks = IF line.kind \in {"allow", "deny"}
                      THEN Networks(line.rule, interfaces, garbage) ELSE {}
  BY DEF Parse
<1>2. e.networks = Networks(line.rule, interfaces, garbage)
  BY <1>1, Zenon
<1> HIDE DEF e
<1>3. line.rule.type \in {"address", "local", "illegal"}
  BY DEF Line, Rule
<1>4. CASE line.rule.type = "address"
  <2>1. Networks(line.rule, interfaces, garbage) = {AddressNetwork(line.rule)}
    BY <1>4 DEF Networks
  <2>2. MatchAddresses(c, AddressNetwork(line.rule)) <=> Means(line.rule, c, interfaces)
    BY <1>4, AddressMeans
  <2>3. (\E n \in e.networks : MatchAddresses(c, n)) <=> Means(line.rule, c, interfaces)
    BY <1>2, <2>1, <2>2, Zenon
  <2> QED BY <1>1, <2>3, Zenon DEF e
<1>5. CASE line.rule.type = "local"
  <2>1. Networks(line.rule, interfaces, garbage) = LocalNetworks(line.rule.ifname, interfaces, garbage)
    BY <1>5 DEF Networks
  <2>2. (\E n \in LocalNetworks(line.rule.ifname, interfaces, garbage) : MatchAddresses(c, n))
        <=> Means(line.rule, c, interfaces)
    <3> DEFINE r == line.rule
    <3>1. r.type = "local"
      BY <1>5
    <3> HIDE DEF r
    <3>2. (\E n \in LocalNetworks(r.ifname, interfaces, garbage) : MatchAddresses(c, n))
          <=> Means(r, c, interfaces)
      BY <3>1, LocalMeans
    <3> QED BY <3>2 DEF r
  <2>3. (\E n \in e.networks : MatchAddresses(c, n)) <=> Means(line.rule, c, interfaces)
    BY <1>2, <2>1, <2>2, Zenon
  <2> QED BY <1>1, <2>3, Zenon DEF e
<1>6. CASE line.rule.type = "illegal"
  <2>1. Networks(line.rule, interfaces, garbage) = {}
    BY <1>6 DEF Networks
  <2> QED BY <1>2, <2>1, Zenon DEF e
<1> QED BY <1>3, <1>4, <1>5, <1>6

(* The first of some lines.                                                 *)
LEMMA FirstLeast ==
    ASSUME NEW is, is \subseteq Nat, is # {}
    PROVE  First(is) \in is /\ \A j \in is : First(is) <= j
<1>1. \E i \in is : \A j \in is : i <= j
  BY LeastMember
<1> QED BY <1>1, Zenon DEF First

(* What isAllowed answers for a file that was read without errors is what   *)
(* the comments of access.conf say.                                         *)
LEMMA DecisionDocumented ==
    ASSUME NEW lines \in Seq(Line), NEW c, c.fam \in DOMAIN Bytes, NEW interfaces, NEW garbage,
           NoGarbage(interfaces, garbage), Errors(lines, interfaces, garbage) = {},
           \A i \in DOMAIN lines : WholeBytes(lines[i]) /\ WithinWidth(lines[i])
    PROVE  IsAllowed(ReadFile(lines, interfaces, garbage), c) <=> Documented(lines, c, interfaces)
<1> DEFINE Entry(i) == Parse(lines[i], interfaces, garbage)
           es == [i \in DOMAIN lines |-> Entry(i)]
           is == {i \in DOMAIN lines : Means(lines[i].rule, c, interfaces)}
<1>1. DOMAIN lines = 1 .. Len(lines) /\ Len(lines) \in Nat /\ \A i \in DOMAIN lines : lines[i] \in Line
  OBVIOUS
<1>2. es \in Seq({Entry(i) : i \in DOMAIN lines}) /\ Len(es) = Len(lines) /\ DOMAIN es = DOMAIN lines
  <2> HIDE DEF Entry
  <2> QED BY <1>1
<1>3. \A i \in DOMAIN lines : es[i] = Entry(i)
  BY Zenon
<1>4. ReadFile(lines, interfaces, garbage) = es
  <2>1. 1 .. Len(es) \subseteq DOMAIN lines \ Errors(lines, interfaces, garbage)
    <3> HIDE DEF es
    <3> QED BY <1>1, <1>2
  <2>2. Pick(es, DOMAIN lines \ Errors(lines, interfaces, garbage)) = es
    <3> HIDE DEF es
    <3> QED BY <1>2, <2>1, PickAll
  <2> QED BY <2>2, Zenon DEF ReadFile
<1>5. ASSUME NEW i \in DOMAIN lines
      PROVE  /\ es[i].kind = lines[i].kind
             /\ (\E n \in es[i].networks : MatchAddresses(c, n))
                <=> Means(lines[i].rule, c, interfaces)
  <2>1. Entry(i).networks # {}
    BY DEF Errors
  <2>2. lines[i] \in Line /\ WholeBytes(lines[i]) /\ WithinWidth(lines[i])
    BY <1>1
  <2>3. es[i] = Entry(i)
    BY <1>3
  <2> HIDE DEF es
  <2> QED BY <2>1, <2>2, <2>3, EntryMeans
<1>6. es = <<>> <=> lines = <<>>
  <2> HIDE DEF es
  <2> QED BY <1>1, <1>2
<1> HIDE DEF es
<1>7. Matching(es, c) = is
  BY <1>2, <1>5, Zenon DEF Matching
<1>8. is \subseteq Nat
  BY <1>1
<1>9. is # {} /\ es[First(is)].kind = "allow"
      <=> \E i \in is : lines[i].kind = "allow" /\ \A j \in is : i <= j
  <2>1. ASSUME is # {}
        PROVE  First(is) \in is /\ \A j \in is : First(is) <= j
    <3> HIDE DEF is
    <3> QED BY <1>8, <2>1, FirstLeast
  <2>2. ASSUME NEW i \in is, \A j \in is : i <= j
        PROVE  First(is) = i
    <3>1. First(is) \in is /\ First(is) <= i
      BY <2>1
    <3>2. i <= First(is)
      BY <2>2, <3>1
    <3>3. i \in Nat /\ First(is) \in Nat
      BY <1>8, <3>1
    <3> QED BY <3>1, <3>2, <3>3
  <2>3. \A i \in is : es[i].kind = lines[i].kind
    BY <1>5
  <2> HIDE DEF is
  <2> QED BY <2>1, <2>2, <2>3, Zenon
<1>10. Documented(lines, c, interfaces) <=>
          lines = <<>> \/ \E i \in is : lines[i].kind = "allow" /\ \A j \in is : i <= j
  BY Zenon DEF Documented
<1>11. IsAllowed(es, c) <=> es = <<>> \/ (is # {} /\ es[First(is)].kind = "allow")
  BY <1>7, Zenon DEF IsAllowed
<1> HIDE DEF is
<1> QED BY <1>4, <1>6, <1>9, <1>10, <1>11, Zenon

-----------------------------------------------------------------------------
(* The access decision.                                                     *)

\* The entries in use are those of the file, which had no errors, and the
\* decision was made by them.
Decision ==
    /\ setup \in Setups
    /\ pc \notin {"access", "ended"} /\ ~setup.unixSocket =>
          /\ Errors(setup.access, setup.interfaces, setup.garbage) = {}
          /\ entries = ReadFile(setup.access, setup.interfaces, setup.garbage)
    /\ Decided => client \in setup.clients /\ (pc = "request" <=> IsAllowed(entries, client))

(* Every step of a connection keeps it.                                     *)
LEMMA DecisionInductive == Decision /\ [Next]_vars => Decision'
<1> SUFFICES ASSUME Decision, [Next]_vars
             PROVE  Decision'
  OBVIOUS
<1>1. CASE ReadAccessFile
  BY <1>1 DEF ReadAccessFile, Decision, Decided
<1>2. CASE InitScanner
  BY <1>2 DEF InitScanner, Decision, Decided
<1>3. CASE \E c \in setup.clients : HandleRequest(c)
  BY <1>3 DEF HandleRequest, Decision, Decided
<1>4. CASE \E t, b : CreateJob(t, b)
  BY <1>4 DEF CreateJob, Decision, Decided
<1>5. CASE BeginTransfer \/ FinishTransfer
  BY <1>5 DEF BeginTransfer, FinishTransfer, Decision, Decided
<1>6. CASE UNCHANGED vars
  BY <1>6 DEF vars, Decision, Decided
<1> QED BY <1>1, <1>2, <1>3, <1>4, <1>5, <1>6 DEF Next

(* AccessDecision: handleRequest lets in the clients that access.conf       *)
(* documents, whatever the file, as long as its ranges end with a byte and  *)
(* lie within an address and no network was stored uninitialised.           *)
THEOREM AccessDecisionHolds == Spec => []AccessDecision
<1>1. Init => Decision
  BY DEF Init, Decision, Decided
<1>2. Decision => AccessDecision
  <2> SUFFICES ASSUME Decision, Decided, ~setup.unixSocket, ~GarbageUsed,
                      \A i \in DOMAIN setup.access :
                         WholeBytes(setup.access[i]) /\ WithinWidth(setup.access[i])
               PROVE  pc = "request" <=> Documented(setup.access, client, setup.interfaces)
    BY DEF AccessDecision
  <2>1. pc \notin {"access", "ended"}
    BY DEF Decided
  <2>2. /\ Errors(setup.access, setup.interfaces, setup.garbage) = {}
        /\ entries = ReadFile(setup.access, setup.interfaces, setup.garbage)
    BY <2>1 DEF Decision
  <2>3. client \in setup.clients /\ (pc = "request" <=> IsAllowed(entries, client))
    BY DEF Decision
  <2>4. setup.access \in Seq(Line) /\ client.fam \in DOMAIN Bytes
    BY <2>3, SetupsAssumption DEF Decision
  <2>5. NoGarbage(setup.interfaces, setup.garbage)
    BY Zenon DEF GarbageUsed, NoGarbage
  <2>6. IsAllowed(ReadFile(setup.access, setup.interfaces, setup.garbage), client)
        <=> Documented(setup.access, client, setup.interfaces)
    BY <2>2, <2>4, <2>5, DecisionDocumented
  <2> QED BY <2>2, <2>3, <2>6, Zenon
<1> QED BY <1>1, <1>2, DecisionInductive, PTL DEF Spec

-----------------------------------------------------------------------------
(* Resolutions.                                                             *)

USE ResolutionsAssumption

(* The resolutions that the loop tries: each is twice the one before.       *)
LEMMA DpiDefined ==
    /\ Dpi[0] = BaseDpi
    /\ \A n \in 1 .. MaxDoublings : Dpi[n] = 2 * Dpi[n - 1]
<1> DEFINE V == Nat
           F == [p \in (1 .. MaxDoublings) \X V |-> 2 * p[2]]
           step(f) == [k \in 0 .. MaxDoublings |-> IF k = 0 THEN BaseDpi ELSE 2 * f[k - 1]]
<1>1. F \in [(1 .. MaxDoublings) \X V -> V]
  OBVIOUS
<1>2. PICK g \in [0 .. MaxDoublings -> V] : Iterates(g, BaseDpi, F, MaxDoublings)
  <2> HIDE DEF F
  <2> QED BY <1>1, IterationExists
<1>3. g = step(g)
  <2>1. ASSUME NEW k \in 0 .. MaxDoublings
        PROVE  g[k] = IF k = 0 THEN BaseDpi ELSE 2 * g[k - 1]
    <3>1. CASE k = 0
      BY <1>2, <3>1 DEF Iterates
    <3>2. CASE k # 0
      <4>1. k \in 1 .. MaxDoublings /\ k - 1 \in 0 .. MaxDoublings
        BY <3>2
      <4>2. g[k - 1] \in V
        BY <4>1
      <4>3. F[<<k, g[k - 1]>>] = 2 * g[k - 1]
        BY <4>1, <4>2
      <4>4. g[k] = F[<<k, g[k - 1]>>]
        BY <1>2, <4>1 DEF Iterates
      <4> QED BY <3>2, <4>3, <4>4
    <3> QED BY <3>1, <3>2
  <2> QED BY <2>1
<1>4. Dpi = step(Dpi)
  <2>1. Dpi = CHOOSE f : f = step(f)
    BY Zenon DEF Dpi
  <2> HIDE DEF step
  <2> QED BY <1>3, <2>1
<1>5. \A k \in 0 .. MaxDoublings : step(Dpi)[k] = IF k = 0 THEN BaseDpi ELSE 2 * Dpi[k - 1]
  OBVIOUS
<1> HIDE DEF step
<1>6. \A k \in 0 .. MaxDoublings : Dpi[k] = IF k = 0 THEN BaseDpi ELSE 2 * Dpi[k - 1]
  BY <1>4, <1>5
<1> QED BY <1>6

(* They are positive, and rise.                                             *)
LEMMA DpiRises ==
    \A k \in 0 .. MaxDoublings : Dpi[k] \in Nat \ {0} /\ \A i \in 0 .. k : Dpi[i] <= Dpi[k]
<1> DEFINE done == {k \in 0 .. MaxDoublings : \A i \in 0 .. k : Dpi[i] \in Nat \ {0} /\ Dpi[i] <= Dpi[k]}
<1>1. 0 \in done
  BY DpiDefined
<1>2. ASSUME NEW n \in 1 .. MaxDoublings, n - 1 \in done
      PROVE  n \in done
  <2>1. \A i \in 0 .. n - 1 : Dpi[i] \in Nat \ {0} /\ Dpi[i] <= Dpi[n - 1]
    BY <1>2
  <2>2. Dpi[n] = 2 * Dpi[n - 1] /\ Dpi[n - 1] \in Nat \ {0}
    BY <2>1, DpiDefined
  <2>3. Dpi[n] \in Nat \ {0} /\ Dpi[n - 1] <= Dpi[n] /\ Dpi[n] <= Dpi[n]
    BY <2>2
  <2>4. ASSUME NEW i \in 0 .. n PROVE Dpi[i] \in Nat \ {0} /\ Dpi[i] <= Dpi[n]
    <3>1. CASE i = n
      BY <2>3, <3>1
    <3>2. CASE i # n
      <4>1. i \in 0 .. n - 1
        BY <3>2
      <4>2. Dpi[i] \in Nat \ {0} /\ Dpi[i] <= Dpi[n - 1]
        BY <2>1, <4>1
      <4> QED BY <2>2, <2>3, <4>2
    <3> QED BY <3>1, <3>2
  <2> QED BY <2>4
<1>3. \A k \in 0 .. MaxDoublings : k \in done
  <2> HIDE DEF done
  <2> QED BY <1>1, <1>2, UpTo
<1>4. \A k \in 0 .. MaxDoublings : k \in 0 .. k
  OBVIOUS
<1> QED BY <1>3, <1>4

\* r is on the grid, not above v and less than a step below it.
Below(r, v, min, step) ==
    r \in Int /\ r <= v /\ v < r + step /\ (r - min) % step = 0 /\ (min <= v => min <= r)

(* Rounding goes down to the grid, by less than a step.                     *)
LEMMA RoundedDown ==
    ASSUME NEW v \in Nat, NEW min \in Nat, NEW step \in Nat \ {0}
    PROVE  Below(RoundToNearestStep(v, min, step), v, min, step)
<1> DEFINE r == RoundToNearestStep(v, min, step)
           d == v - min
           q == d \div step
<1>1. d \in Int /\ q \in Int /\ d = q * step + (d % step) /\ d % step \in 0 .. step - 1
  OBVIOUS
<1>2. r = min + q * step
  BY DEF RoundToNearestStep
<1>3. min <= v => q \in Nat
  OBVIOUS
<1> HIDE DEF q, r
<1>4. q * step \in Int /\ (q \in Nat => q * step >= 0)
  BY <1>1
<1>5. (q * step) % step = 0
  BY <1>1
<1>6. r - min = q * step
  BY <1>2, <1>4
<1>7. Below(r, v, min, step)
  BY <1>1, <1>2, <1>3, <1>4, <1>5, <1>6 DEF Below
<1> QED BY <1>7 DEF r

\* The candidates, by place.
Places(rs, min, step, last) ==
    /\ rs \in Seq(Int) /\ Len(rs) = MaxDoublings + 2
    /\ rs[1] = min /\ rs[MaxDoublings + 2] = last
    /\ \A n \in 2 .. MaxDoublings + 1 :
          Dpi[n - 2] \in Nat /\ Below(rs[n], Dpi[n - 2], min, step)

(* They are rounded down.                                                   *)
LEMMA CandidatesByPlace ==
    ASSUME NEW min \in Nat, NEW step \in Nat \ {0}, NEW last \in Int
    PROVE  Places(Candidates(min, step, last), min, step, last)
<1> DEFINE r2(n) == RoundToNearestStep(Dpi[n - 1], min, step)
           mid == [n \in 1 .. MaxDoublings |-> r2(n)]
           rs == Candidates(min, step, last)
<1>1. ASSUME NEW n \in 1 .. MaxDoublings
      PROVE  Dpi[n - 1] \in Nat /\ Below(r2(n), Dpi[n - 1], min, step)
  <2>1. n - 1 \in 0 .. MaxDoublings
    OBVIOUS
  <2>2. Dpi[n - 1] \in Nat
    BY <2>1, DpiRises
  <2> QED BY ONLY <2>2, RoundedDown, min \in Nat, step \in Nat \ {0}
<1>2. rs = <<min>> \o mid \o <<last>>
  BY DEF Candidates
<1> HIDE DEF r2, rs
<1>3. \A n \in 1 .. MaxDoublings : r2(n) \in Int
  BY <1>1 DEF Below
<1>4. mid \in Seq(Int) /\ Len(mid) = MaxDoublings /\ \A n \in 1 .. MaxDoublings : mid[n] = r2(n)
  BY <1>3
<1> HIDE DEF mid
<1> DEFINE head == <<min>> \o mid
<1>5. /\ head \in Seq(Int) /\ Len(head) = MaxDoublings + 1 /\ head[1] = min
      /\ \A n \in 2 .. MaxDoublings + 1 : head[n] = mid[n - 1]
  BY <1>4
<1>6. rs = head \o <<last>>
  BY <1>2
<1> HIDE DEF head
<1>7. /\ rs \in Seq(Int) /\ Len(rs) = MaxDoublings + 2 /\ rs[MaxDoublings + 2] = last
      /\ \A n \in 1 .. MaxDoublings + 1 : rs[n] = head[n]
  BY <1>5, <1>6
<1>8. rs[1] = min
  BY <1>5, <1>7
<1>9. ASSUME NEW n \in 2 .. MaxDoublings + 1
      PROVE  Dpi[n - 2] \in Nat /\ Below(rs[n], Dpi[n - 2], min, step)
  <2>1. n \in 1 .. MaxDoublings + 1 /\ n - 1 \in 1 .. MaxDoublings /\ (n - 1) - 1 = n - 2
    OBVIOUS
  <2>2. rs[n] = r2(n - 1)
    BY <1>4, <1>5, <1>7, <2>1
  <2>3. Dpi[(n - 1) - 1] \in Nat /\ Below(r2(n - 1), Dpi[(n - 1) - 1], min, step)
    BY <1>1, <2>1
  <2> QED BY ONLY <2>1, <2>2, <2>3
<1>10. Places(rs, min, step, last)
  BY ONLY <1>7, <1>8, <1>9 DEF Places
<1> QED BY <1>10 DEF rs

(* For every candidate that is tried, one at least as large is pushed, not  *)
(* after it.                                                                *)
LEMMA PushedCovers ==
    ASSUME NEW rs \in Seq(Int), NEW max \in Int, NEW k \in Tried(rs, max)
    PROVE  \E n \in Pushed(rs, max) : n <= k /\ rs[k] <= rs[n]
<1> DEFINE T == Tried(rs, max)
           as == {n \in T : n <= k /\ rs[k] <= rs[n]}
<1>1. T \subseteq 1 .. Len(rs) /\ Len(rs) \in Nat /\ \A n \in 1 .. Len(rs) : rs[n] \in Int
  BY DEF Tried
<1> HIDE DEF T
<1>2. k \in T
  BY DEF T
<1>3. as \subseteq Nat /\ as # {}
  <2>1. k \in 1 .. Len(rs) /\ rs[k] \in Int
    BY <1>1, <1>2
  <2>2. k \in as
    BY <1>2, <2>1
  <2>3. as \subseteq T
    OBVIOUS
  <2>4. T \subseteq Nat
    BY <1>1
  <2> HIDE DEF as
  <2> QED BY <2>2, <2>3, <2>4
<1>4. PICK n \in as : \A i \in as : n <= i
  <2> HIDE DEF as
  <2> QED BY <1>3, LeastMember
<1>5. ASSUME NEW i \in T, i < n PROVE rs[i] < rs[n]
  <2>1. i \in 1 .. Len(rs) /\ n \in 1 .. Len(rs) /\ k \in 1 .. Len(rs)
    BY <1>1, <1>2, <1>4
  <2>2. i \notin as
    <3>1. ~(n <= i)
      BY <1>5, <2>1
    <3> HIDE DEF as
    <3> QED BY ONLY <1>4, <3>1
  <2>3. ~(rs[k] <= rs[i])
    BY <1>4, <1>5, <2>1, <2>2
  <2>4. rs[i] \in Int /\ rs[k] \in Int /\ rs[n] \in Int
    BY <1>1, <2>1
  <2> QED BY <1>4, <2>3, <2>4
<1>6. n \in Pushed(rs, max)
  BY <1>4, <1>5 DEF Pushed, T
<1> QED BY <1>4, <1>6

\* The device takes v, or something less than a step below it, of rs.
Near(rs, v, step) == \E i \in DOMAIN rs : rs[i] <= v /\ v < rs[i] + step

Step(quant) == IF quant < 1 THEN 1 ELSE quant

\* The resolutions p ascend from min, lie on the grid, and are near to max and
\* to each of those that the loop tries.
Spread(p, min, max, step) ==
    /\ p \in Seq(Int) /\ Len(p) >= 1 /\ p[1] = min
    /\ \A i \in 1 .. Len(p) : min <= p[i] /\ p[i] <= max /\ (p[i] - min) % step = 0
    /\ \A i, j \in 1 .. Len(p) : i < j => p[i] < p[j]
    /\ Near(p, max, step)
    /\ \A k \in 0 .. MaxDoublings - 1 : Dpi[k] \in min .. max => Near(p, Dpi[k], step)

(* What discretizeResolutions returns.                                      *)
LEMMA Discretized ==
    ASSUME NEW min \in Nat \ {0}, NEW max \in Nat, min <= max, NEW quant \in Nat
    PROVE  Spread(DiscretizeResolutions(min, max, quant), min, max, Step(quant))
<1> DEFINE step == Step(quant)
           p == DiscretizeResolutions(min, max, quant)
           last == RoundToNearestStep(max, min, step)
           rs == Candidates(min, step, last)
           L == MaxDoublings + 2
           T == Tried(rs, max)
           P == Pushed(rs, max)
<1>1. step \in Nat \ {0} /\ p = Pick(rs, P)
  BY DEF DiscretizeResolutions, Step
<1> HIDE DEF step, p
<1>2. last \in Int /\ last <= max /\ max < last + step /\ (last - min) % step = 0 /\ min <= last
  <2>1. Below(last, max, min, step)
    BY <1>1, RoundedDown
  <2> QED BY <2>1 DEF Below
<1> HIDE DEF last
<1>3. rs \in Seq(Int) /\ Len(rs) = L /\ rs[1] = min /\ rs[L] = last
      /\ \A n \in 2 .. MaxDoublings + 1 : Dpi[n - 2] \in Nat /\ Below(rs[n], Dpi[n - 2], min, step)
  <2>1. Places(rs, min, step, last)
    BY ONLY <1>1, <1>2, CandidatesByPlace, min \in Nat \ {0}
  <2> HIDE DEF rs
  <2> QED BY <2>1 DEF Places
<1> HIDE DEF rs
<1>4. DOMAIN rs = 1 .. L /\ L \in Nat /\ \A n \in 1 .. L : rs[n] \in Int
  BY <1>3
<1>5. ASSUME NEW n \in 2 .. MaxDoublings + 1
      PROVE  /\ rs[n] \in Int /\ rs[n] <= Dpi[n - 2] /\ Dpi[n - 2] < rs[n] + step
             /\ (rs[n] - min) % step = 0 /\ Dpi[n - 2] \in Nat
  <2>1. Dpi[n - 2] \in Nat /\ Below(rs[n], Dpi[n - 2], min, step)
    BY ONLY <1>3, <1>5
  <2> QED BY ONLY <2>1 DEF Below
<1>6. \A n \in 1 .. L : n \in T <=> n = L \/ \A i \in 2 .. n : rs[i] <= max
  BY <1>3, <1>4 DEF Tried
<1>7. \A n \in 1 .. L : n \in P <=> n \in T /\ \A i \in T : i < n => rs[i] < rs[n]
  BY DEF Pushed
<1>8. T \subseteq 1 .. L /\ P \subseteq T
  BY <1>4 DEF Tried, Pushed
<1>9. ASSUME NEW k \in T
      PROVE  \E n \in P : n <= k /\ rs[k] <= rs[n]
  BY ONLY <1>3, <1>9, PushedCovers, max \in Nat
<1> HIDE DEF T, P, L
<1>10. p \in Seq(Int) /\ Ascends(p, rs, P, L)
  <2>1. \A i, j \in 1 .. Len(rs) : i \in P /\ j \in P /\ i < j => rs[i] < rs[j]
    BY <1>3, <1>7, <1>8
  <2> QED BY <1>1, <1>3, <2>1, PickAscends
<1>11. /\ \A i \in 1 .. Len(p) : \E n \in 1 .. L : n \in P /\ p[i] = rs[n]
       /\ \A n \in 1 .. L : n \in P => \E i \in 1 .. Len(p) : p[i] = rs[n]
       /\ \A i, j \in 1 .. Len(p) : i < j => p[i] < p[j]
  BY <1>10 DEF Ascends
<1>12. 1 \in 1 .. L /\ 1 \in T /\ L \in 1 .. L /\ L \in T
  BY <1>4, <1>6 DEF L
<1>13. \A n \in 1 .. L : n = 1 \/ n = L \/ n \in 2 .. MaxDoublings + 1
  BY DEF L
<1>14. ASSUME NEW n \in P
       PROVE  n \in 1 .. L /\ rs[n] \in Int /\ min <= rs[n] /\ rs[n] <= max /\ (rs[n] - min) % step = 0
  <2>1. n \in 1 .. L /\ n \in T /\ rs[n] \in Int
    BY <1>4, <1>8
  <2>2. CASE n = 1
    BY <1>1, <1>3, <2>1, <2>2
  <2>3. CASE n = L
    BY <1>2, <1>3, <2>1, <2>3
  <2>4. CASE n # 1 /\ n # L
    <3>1. n \in 2 .. MaxDoublings + 1
      BY <1>13, <2>1, <2>4
    <3>2. rs[n] <= max
      <4>1. n \in 2 .. n
        BY <3>1
      <4> QED BY <1>6, <2>1, <2>4, <4>1
    <3>3. min < rs[n]
      <4>1. 1 < n
        BY <3>1
      <4> QED BY <1>3, <1>7, <1>12, <2>1, <4>1
    <3>4. (rs[n] - min) % step = 0
      BY <1>5, <3>1
    <3> QED BY <2>1, <3>2, <3>3, <3>4
  <2> QED BY <2>2, <2>3, <2>4
<1>15. ASSUME NEW i \in 1 .. Len(p)
       PROVE  p[i] \in Int /\ min <= p[i] /\ p[i] <= max /\ (p[i] - min) % step = 0
  <2>1. PICK n \in 1 .. L : n \in P /\ p[i] = rs[n]
    BY <1>11
  <2> QED BY <1>14, <2>1
<1>16. \A n \in P : \E i \in 1 .. Len(p) : p[i] = rs[n]
  BY <1>11, <1>14
<1>17. Len(p) \in Nat /\ DOMAIN p = 1 .. Len(p)
  BY <1>10
<1>18. 1 \in P
  <2>1. \A i \in T : ~(i < 1)
    BY <1>8
  <2> QED BY <1>7, <1>12, <2>1
<1>19. Len(p) >= 1 /\ p[1] = min
  <2>1. PICK i \in 1 .. Len(p) : p[i] = min
    BY <1>3, <1>16, <1>18
  <2>2. 1 \in 1 .. Len(p) /\ Len(p) >= 1
    BY <1>17, <2>1
  <2>3. p[1] \in Int /\ min <= p[1]
    BY <1>15, <2>2
  <2>4. CASE i = 1
    BY <2>1, <2>2, <2>4
  <2>5. CASE i # 1
    <3>1. 1 < i
      BY <2>5
    <3>2. p[1] < p[i]
      BY <1>11, <2>1, <2>2, <3>1
    <3> QED BY <2>1, <2>3, <3>2
  <2> QED BY <2>4, <2>5
<1>20. Near(p, max, step)
  <2>1. PICK n \in P : n <= L /\ rs[L] <= rs[n]
    BY <1>9, <1>12
  <2>2. PICK i \in 1 .. Len(p) : p[i] = rs[n]
    BY <1>16, <2>1
  <2>3. p[i] <= max /\ max < p[i] + step
    BY <1>1, <1>2, <1>3, <1>14, <2>1, <2>2
  <2> QED BY <1>17, <2>3 DEF Near
<1>21. ASSUME NEW k \in 0 .. MaxDoublings - 1, Dpi[k] \in min .. max
       PROVE  Near(p, Dpi[k], step)
  <2> DEFINE m == k + 2
  <2>1. m \in 2 .. MaxDoublings + 1 /\ m - 2 = k /\ m \in 1 .. L /\ m # L /\ k \in 0 .. MaxDoublings
    BY DEF L
  <2> HIDE DEF m
  <2>2. rs[m] \in Int /\ rs[m] <= Dpi[k] /\ Dpi[k] < rs[m] + step /\ Dpi[k] \in Nat
    BY <1>5, <2>1
  <2>3. ASSUME NEW i \in 2 .. m PROVE rs[i] \in Int /\ rs[i] <= Dpi[k]
    <3>1. i \in 2 .. MaxDoublings + 1 /\ i - 2 \in 0 .. k
      BY <2>1
    <3>2. rs[i] \in Int /\ rs[i] <= Dpi[i - 2] /\ Dpi[i - 2] \in Nat
      BY <1>5, <3>1
    <3>3. Dpi[i - 2] <= Dpi[k]
      BY <2>1, <3>1, DpiRises
    <3> QED BY <2>2, <3>2, <3>3
  <2>4. m \in T
    <3>1. \A i \in 2 .. m : rs[i] <= max
      BY <1>21, <2>3
    <3> QED BY <1>6, <2>1, <3>1
  <2>5. PICK n \in P : n <= m /\ rs[m] <= rs[n]
    BY <1>9, <2>4
  <2>6. rs[n] <= Dpi[k]
    <3>1. n \in 1 .. L
      BY <1>14
    <3>2. CASE n = 1
      BY <1>3, <1>21, <3>2
    <3>3. CASE n # 1
      <4>1. n \in 2 .. m
        BY <2>1, <2>5, <3>1, <3>3
      <4> QED BY <2>3, <4>1
    <3> QED BY <3>2, <3>3
  <2>7. PICK i \in 1 .. Len(p) : p[i] = rs[n]
    BY <1>16, <2>5
  <2>8. p[i] <= Dpi[k] /\ Dpi[k] < p[i] + step
    <3>1. rs[n] \in Int /\ step \in Int
      BY <1>1, <1>14
    <3>2. Dpi[k] < rs[n] + step
      BY ONLY <2>2, <2>5, <3>1
    <3> QED BY ONLY <2>6, <2>7, <3>2
  <2> QED BY <1>17, <2>8 DEF Near
<1>22. Spread(p, min, max, step)
  BY ONLY <1>10, <1>11, <1>15, <1>19, <1>20, <1>21 DEF Spread
<1> QED BY <1>22 DEF p, step

(* Every resolution that is offered is one the device takes.                *)
LEMMA OfferedAccepted ==
    ASSUME NEW c, ResConstraint(c), NEW r \in ToSet(DiscreteResolutions(c))
    PROVE  Accepts(c, r) /\ r \in Nat \ {0}
<1> DEFINE rs == DiscreteResolutions(c)
<1>1. CASE c.type = "list"
  <2>1. rs = c.values /\ c.values \in Seq(Nat \ {0})
    BY <1>1 DEF DiscreteResolutions, AllowedNumericValues, ResConstraint
  <2>2. PICK i \in DOMAIN rs : r = rs[i]
    BY DEF ToSet
  <2>3. r \in ToSet(c.values)
    BY <2>1
  <2> HIDE DEF rs
  <2>4. r \in Nat \ {0}
    BY <2>1, <2>2
  <2> QED BY <1>1, <2>3, <2>4 DEF Accepts
<1>2. CASE c.type = "range"
  <2> DEFINE step == Step(c.quant)
  <2>1. c.min \in Nat \ {0} /\ c.max \in Nat /\ c.min <= c.max /\ c.quant \in Nat
    BY <1>2 DEF ResConstraint
  <2>2. rs = DiscretizeResolutions(c.min, c.max, c.quant)
    BY <1>2 DEF DiscreteResolutions, AllowedNumericValues, MinOf, MaxOf, Quant
  <2>3. PICK i \in DOMAIN rs : r = rs[i]
    BY DEF ToSet
  <2> HIDE DEF rs
  <2>4. /\ rs \in Seq(Int)
        /\ \A k \in 1 .. Len(rs) : c.min <= rs[k] /\ rs[k] <= c.max /\ (rs[k] - c.min) % step = 0
    <3>1. Spread(rs, c.min, c.max, step)
      BY ONLY <2>1, <2>2, Discretized
    <3> QED BY <3>1 DEF Spread
  <2>5. r \in Int /\ c.min <= r /\ r <= c.max /\ (r - c.min) % step = 0
    BY <2>3, <2>4
  <2>6. c.quant > 0 => step = c.quant
    BY <2>1 DEF Step
  <2> HIDE DEF step
  <2>7. c.quant > 0 => (r - c.min) % c.quant = 0
    BY <2>5, <2>6
  <2>8. r \in Nat \ {0}
    BY <2>1, <2>5
  <2> QED BY <1>2, <2>5, <2>7, <2>8 DEF Accepts
<1> QED BY <1>1, <1>2 DEF ResConstraint

-----------------------------------------------------------------------------
(* What init2 makes of a device, field by field.                            *)

Modes(dev) ==
    LET listed == AllowedStringValues(dev, "mode")
    IN IF listed = <<>> THEN <<"Gray", "Color">> ELSE listed
Gray(dev) ==
    IF FindGrayName(Modes(dev)) = "" /\ FindColorName(Modes(dev)) = ""
    THEN "Gray" ELSE FindGrayName(Modes(dev))
Listing(dev) == AllowedStringValues(dev, "source")
Simplex(dev) == FindAdfSimplexName(Listing(dev))
Duplex(dev) == FindAdfDuplexName(Listing(dev))
Flatbed(dev) ==
    IF FindFlatbedName(Listing(dev)) = "" /\ Simplex(dev) = "" /\ Duplex(dev) = ""
    THEN "-" ELSE FindFlatbedName(Listing(dev))
Cur0(dev, options) == ApplyOptions(dev, dev.defaults, options.sane_options)
Cur1(dev, options) == WithSource(dev, Cur0(dev, options), Flatbed(dev))
Cur2(dev, options) == WithSource(dev, Cur1(dev, options), Simplex(dev))
Cur3(dev, options) == WithSource(dev, Cur2(dev, options), Duplex(dev))
SourceOf(dev, name, cur0) == IF name = "" THEN NoSource ELSE InitSource(dev, cur0)

(* The fields are these.                                                    *)
LEMMA InitFields ==
    ASSUME NEW dev, NEW options
    PROVE  Init2(dev, options) =
             [platen |-> SourceOf(dev, Flatbed(dev), Cur1(dev, options)),
              adfSimplex |-> SourceOf(dev, Simplex(dev), Cur2(dev, options)),
              adfDuplex |-> SourceOf(dev, Duplex(dev), Cur3(dev, options)),
              inputSources |-> (IF Flatbed(dev) = "" THEN {} ELSE {"Platen"})
                               \cup (IF Simplex(dev) = "" /\ Duplex(dev) = "" THEN {} ELSE {"Feeder"}),
              gray |-> Gray(dev), color |-> FindColorName(Modes(dev)),
              colorSpaces |-> (IF Gray(dev) = "" THEN {} ELSE {"grayscale"})
                              \cup (IF FindColorName(Modes(dev)) = "" THEN {} ELSE {"color"}),
              resolutions |-> DiscreteResolutions(dev.res),
              minRes |-> MinOf(dev.res), maxRes |-> MaxOf(dev.res),
              options |-> options]
BY Zenon DEF Init2, Modes, Gray, Listing, Simplex, Duplex, Flatbed, Cur0, Cur1, Cur2, Cur3, SourceOf

\* What the server has made of its device.
TheScanner == Init2(setup.device, ScannerOptions(setup.options))

\* A scanner in the list is one that was initialised without an error.
Listed ==
    /\ setup \in Setups
    /\ scanner.listed => /\ "resolution" \in setup.device.has
                         /\ scanner.data = TheScanner

(* Every step keeps it.                                                     *)
LEMMA ListedInductive == Listed /\ [Next]_vars => Listed'
<1> SUFFICES ASSUME Listed, [Next]_vars
             PROVE  Listed'
  OBVIOUS
<1>1. CASE InitScanner
  <2>1. setup' = setup
    BY <1>1 DEF InitScanner
  <2>2. CASE UNCHANGED scanner
    BY <2>1, <2>2 DEF Listed, TheScanner
  <2>3. CASE scanner' # scanner
    <3>1. /\ "resolution" \in setup.device.has
          /\ scanner' = [listed |-> TRUE, data |-> TheScanner]
      BY <1>1, <2>3, Zenon DEF InitScanner, TheScanner
    <3>2. TheScanner' = TheScanner
      BY <2>1 DEF TheScanner
    <3> QED BY <2>1, <3>1, <3>2 DEF Listed
  <2> QED BY <2>2, <2>3
<1>2. CASE UNCHANGED <<setup, scanner>>
  BY <1>2 DEF Listed, TheScanner
<1>3. InitScanner \/ UNCHANGED <<setup, scanner>>
  BY DEF Next, vars, ReadAccessFile, HandleRequest, CreateJob, BeginTransfer, FinishTransfer
<1> QED BY <1>1, <1>2, <1>3

(* It holds.                                                                *)
LEMMA ListedHolds == Spec => []Listed
<1>1. Init => Listed
  BY DEF Init, Listed, NoScanner
<1> QED BY <1>1, ListedInductive, PTL DEF Spec

(* ResolutionsOffered: what discretizeResolutions makes of any range, and    *)
(* any list of resolutions, can be set on the device; of a range the         *)
(* resolutions ascend from the smallest to the largest that is possible and  *)
(* miss no doubling of 75 dpi by a step or more.                             *)
THEOREM ResolutionsOfferedHolds == Spec => []ResolutionsOffered
<1>1. Listed => ResolutionsOffered
  <2> SUFFICES ASSUME Listed, scanner.listed, pc = "serving"
               PROVE  ResolutionsOffered
    BY DEF ResolutionsOffered
  <2> DEFINE c == setup.device.res
             rs == scanner.data.resolutions
             step == Max({1, c.quant})
             NearestBelow(v) == \E i \in DOMAIN rs : rs[i] <= v /\ v < rs[i] + step
  <2>1. ResConstraint(c)
    BY SetupsAssumption DEF Listed, IsDevice
  <2>2. rs = DiscreteResolutions(c)
    <3>1. rs = TheScanner.resolutions
      BY DEF Listed
    <3> QED BY <3>1, InitFields DEF TheScanner
  <2> HIDE DEF c, rs
  <2>3. ASSUME NEW i \in DOMAIN rs PROVE Accepts(c, rs[i])
    <3>1. rs[i] \in ToSet(DiscreteResolutions(c))
      BY <2>2, Zenon DEF ToSet
    <3> QED BY ONLY <2>1, <3>1, OfferedAccepted
  <2>4. ASSUME c.type = "range"
        PROVE  /\ \A i \in 1 .. Len(rs) - 1 : rs[i] < rs[i + 1]
               /\ rs[1] = c.min /\ NearestBelow(c.max)
               /\ \A k \in 0 .. MaxDoublings - 1 :
                     Dpi[k] \in c.min .. c.max => NearestBelow(Dpi[k])
    <3>1. c.min \in Nat \ {0} /\ c.max \in Nat /\ c.min <= c.max /\ c.quant \in Nat
      BY <2>1, <2>4 DEF ResConstraint
    <3>2. rs = DiscretizeResolutions(c.min, c.max, c.quant)
      BY <2>2, <2>4 DEF DiscreteResolutions, AllowedNumericValues, MinOf, MaxOf, Quant
    <3>3. Spread(rs, c.min, c.max, Step(c.quant))
      BY ONLY <3>1, <3>2, Discretized
    <3>4. step = Step(c.quant)
      <4> DEFINE q == c.quant
      <4>1. q \in Nat
        BY <3>1
      <4> HIDE DEF q
      <4>2. Max({1, q}) = Step(q)
        BY ONLY <4>1 DEF Max, Step
      <4> QED BY <4>2 DEF q
    <3>5. \A v : Near(rs, v, Step(c.quant)) <=> NearestBelow(v)
      BY <3>4 DEF Near
    <3> HIDE DEF NearestBelow
    <3>6. /\ rs \in Seq(Int) /\ rs[1] = c.min /\ NearestBelow(c.max)
          /\ \A i, j \in 1 .. Len(rs) : i < j => rs[i] < rs[j]
          /\ \A k \in 0 .. MaxDoublings - 1 :
                Dpi[k] \in c.min .. c.max => NearestBelow(Dpi[k])
      BY ONLY <3>3, <3>5 DEF Spread
    <3>7. ASSUME NEW i \in 1 .. Len(rs) - 1 PROVE rs[i] < rs[i + 1]
      <4>1. i \in 1 .. Len(rs) /\ i + 1 \in 1 .. Len(rs) /\ i < i + 1
        BY <3>6
      <4> QED BY <3>6, <4>1
    <3> QED BY <3>6, <3>7
  <2> HIDE DEF step
  <2>5. (\A i \in DOMAIN rs : Accepts(c, rs[i]))
        /\ (c.type = "range" =>
               /\ \A i \in 1 .. Len(rs) - 1 : rs[i] < rs[i + 1]
               /\ rs[1] = c.min /\ NearestBelow(c.max)
               /\ \A k \in 0 .. MaxDoublings - 1 :
                     Dpi[k] \in c.min .. c.max => NearestBelow(Dpi[k]))
    <3> HIDE DEF NearestBelow
    <3> QED BY ONLY <2>3, <2>4
  <2> QED BY ONLY <2>5, Zenon DEF ResolutionsOffered, c, rs, step
<1> QED BY <1>1, ListedHolds, PTL

-----------------------------------------------------------------------------
(* Setting options.                                                         *)

(* A source.                                                                *)
LEMMA SetSource ==
    ASSUME NEW dev, IsDevice(dev), NEW c \in Values(dev), NEW v
    PROVE  LET d == SetValue(dev, c, "source", v) IN
           /\ d \in Values(dev)
           /\ d.mode = c.mode /\ d.depth = c.depth /\ d.resolution = c.resolution
           /\ d.source = IF Settable(dev, c, "source", v) THEN v ELSE c.source
<1> DEFINE d == SetValue(dev, c, "source", v)
<1>1. /\ c \in [source : STRING, mode : STRING, depth : Nat, resolution : Nat]
      /\ "source" \in dev.has => c.source \in ToSet(dev.sources)
      /\ ~dev.sourceActive => c.source = dev.defaults.source
      /\ "depth" \notin dev.has => c.depth = DepthIn(dev, c.mode)
  BY DEF Values
<1>2. CASE ~Settable(dev, c, "source", v)
  BY <1>2 DEF SetValue
<1>3. CASE Settable(dev, c, "source", v)
  <2>1. dev.sourceActive /\ v \in ToSet(dev.sources)
    BY <1>3 DEF Settable, IsActive
  <2>2. v \in STRING
    BY <2>1 DEF IsDevice, ToSet
  <2>3. d = [c EXCEPT !["source"] = v]
    BY <1>3 DEF SetValue, Stored
  <2> HIDE DEF d
  <2>4. /\ d \in [source : STRING, mode : STRING, depth : Nat, resolution : Nat]
        /\ d.source = v /\ d.mode = c.mode /\ d.depth = c.depth /\ d.resolution = c.resolution
    BY <1>1, <2>2, <2>3
  <2>5. d \in Values(dev)
    BY <1>1, <2>1, <2>4 DEF Values
  <2> QED BY <1>3, <2>4, <2>5 DEF d
<1> QED BY <1>2, <1>3

(* A mode, which sets the depth back.                                       *)
LEMMA SetMode ==
    ASSUME NEW dev, IsDevice(dev), NEW c \in Values(dev), NEW v
    PROVE  LET d == SetValue(dev, c, "mode", v) IN
           /\ d \in Values(dev)
           /\ d.source = c.source /\ d.resolution = c.resolution
           /\ d.mode = IF Settable(dev, c, "mode", v) THEN v ELSE c.mode
<1> DEFINE d == SetValue(dev, c, "mode", v)
           depth == IF "depth" \in dev.has /\ v \in dev.depthModes
                    THEN Head(dev.depths) ELSE DepthIn(dev, v)
<1>1. /\ c \in [source : STRING, mode : STRING, depth : Nat, resolution : Nat]
      /\ "source" \in dev.has => c.source \in ToSet(dev.sources)
      /\ ~dev.sourceActive => c.source = dev.defaults.source
      /\ "depth" \notin dev.has => c.depth = DepthIn(dev, c.mode)
  BY DEF Values
<1>2. CASE ~Settable(dev, c, "mode", v)
  BY <1>2 DEF SetValue
<1>3. CASE Settable(dev, c, "mode", v)
  <2>1. v \in ToSet(dev.modes)
    BY <1>3 DEF Settable
  <2>2. v \in STRING
    BY <2>1 DEF IsDevice, ToSet
  <2>3. depth \in Nat /\ ("depth" \notin dev.has => depth = DepthIn(dev, v))
    BY DEF IsDevice, DepthIn
  <2>4. d = IF v # c.mode THEN [c EXCEPT !.mode = v, !.depth = depth] ELSE [c EXCEPT !["mode"] = v]
    BY <1>3 DEF SetValue, Stored
  <2> HIDE DEF d, depth
  <2>5. /\ d \in [source : STRING, mode : STRING, depth : Nat, resolution : Nat]
        /\ d.mode = v /\ d.source = c.source /\ d.resolution = c.resolution
        /\ d.depth = IF v # c.mode THEN depth ELSE c.depth
    BY <1>1, <2>2, <2>3, <2>4
  <2>6. d \in Values(dev)
    BY <1>1, <2>3, <2>5 DEF Values
  <2> QED BY <1>3, <2>5, <2>6 DEF d
<1> QED BY <1>2, <1>3

(* A depth.                                                                 *)
LEMMA SetDepth ==
    ASSUME NEW dev, IsDevice(dev), NEW c \in Values(dev), NEW v
    PROVE  LET d == SetValue(dev, c, "depth", v) IN
           /\ d \in Values(dev)
           /\ d.source = c.source /\ d.mode = c.mode /\ d.resolution = c.resolution
           /\ d.depth = IF Settable(dev, c, "depth", v) THEN v ELSE c.depth
<1> DEFINE d == SetValue(dev, c, "depth", v)
<1>1. /\ c \in [source : STRING, mode : STRING, depth : Nat, resolution : Nat]
      /\ "source" \in dev.has => c.source \in ToSet(dev.sources)
      /\ ~dev.sourceActive => c.source = dev.defaults.source
      /\ "depth" \notin dev.has => c.depth = DepthIn(dev, c.mode)
  BY DEF Values
<1>2. CASE ~Settable(dev, c, "depth", v)
  BY <1>2 DEF SetValue
<1>3. CASE Settable(dev, c, "depth", v)
  <2>1. "depth" \in dev.has /\ v \in ToSet(dev.depths)
    BY <1>3 DEF Settable, IsActive, Accepts, DepthConstraint
  <2>2. v \in Nat
    BY <2>1 DEF IsDevice, ToSet
  <2>3. d = [c EXCEPT !["depth"] = v]
    BY <1>3 DEF SetValue, Stored
  <2> HIDE DEF d
  <2>4. /\ d \in [source : STRING, mode : STRING, depth : Nat, resolution : Nat]
        /\ d.depth = v /\ d.mode = c.mode /\ d.source = c.source /\ d.resolution = c.resolution
    BY <1>1, <2>2, <2>3
  <2>5. d \in Values(dev)
    BY <1>1, <2>1, <2>4 DEF Values
  <2> QED BY <1>3, <2>4, <2>5 DEF d
<1> QED BY <1>2, <1>3

(* A resolution.                                                            *)
LEMMA SetResolution ==
    ASSUME NEW dev, IsDevice(dev), NEW c \in Values(dev), NEW v
    PROVE  LET d == SetValue(dev, c, "resolution", v) IN
           /\ d \in Values(dev)
           /\ d.source = c.source /\ d.mode = c.mode /\ d.depth = c.depth
           /\ d.resolution = IF Settable(dev, c, "resolution", v) THEN v ELSE c.resolution
<1> DEFINE d == SetValue(dev, c, "resolution", v)
<1>1. /\ c \in [source : STRING, mode : STRING, depth : Nat, resolution : Nat]
      /\ "source" \in dev.has => c.source \in ToSet(dev.sources)
      /\ ~dev.sourceActive => c.source = dev.defaults.source
      /\ "depth" \notin dev.has => c.depth = DepthIn(dev, c.mode)
  BY DEF Values
<1>2. CASE ~Settable(dev, c, "resolution", v)
  BY <1>2 DEF SetValue
<1>3. CASE Settable(dev, c, "resolution", v)
  <2>1. Accepts(dev.res, v) /\ ResConstraint(dev.res)
    BY <1>3 DEF Settable, IsDevice
  <2>2. v \in Nat
    BY <2>1 DEF Accepts, ResConstraint, ToSet
  <2>3. d = [c EXCEPT !["resolution"] = v]
    BY <1>3 DEF SetValue, Stored
  <2> HIDE DEF d
  <2>4. /\ d \in [source : STRING, mode : STRING, depth : Nat, resolution : Nat]
        /\ d.resolution = v /\ d.mode = c.mode /\ d.source = c.source /\ d.depth = c.depth
    BY <1>1, <2>2, <2>3
  <2>5. d \in Values(dev)
    BY <1>1, <2>4 DEF Values
  <2> QED BY <1>3, <2>4, <2>5 DEF d
<1> QED BY <1>2, <1>3

(* Whatever is set, the values remain values of the device.                 *)
LEMMA SetAny ==
    ASSUME NEW dev, IsDevice(dev), NEW c \in Values(dev), NEW o, NEW v
    PROVE  SetValue(dev, c, o, v) \in Values(dev)
<1>1. CASE o = "source"
  BY <1>1, SetSource
<1>2. CASE o = "mode"
  BY <1>2, SetMode
<1>3. CASE o = "depth"
  BY <1>3, SetDepth
<1>4. CASE o = "resolution"
  BY <1>4, SetResolution
<1>5. CASE o \notin {"source", "mode", "depth", "resolution"}
  <2>1. ~Settable(dev, c, o, v)
    BY <1>5 DEF Settable, IsActive, IsDevice
  <2> QED BY <2>1 DEF SetValue
<1> QED BY <1>1, <1>2, <1>3, <1>4, <1>5

(* The options of the file leave the device with values it may have.        *)
LEMMA OptionsApplied ==
    ASSUME NEW dev, IsDevice(dev), NEW c \in Values(dev), NEW S, NEW options \in Seq(S)
    PROVE  ApplyOptions(dev, c, options) \in Values(dev)
<1> DEFINE V == Values(dev)
           l == Len(options)
           Set(n, x) == SetValue(dev, x, options[n][1], options[n][2])
           F == [p \in (1 .. l) \X V |-> Set(p[1], p[2])]
           step(f) == [n \in 0 .. l |-> IF n = 0 THEN c ELSE Set(n, f[n - 1])]
           applied == CHOOSE f : f = step(f)
<1>1. l \in Nat
  OBVIOUS
<1>2. \A n, x : x \in V => Set(n, x) \in V
  BY SetAny
<1>3. ApplyOptions(dev, c, options) = applied[l]
  BY Zenon DEF ApplyOptions
<1> HIDE DEF V, Set, l
<1>4. F \in [(1 .. l) \X V -> V]
  BY <1>2
<1>5. PICK g \in [0 .. l -> V] : Iterates(g, c, F, l)
  <2>1. c \in V
    BY DEF V
  <2> HIDE DEF F
  <2> QED BY <1>1, <1>4, <2>1, IterationExists
<1>6. g = step(g)
  <2>1. ASSUME NEW n \in 0 .. l
        PROVE  g[n] = IF n = 0 THEN c ELSE Set(n, g[n - 1])
    <3>1. CASE n = 0
      BY <1>5, <3>1 DEF Iterates
    <3>2. CASE n # 0
      <4>1. n \in 1 .. l /\ n - 1 \in 0 .. l
        BY <1>1, <3>2
      <4>2. g[n - 1] \in V
        BY <4>1
      <4>3. F[<<n, g[n - 1]>>] = Set(n, g[n - 1])
        BY <4>1, <4>2
      <4>4. g[n] = F[<<n, g[n - 1]>>]
        BY <1>5, <4>1 DEF Iterates
      <4> QED BY <3>2, <4>3, <4>4
    <3> QED BY <3>1, <3>2
  <2> QED BY <2>1
<1>7. applied = step(applied)
  <2> HIDE DEF step
  <2> QED BY <1>6
<1> HIDE DEF applied
<1>8. \A n \in 0 .. l : applied[n] = IF n = 0 THEN c ELSE Set(n, applied[n - 1])
  BY <1>7
<1> DEFINE done == {n \in 0 .. l : applied[n] \in V}
<1>9. 0 \in done
  BY <1>1, <1>8 DEF V
<1>10. ASSUME NEW n \in 1 .. l, n - 1 \in done PROVE n \in done
  <2>1. n \in 0 .. l /\ n # 0
    BY <1>1
  <2>2. applied[n] = Set(n, applied[n - 1])
    BY <1>8, <2>1
  <2> QED BY <1>2, <1>10, <2>1, <2>2
<1>11. \A n \in 0 .. l : n \in done
  <2> HIDE DEF done
  <2> QED BY <1>1, <1>9, <1>10, UpTo
<1>12. applied[l] \in V
  BY <1>1, <1>11
<1> QED BY <1>3, <1>12 DEF V

(* The options of a device that a file has for the backend are a sequence.  *)
LEMMA OptionsAreSequence ==
    ASSUME NEW S, NEW lines \in Seq(S)
    PROVE  /\ ScannerOptions(lines).sane_options \in Seq(S)
           /\ ScannerOptions(lines).synthesize_gray \in BOOLEAN
<1> DEFINE raw == RawOptions(lines)
<1>1. raw \in Seq(S)
  BY PickType DEF RawOptions
<1> HIDE DEF raw
<1>2. Pick(raw, {i \in DOMAIN raw : raw[i][1] \notin OwnOptions}) \in Seq(S)
  BY <1>1, PickType
<1>3. ScannerOptions(lines).sane_options = Pick(raw, {i \in DOMAIN raw : raw[i][1] \notin OwnOptions})
  BY DEF ScannerOptions, raw
<1>4. ScannerOptions(lines).synthesize_gray =
         (LastValue(raw, {"synthesize-gray"}, "no") \in {"true", "yes"})
  BY DEF ScannerOptions, raw
<1> QED BY <1>2, <1>3, <1>4

-----------------------------------------------------------------------------
(* Names.                                                                   *)

(* What findName finds, if a name is wanted by itself or for a text in it.  *)
LEMMA NameFound ==
    ASSUME NEW S, NEW names \in Seq(S), NEW W, NEW wanted \in Seq(W), NEW containing
    PROVE  LET r == FindName(names, wanted, containing)
               has == ToSet(names)
           IN /\ ToSet(wanted) \cap has # {} => r \in ToSet(wanted) \cap has
              /\ ToSet(wanted) \cap has = {} /\ containing \cap has # {} => r \in containing \cap has
              /\ ToSet(wanted) \cap has = {} /\ containing \cap has = {} => r = ""
<1> DEFINE exact == {w \in DOMAIN wanted : wanted[w] \in ToSet(names)}
           similar == {n \in DOMAIN names : names[n] \in containing}
           r == FindName(names, wanted, containing)
<1>1. r = IF exact # {} THEN wanted[Min(exact)]
          ELSE IF similar # {} THEN names[Min(similar)] ELSE ""
  BY DEF FindName
<1>2. \A N : N \subseteq Nat /\ N # {} => Min(N) \in N
  <2> SUFFICES ASSUME NEW N, N \subseteq Nat, N # {} PROVE Min(N) \in N
    OBVIOUS
  <2>1. \E m \in N : \A k \in N : m <= k
    BY LeastMember
  <2> QED BY <2>1, Zenon DEF Min
<1>3. DOMAIN wanted \subseteq Nat /\ DOMAIN names \subseteq Nat
  OBVIOUS
<1>4. exact \subseteq DOMAIN wanted /\ similar \subseteq DOMAIN names
  OBVIOUS
<1>5. exact # {} <=> ToSet(wanted) \cap ToSet(names) # {}
  BY Zenon DEF ToSet
<1>6. similar # {} <=> containing \cap ToSet(names) # {}
  BY Zenon DEF ToSet
<1>7. exact # {} => wanted[Min(exact)] \in ToSet(wanted) \cap ToSet(names)
  <2> SUFFICES ASSUME exact # {} PROVE wanted[Min(exact)] \in ToSet(wanted) \cap ToSet(names)
    OBVIOUS
  <2>1. Min(exact) \in exact
    <3> HIDE DEF exact
    <3> QED BY <1>2, <1>3, <1>4
  <2> QED BY <2>1, Zenon DEF ToSet
<1>8. similar # {} => names[Min(similar)] \in containing \cap ToSet(names)
  <2> SUFFICES ASSUME similar # {} PROVE names[Min(similar)] \in containing \cap ToSet(names)
    OBVIOUS
  <2>1. Min(similar) \in similar
    <3> HIDE DEF similar
    <3> QED BY <1>2, <1>3, <1>4
  <2> QED BY <2>1, Zenon DEF ToSet
<1> HIDE DEF exact, similar
<1> QED BY <1>1, <1>5, <1>6, <1>7, <1>8, Zenon DEF r

\* r is one of the names that are in kind, or there is none.
NameOf(r, names, kind) ==
    /\ r # "" => r \in kind \cap ToSet(names)
    /\ r = "" => kind \cap ToSet(names) = {}

(* findName finds a name of the kind asked for.                             *)
LEMMA KindFound ==
    ASSUME NEW S, NEW names \in Seq(S), NEW W, NEW wanted \in Seq(W), NEW containing,
           "" \notin ToSet(wanted) \cup containing
    PROVE  /\ NameOf(FindName(names, wanted, containing), names, ToSet(wanted) \cup containing)
           /\ ToSet(wanted) \cap ToSet(names) # {}
              => FindName(names, wanted, containing) \in ToSet(wanted)
<1> DEFINE r == FindName(names, wanted, containing)
           has == ToSet(names)
           all == ToSet(wanted)
<1>1. /\ all \cap has # {} => r \in all \cap has
      /\ all \cap has = {} /\ containing \cap has # {} => r \in containing \cap has
      /\ all \cap has = {} /\ containing \cap has = {} => r = ""
  BY NameFound
<1> HIDE DEF r
<1> QED BY <1>1, Zenon DEF NameOf, r

(* The elements of short sequences.                                         *)
LEMMA SetOf1 ==
    ASSUME NEW a
    PROVE  <<a>> \in Seq({a}) /\ ToSet(<<a>>) = {a}
<1> DEFINE s == <<a>>
<1>1. DOMAIN s = {1} /\ s[1] = a
  OBVIOUS
<1>2. s \in Seq({a})
  OBVIOUS
<1> HIDE DEF s
<1>3. ToSet(s) = {a}
  BY <1>1, Zenon DEF ToSet
<1> QED BY <1>2, <1>3 DEF s

(* And of longer ones.                                                     *)
LEMMA SetOf2 ==
    ASSUME NEW a, NEW b
    PROVE  <<a, b>> \in Seq({a, b}) /\ ToSet(<<a, b>>) = {a, b}
<1> DEFINE s == <<a, b>>
<1>1. DOMAIN s = {1, 2} /\ s[1] = a /\ s[2] = b
  OBVIOUS
<1>2. s \in Seq({a, b})
  OBVIOUS
<1> HIDE DEF s
<1>3. ToSet(s) = {a, b}
  BY <1>1, Zenon DEF ToSet
<1> QED BY <1>2, <1>3 DEF s

(* And of longer ones.                                                     *)
LEMMA SetOf4 ==
    ASSUME NEW a, NEW b, NEW c, NEW d
    PROVE  <<a, b, c, d>> \in Seq({a, b, c, d}) /\ ToSet(<<a, b, c, d>>) = {a, b, c, d}
<1> DEFINE s == <<a, b, c, d>>
<1>1. DOMAIN s = {1, 2, 3, 4} /\ s[1] = a /\ s[2] = b /\ s[3] = c /\ s[4] = d
  OBVIOUS
<1>2. s \in Seq({a, b, c, d})
  OBVIOUS
<1> HIDE DEF s
<1>3. ToSet(s) = {a, b, c, d}
  BY <1>1, Zenon DEF ToSet
<1> QED BY <1>2, <1>3 DEF s

(* And of longer ones.                                                     *)
LEMMA SetOf5 ==
    ASSUME NEW a, NEW b, NEW c, NEW d, NEW e
    PROVE  <<a, b, c, d, e>> \in Seq({a, b, c, d, e}) /\ ToSet(<<a, b, c, d, e>>) = {a, b, c, d, e}
<1> DEFINE s == <<a, b, c, d, e>>
<1>1. DOMAIN s = {1, 2, 3, 4, 5} /\ s[1] = a /\ s[2] = b /\ s[3] = c /\ s[4] = d /\ s[5] = e
  OBVIOUS
<1>2. s \in Seq({a, b, c, d, e})
  OBVIOUS
<1> HIDE DEF s
<1>3. ToSet(s) = {a, b, c, d, e}
  BY <1>1, Zenon DEF ToSet
<1> QED BY <1>2, <1>3 DEF s

(* The names of modes.                                                      *)
LEMMA ModeNamesFound ==
    ASSUME NEW S, NEW names \in Seq(S)
    PROVE  /\ NameOf(FindGrayName(names), names, NamesWith.gray)
           /\ NameOf(FindColorName(names), names, NamesWith.color)
<1> DEFINE grays == <<"True Gray", "Gray">>
           colors == <<"Color">>
<1>1. grays \in Seq({"True Gray", "Gray"}) /\ ToSet(grays) = {"True Gray", "Gray"}
  BY SetOf2
<1>2. colors \in Seq({"Color"}) /\ ToSet(colors) = {"Color"}
  BY SetOf1
<1>3. NamesWith.gray = {"True Gray", "Gray", "16bit Gray"} /\ NamesWith.color = {"Color", "24bit Color"}
  BY DEF NamesWith
<1>4. /\ FindGrayName(names) = FindName(names, grays, NamesWith.gray)
      /\ FindColorName(names) = FindName(names, colors, NamesWith.color)
  BY DEF FindGrayName, FindColorName
<1> HIDE DEF grays, colors
<1>5. /\ ToSet(grays) \cup NamesWith.gray = NamesWith.gray /\ "" \notin NamesWith.gray
      /\ ToSet(colors) \cup NamesWith.color = NamesWith.color /\ "" \notin NamesWith.color
  BY <1>1, <1>2, <1>3
<1>6. NameOf(FindName(names, grays, NamesWith.gray), names, ToSet(grays) \cup NamesWith.gray)
  BY <1>1, <1>5, KindFound
<1>7. NameOf(FindName(names, colors, NamesWith.color), names, ToSet(colors) \cup NamesWith.color)
  BY <1>2, <1>5, KindFound
<1> QED BY ONLY <1>4, <1>5, <1>6, <1>7

Flatbeds == {"Flatbed", "FlatBed", "Platen", "Auto", "Normal"}

(* The names of sources.                                                    *)
LEMMA SourceNamesFound ==
    ASSUME NEW S, NEW names \in Seq(S)
    PROVE  /\ NameOf(FindFlatbedName(names), names, Flatbeds)
           /\ NameOf(FindAdfDuplexName(names), names, DuplexFeeders)
           /\ NameOf(FindAdfSimplexName(names), names, Feeders \cup (DuplexFeeders \ {"ADF Duplex"}))
           /\ Feeders \cap ToSet(names) # {} => FindAdfSimplexName(names) \in Feeders
<1> DEFINE flat == <<"Flatbed", "FlatBed", "Platen", "Auto", "Normal">>
           duplex == <<"ADF Duplex">>
           adf == <<AdfLong, "ADF Simplex", "ADF Front", "ADF">>
<1>1. flat \in Seq(Flatbeds) /\ ToSet(flat) = Flatbeds
  BY SetOf5 DEF Flatbeds
<1>2. duplex \in Seq({"ADF Duplex"}) /\ ToSet(duplex) = {"ADF Duplex"}
  BY SetOf1
<1>3. /\ adf \in Seq({AdfLong, "ADF Simplex", "ADF Front", "ADF"})
      /\ ToSet(adf) = {AdfLong, "ADF Simplex", "ADF Front", "ADF"}
  BY ONLY SetOf4
<1>4. NamesWith.adf = {AdfLong, AdfLongDuplex} /\ NamesWith.adfDuplex = {AdfLongDuplex}
  BY DEF NamesWith
<1>5. /\ FindFlatbedName(names) = FindName(names, flat, {})
      /\ FindAdfDuplexName(names) = FindName(names, duplex, NamesWith.adfDuplex)
      /\ FindAdfSimplexName(names) = FindName(names, adf, NamesWith.adf)
  BY DEF FindFlatbedName, FindAdfDuplexName, FindAdfSimplexName
<1> HIDE DEF flat, duplex, adf
<1>6. /\ ToSet(flat) \cup {} = Flatbeds /\ "" \notin Flatbeds
      /\ ToSet(duplex) \cup NamesWith.adfDuplex = DuplexFeeders /\ "" \notin DuplexFeeders
  BY <1>1, <1>2, <1>4 DEF Flatbeds, DuplexFeeders, AdfLongDuplex
<1>7. /\ ToSet(adf) \cup NamesWith.adf = Feeders \cup (DuplexFeeders \ {"ADF Duplex"})
      /\ ToSet(adf) = Feeders /\ "" \notin ToSet(adf) \cup NamesWith.adf
  BY <1>3, <1>4 DEF Feeders, DuplexFeeders, AdfLong, AdfLongDuplex
<1>8. NameOf(FindName(names, flat, {}), names, ToSet(flat) \cup {})
  BY <1>1, <1>6, KindFound
<1>9. NameOf(FindName(names, duplex, NamesWith.adfDuplex), names, ToSet(duplex) \cup NamesWith.adfDuplex)
  BY <1>2, <1>6, KindFound
<1>10. /\ NameOf(FindName(names, adf, NamesWith.adf), names, ToSet(adf) \cup NamesWith.adf)
       /\ ToSet(adf) \cap ToSet(names) # {} => FindName(names, adf, NamesWith.adf) \in ToSet(adf)
  BY <1>3, <1>7, KindFound
<1> QED BY ONLY <1>5, <1>6, <1>7, <1>8, <1>9, <1>10

-----------------------------------------------------------------------------
(* An open session.                                                         *)

\* A source can be set if it can be chosen, and need not be if it is the only one.
SourceChoice(dev) == dev.sourceActive \/ Len(dev.sources) = 1

(* After a source has been set, it is the one.                              *)
LEMMA SourceIsSet ==
    ASSUME NEW dev, IsDevice(dev), NEW c \in Values(dev), "source" \in dev.has, SourceChoice(dev),
           NEW v \in ToSet(dev.sources)
    PROVE  SetValue(dev, c, "source", v).source = v
<1>1. SetValue(dev, c, "source", v).source = IF Settable(dev, c, "source", v) THEN v ELSE c.source
  BY SetSource
<1>2. CASE dev.sourceActive
  <2>1. Settable(dev, c, "source", v)
    BY <1>2 DEF Settable, IsActive
  <2> QED BY <1>1, <2>1
<1>3. CASE ~dev.sourceActive
  <2>1. Len(dev.sources) = 1 /\ dev.sources \in Seq(STRING)
    BY <1>3 DEF SourceChoice, IsDevice
  <2>2. c.source \in ToSet(dev.sources)
    BY DEF Values
  <2>3. DOMAIN dev.sources = {1}
    BY <2>1
  <2>4. c.source = v
    BY <2>2, <2>3, Zenon DEF ToSet
  <2> QED BY <1>1, <2>4
<1> QED BY <1>2, <1>3

(* openSession leaves the device with what the job asks for, as far as the  *)
(* device takes it.                                                         *)
LEMMA SessionOpen ==
    ASSUME NEW dev, IsDevice(dev), NEW options, NEW S, options.sane_options \in Seq(S), NEW j
    PROVE  LET c == OpenSession(dev, options, j) IN
           /\ c \in Values(dev)
           /\ "source" \in dev.has /\ SourceChoice(dev) /\ j.source \in ToSet(dev.sources)
              => c.source = j.source
           /\ "mode" \in dev.has /\ j.mode \in ToSet(dev.modes) => c.mode = j.mode
           /\ /\ "mode" \in dev.has /\ j.mode \in ToSet(dev.modes) /\ "depth" \in dev.has
              /\ j.mode \in dev.depthModes /\ j.bits \in ToSet(dev.depths)
              => c.depth = j.bits
           /\ "resolution" \in dev.has /\ Accepts(dev.res, j.res) => c.resolution = j.res
<1> DEFINE c0 == ApplyOptions(dev, dev.defaults, options.sane_options)
           c1 == SetValue(dev, c0, "source", j.source)
           c2 == SetValue(dev, c1, "mode", j.mode)
           c3 == SetValue(dev, c2, "depth", j.bits)
           c4 == SetValue(dev, c3, "resolution", j.res)
<1>1. OpenSession(dev, options, j) = c4
  BY Zenon DEF OpenSession
<1>2. c0 \in Values(dev)
  <2>1. dev.defaults \in Values(dev)
    BY DEF IsDevice
  <2> QED BY <2>1, OptionsApplied
<1> HIDE DEF c0
<1>3. /\ c1 \in Values(dev)
      /\ "source" \in dev.has /\ SourceChoice(dev) /\ j.source \in ToSet(dev.sources)
         => c1.source = j.source
  <2>1. c1 \in Values(dev)
    BY <1>2, SetSource
  <2> QED BY <1>2, <2>1, SourceIsSet
<1> HIDE DEF c1
<1>4. /\ c2 \in Values(dev) /\ c2.source = c1.source
      /\ "mode" \in dev.has /\ j.mode \in ToSet(dev.modes) => c2.mode = j.mode
  <2>1. "mode" \in dev.has /\ j.mode \in ToSet(dev.modes) => Settable(dev, c1, "mode", j.mode)
    BY DEF Settable, IsActive
  <2>2. /\ c2 \in Values(dev) /\ c2.source = c1.source
        /\ c2.mode = IF Settable(dev, c1, "mode", j.mode) THEN j.mode ELSE c1.mode
    BY <1>3, SetMode
  <2> HIDE DEF c2
  <2> QED BY <2>1, <2>2
<1> HIDE DEF c2
<1>5. /\ c3 \in Values(dev) /\ c3.source = c2.source /\ c3.mode = c2.mode
      /\ "depth" \in dev.has /\ c2.mode \in dev.depthModes /\ j.bits \in ToSet(dev.depths)
         => c3.depth = j.bits
  <2>1. "depth" \in dev.has /\ c2.mode \in dev.depthModes /\ j.bits \in ToSet(dev.depths)
        => Settable(dev, c2, "depth", j.bits)
    BY DEF Settable, IsActive, Accepts, DepthConstraint
  <2>2. /\ c3 \in Values(dev) /\ c3.source = c2.source /\ c3.mode = c2.mode
        /\ c3.depth = IF Settable(dev, c2, "depth", j.bits) THEN j.bits ELSE c2.depth
    BY <1>4, SetDepth
  <2> HIDE DEF c3
  <2> QED BY <2>1, <2>2
<1> HIDE DEF c3
<1>6. /\ c4 \in Values(dev) /\ c4.source = c3.source /\ c4.mode = c3.mode /\ c4.depth = c3.depth
      /\ "resolution" \in dev.has /\ Accepts(dev.res, j.res) => c4.resolution = j.res
  <2>1. "resolution" \in dev.has /\ Accepts(dev.res, j.res) => Settable(dev, c3, "resolution", j.res)
    BY DEF Settable, IsActive
  <2>2. /\ c4 \in Values(dev) /\ c4.source = c3.source /\ c4.mode = c3.mode /\ c4.depth = c3.depth
        /\ c4.resolution = IF Settable(dev, c3, "resolution", j.res) THEN j.res ELSE c3.resolution
    BY <1>5, SetResolution
  <2> HIDE DEF c4
  <2> QED BY <2>1, <2>2
<1> HIDE DEF c4
<1> QED BY <1>1, <1>3, <1>4, <1>5, <1>6

-----------------------------------------------------------------------------
(* What is offered.                                                         *)

\* An entry for a source has a name of the list, of one of the kinds.
Named(src, dev, kind) == src # NoSource => src.name \in kind \cap ToSet(dev.sources)

(* A source that has a name of its own is read back under this name.        *)
LEMMA SourceReadBack ==
    ASSUME NEW dev, IsDevice(dev), "source" \in dev.has, SourceChoice(dev),
           NEW c \in Values(dev), NEW name, name \notin {"", "-"}, name \in ToSet(dev.sources)
    PROVE  /\ WithSource(dev, c, name) \in Values(dev)
           /\ SourceOf(dev, name, WithSource(dev, c, name)).name = name
<1>1. WithSource(dev, c, name) = SetValue(dev, c, "source", name)
  BY DEF WithSource
<1>2. /\ WithSource(dev, c, name) \in Values(dev)
      /\ WithSource(dev, c, name).source = name
  <2>1. name \in ToSet(dev.sources) /\ c \in Values(dev) /\ IsDevice(dev)
    OBVIOUS
  <2>2. SetValue(dev, c, "source", name).source = name
    BY SourceIsSet
  <2>3. SetValue(dev, c, "source", name) \in Values(dev)
    BY ONLY <2>1, SetAny
  <2> QED BY ONLY <1>1, <2>2, <2>3
<1>3. SourceOf(dev, name, WithSource(dev, c, name)).name = WithSource(dev, c, name).source
  BY DEF SourceOf, InitSource, StringValue
<1> QED BY <1>2, <1>3

(* WithSource leaves the device with values it may have.                    *)
LEMMA WithSourceKeeps ==
    ASSUME NEW dev, IsDevice(dev), NEW c \in Values(dev), NEW name
    PROVE  WithSource(dev, c, name) \in Values(dev)
BY SetAny DEF WithSource

(* Each entry has a source of its kind.                                     *)
LEMMA SourceKinds ==
    ASSUME setup \in Setups, Usual(setup.device), "source" \in setup.device.has
    PROVE  /\ Named(TheScanner.platen, setup.device, SourceNames \ (Feeders \cup DuplexFeeders))
           /\ Named(TheScanner.adfSimplex, setup.device, Feeders)
           /\ Named(TheScanner.adfDuplex, setup.device, DuplexFeeders)
<1> DEFINE dev == setup.device
           o == ScannerOptions(setup.options)
           names == Listing(dev)
           has == ToSet(dev.sources)
<1>1. /\ IsDevice(dev) /\ SourceChoice(dev) /\ names = dev.sources /\ dev.sources \in Seq(SourceNames)
      /\ has \cap DuplexFeeders # {} => has \cap Feeders # {}
  BY SetupsAssumption DEF Usual, SourceChoice, Listing, AllowedStringValues
<1>2. has \subseteq SourceNames
  BY <1>1 DEF ToSet
<1>3. /\ NameOf(FindFlatbedName(names), names, Flatbeds)
      /\ NameOf(Duplex(dev), names, DuplexFeeders)
      /\ NameOf(Simplex(dev), names, Feeders \cup (DuplexFeeders \ {"ADF Duplex"}))
      /\ Feeders \cap ToSet(names) # {} => Simplex(dev) \in Feeders
  BY <1>1, SourceNamesFound DEF Duplex, Simplex
<1>4. /\ "" \notin has /\ "-" \notin has
      /\ Flatbeds \subseteq SourceNames \ (Feeders \cup DuplexFeeders)
  BY <1>2 DEF SourceNames, Flatbeds, Feeders, DuplexFeeders, AdfLong, AdfLongDuplex
<1>5. Cur0(dev, o) \in Values(dev)
  <2>1. setup.options \in Seq(ToSet(setup.options))
    BY SetupsAssumption
  <2>2. o.sane_options \in Seq(ToSet(setup.options))
    BY <2>1, OptionsAreSequence
  <2>3. dev.defaults \in Values(dev)
    BY <1>1 DEF IsDevice
  <2> HIDE DEF dev, o
  <2> QED BY <1>1, <2>2, <2>3, OptionsApplied DEF Cur0
<1> HIDE DEF o
<1>6. Cur1(dev, o) \in Values(dev)
  BY <1>1, <1>5, WithSourceKeeps DEF Cur1
<1>7. Cur2(dev, o) \in Values(dev)
  BY <1>1, <1>6, WithSourceKeeps DEF Cur2
<1>8. /\ TheScanner.platen = SourceOf(dev, Flatbed(dev), Cur1(dev, o))
      /\ TheScanner.adfSimplex = SourceOf(dev, Simplex(dev), Cur2(dev, o))
      /\ TheScanner.adfDuplex = SourceOf(dev, Duplex(dev), Cur3(dev, o))
  BY InitFields DEF TheScanner, o
<1>9. "source" \in dev.has
  OBVIOUS
<1> HIDE DEF dev, names, has
<1>10. Named(TheScanner.adfSimplex, dev, Feeders)
  <2>1. CASE Simplex(dev) = ""
    BY <1>8, <2>1 DEF Named, SourceOf
  <2>2. CASE Simplex(dev) # ""
    <3>1. Simplex(dev) \in has /\ Simplex(dev) \in Feeders
      BY <1>1, <1>3, <2>2, Zenon DEF NameOf, has
    <3>2. TheScanner.adfSimplex.name = Simplex(dev)
      <4>1. Simplex(dev) \in ToSet(dev.sources) /\ Simplex(dev) \notin {"", "-"}
        BY <1>4, <2>2, <3>1 DEF has
      <4>2. SourceOf(dev, Simplex(dev), Cur2(dev, o)).name = Simplex(dev)
        BY ONLY <1>1, <1>6, <1>9, <4>1, SourceReadBack DEF Cur2
      <4> QED BY ONLY <1>8, <4>2
    <3> QED BY <3>1, <3>2 DEF Named, has
  <2> QED BY <2>1, <2>2
<1>11. Named(TheScanner.adfDuplex, dev, DuplexFeeders)
  <2>1. CASE Duplex(dev) = ""
    BY <1>8, <2>1 DEF Named, SourceOf
  <2>2. CASE Duplex(dev) # ""
    <3>1. Duplex(dev) \in has /\ Duplex(dev) \in DuplexFeeders
      BY <1>1, <1>3, <2>2, Zenon DEF NameOf, has
    <3>2. TheScanner.adfDuplex.name = Duplex(dev)
      <4>1. Duplex(dev) \in ToSet(dev.sources) /\ Duplex(dev) \notin {"", "-"}
        BY <1>4, <2>2, <3>1 DEF has
      <4>2. SourceOf(dev, Duplex(dev), Cur3(dev, o)).name = Duplex(dev)
        BY ONLY <1>1, <1>7, <1>9, <4>1, SourceReadBack DEF Cur3
      <4> QED BY ONLY <1>8, <4>2
    <3> QED BY <3>1, <3>2 DEF Named, has
  <2> QED BY <2>1, <2>2
<1>12. Named(TheScanner.platen, dev, SourceNames \ (Feeders \cup DuplexFeeders))
  <2>1. CASE Flatbed(dev) = ""
    BY <1>8, <2>1 DEF Named, SourceOf
  <2>2. CASE Flatbed(dev) = "-"
    <3>1. Simplex(dev) = "" /\ Duplex(dev) = ""
      <4>1. FindFlatbedName(names) # "-"
        BY <1>1, <1>3, <1>4 DEF NameOf, has
      <4> QED BY <2>2, <4>1 DEF Flatbed, names
    <3>2. has \cap (Feeders \cup DuplexFeeders) = {}
      BY <1>1, <1>3, <3>1, Zenon DEF NameOf, has
    <3>3. Cur1(dev, o) = Cur0(dev, o) /\ Cur0(dev, o).source \in has
      <4>1. Cur1(dev, o) = Cur0(dev, o)
        BY <2>2 DEF Cur1, WithSource
      <4>2. Cur0(dev, o).source \in has
        BY ONLY <1>5, <1>9 DEF Values, has
      <4> QED BY ONLY <4>1, <4>2
    <3>4. TheScanner.platen.name = Cur0(dev, o).source
      <4>1. TheScanner.platen = InitSource(dev, Cur0(dev, o))
        BY ONLY <1>8, <2>2, <3>3 DEF SourceOf
      <4>2. InitSource(dev, Cur0(dev, o)).name = Cur0(dev, o).source
        BY ONLY <1>9 DEF InitSource, StringValue
      <4> QED BY ONLY <4>1, <4>2
    <3> QED BY <1>2, <3>2, <3>3, <3>4 DEF Named, has
  <2>3. CASE Flatbed(dev) \notin {"", "-"}
    <3>1. Flatbed(dev) = FindFlatbedName(names)
      BY <2>3 DEF Flatbed, names
    <3>2. Flatbed(dev) \in has /\ Flatbed(dev) \in Flatbeds
      BY <1>1, <1>3, <2>3, <3>1, Zenon DEF NameOf, has
    <3>3. TheScanner.platen.name = Flatbed(dev)
      <4>1. Flatbed(dev) \in ToSet(dev.sources) /\ Flatbed(dev) \notin {"", "-"}
        BY <2>3, <3>2 DEF has
      <4>2. SourceOf(dev, Flatbed(dev), Cur1(dev, o)).name = Flatbed(dev)
        BY ONLY <1>1, <1>5, <1>9, <4>1, SourceReadBack DEF Cur1
      <4> QED BY ONLY <1>8, <4>2
    <3> QED BY <1>4, <3>2, <3>3 DEF Named, has
  <2> QED BY <2>1, <2>2, <2>3
<1> QED BY <1>10, <1>11, <1>12 DEF dev

(* The modes are of the device, and of their kinds.                         *)
LEMMA ModeKinds ==
    ASSUME setup \in Setups, Usual(setup.device)
    PROVE  /\ "mode" \in setup.device.has
           /\ TheScanner.color # "" => TheScanner.color \in NamesWith.color \cap ToSet(setup.device.modes)
           /\ TheScanner.gray # "" => TheScanner.gray \in NamesWith.gray \cap ToSet(setup.device.modes)
           /\ ScannerOptions(setup.options).synthesize_gray => TheScanner.color # ""
<1> DEFINE dev == setup.device
           has == ToSet(dev.modes)
<1>1. /\ ToSet(AllowedStringValues(dev, "mode")) \cap (NamesWith.gray \cup NamesWith.color) # {}
      /\ ScannerOptions(setup.options).synthesize_gray
         => ToSet(AllowedStringValues(dev, "mode")) \cap NamesWith.color # {}
  BY DEF Usual
<1>2. ToSet(<<>>) = {}
  BY DEF ToSet
<1>3. "mode" \in dev.has /\ AllowedStringValues(dev, "mode") = dev.modes
  BY <1>1, <1>2 DEF AllowedStringValues
<1>4. Modes(dev) = dev.modes
  BY <1>1, <1>2, <1>3 DEF Modes
<1>5. dev.modes \in Seq(ModeNames)
  BY SetupsAssumption
<1>6. TheScanner.color = FindColorName(Modes(dev)) /\ TheScanner.gray = Gray(dev)
  BY InitFields DEF TheScanner
<1> HIDE DEF dev
<1>7. /\ NameOf(FindGrayName(dev.modes), dev.modes, NamesWith.gray)
      /\ NameOf(FindColorName(dev.modes), dev.modes, NamesWith.color)
  BY <1>5, ModeNamesFound
<1>8. TheScanner.gray = FindGrayName(dev.modes)
  <2>1. ~(FindGrayName(dev.modes) = "" /\ FindColorName(dev.modes) = "")
    BY <1>1, <1>3, <1>7, Zenon DEF NameOf
  <2> QED BY <1>4, <1>6, <2>1 DEF Gray
<1>9. TheScanner.color = FindColorName(dev.modes)
  BY <1>4, <1>6
<1>10. TheScanner.color # "" => TheScanner.color \in NamesWith.color \cap has
  BY <1>7, <1>9, Zenon DEF NameOf
<1>11. TheScanner.gray # "" => TheScanner.gray \in NamesWith.gray \cap has
  BY <1>7, <1>8, Zenon DEF NameOf
<1>12. ScannerOptions(setup.options).synthesize_gray => TheScanner.color # ""
  BY <1>1, <1>3, <1>7, <1>9, Zenon DEF NameOf
<1> QED BY <1>3, <1>10, <1>11, <1>12 DEF dev

-----------------------------------------------------------------------------
(* Tickets and jobs.                                                        *)

\* A ticket asks for a source of the scanner, by its kind.
AsksFor(t, s) ==
    \/ t.source = "Platen" /\ ~t.duplex /\ s.platen # NoSource
    \/ t.source = "Feeder" /\ ~t.duplex /\ s.adfSimplex # NoSource
    \/ t.source = "Feeder" /\ t.duplex /\ s.adfDuplex # NoSource

(* The tickets of one source.                                               *)
LEMMA TicketOfProfile ==
    ASSUME NEW s, NEW src, NEW source, NEW duplex, NEW t \in SettingProfile(s, src, source, duplex)
    PROVE  /\ t.source = source /\ t.duplex = duplex
           /\ t.color \in s.colorSpaces /\ t.res \in ToSet(s.resolutions)
           /\ t.bits \in {8 * k : k \in 1 .. src.maxBits \div 8}
<1> DEFINE depths == {8 * k : k \in 1 .. src.maxBits \div 8}
           C == s.colorSpaces
           R == ToSet(s.resolutions)
<1>0. t \in {Ticket(source, duplex, c, b, r, "Photo") : c \in C, b \in depths, r \in R}
  BY SMT DEF SettingProfile
<1> HIDE DEF depths, C, R
<1>1. PICK c \in C, b \in depths, r \in R : t = Ticket(source, duplex, c, b, r, "Photo")
  BY <1>0
<1>2. /\ t.source = source /\ t.duplex = duplex /\ t.color = c /\ t.res = r /\ t.bits = b
  BY <1>1 DEF Ticket
<1> QED BY ONLY <1>1, <1>2 DEF depths, C, R

\* The depth of a ticket is one of a source.
DepthOffered(t, s) == \E src \in Sources(s) : t.bits \in {8 * k : k \in 1 .. src.maxBits \div 8}

(* What the capabilities offer.                                             *)
LEMMA TicketOffered ==
    ASSUME NEW s, NEW t \in OfferedTickets(s)
    PROVE  /\ AsksFor(t, s) /\ t.duplex \in BOOLEAN
           /\ t.color \in s.colorSpaces /\ t.res \in ToSet(s.resolutions)
           /\ DepthOffered(t, s)
<1>1. ASSUME s.platen # NoSource, t \in SettingProfile(s, s.platen, "Platen", FALSE)
      PROVE  /\ AsksFor(t, s) /\ t.duplex \in BOOLEAN
             /\ t.color \in s.colorSpaces /\ t.res \in ToSet(s.resolutions)
             /\ DepthOffered(t, s)
  <2>1. s.platen \in Sources(s)
    BY <1>1 DEF Sources
  <2>2. /\ t.source = "Platen" /\ t.duplex = FALSE
        /\ t.color \in s.colorSpaces /\ t.res \in ToSet(s.resolutions)
        /\ t.bits \in {8 * k : k \in 1 .. s.platen.maxBits \div 8}
    BY <1>1, TicketOfProfile, Zenon
  <2> QED BY <1>1, <2>1, <2>2, Zenon DEF AsksFor, DepthOffered
<1>2. ASSUME s.adfSimplex # NoSource, t \in SettingProfile(s, s.adfSimplex, "Feeder", FALSE)
      PROVE  /\ AsksFor(t, s) /\ t.duplex \in BOOLEAN
             /\ t.color \in s.colorSpaces /\ t.res \in ToSet(s.resolutions)
             /\ DepthOffered(t, s)
  <2>1. s.adfSimplex \in Sources(s)
    BY <1>2 DEF Sources
  <2>2. /\ t.source = "Feeder" /\ t.duplex = FALSE
        /\ t.color \in s.colorSpaces /\ t.res \in ToSet(s.resolutions)
        /\ t.bits \in {8 * k : k \in 1 .. s.adfSimplex.maxBits \div 8}
    BY <1>2, TicketOfProfile, Zenon
  <2> QED BY <1>2, <2>1, <2>2, Zenon DEF AsksFor, DepthOffered
<1>3. ASSUME s.adfDuplex # NoSource, t \in SettingProfile(s, s.adfDuplex, "Feeder", TRUE)
      PROVE  /\ AsksFor(t, s) /\ t.duplex \in BOOLEAN
             /\ t.color \in s.colorSpaces /\ t.res \in ToSet(s.resolutions)
             /\ DepthOffered(t, s)
  <2>1. s.adfDuplex \in Sources(s)
    BY <1>3 DEF Sources
  <2>2. /\ t.source = "Feeder" /\ t.duplex = TRUE
        /\ t.color \in s.colorSpaces /\ t.res \in ToSet(s.resolutions)
        /\ t.bits \in {8 * k : k \in 1 .. s.adfDuplex.maxBits \div 8}
    BY <1>3, TicketOfProfile, Zenon
  <2> QED BY <1>3, <2>1, <2>2, Zenon DEF AsksFor, DepthOffered
<1>4. \/ s.platen # NoSource /\ t \in SettingProfile(s, s.platen, "Platen", FALSE)
      \/ s.adfSimplex # NoSource /\ t \in SettingProfile(s, s.adfSimplex, "Feeder", FALSE)
      \/ s.adfDuplex # NoSource /\ t \in SettingProfile(s, s.adfDuplex, "Feeder", TRUE)
  BY Zenon DEF OfferedTickets
<1> QED BY ONLY <1>1, <1>2, <1>3, <1>4

\* A ticket that leaves nothing out, for a color mode that the scanner has.
Understood(t, s) ==
    /\ t.color \in {"grayscale", "color"} /\ t.source \in {"Platen", "Feeder"}
    /\ t.duplex \in BOOLEAN /\ t.res \in Nat \ {0}
    /\ t.color = "color" => s.color # ""
    /\ t.color = "grayscale" => s.gray # ""

\* A job that does as the ticket says.
JobFor(j, t, s) ==
    /\ j.state = "pending" /\ j.res = t.res
    /\ j.source = IF t.source = "Platen" THEN s.platen.name
                  ELSE IF t.duplex THEN s.adfDuplex.name ELSE s.adfSimplex.name

(* What a job makes of such a ticket.                                       *)
LEMMA JobOfTicket ==
    ASSUME NEW s, NEW t, Understood(t, s), NEW b
    PROVE  JobFor(JobInit(s, t, b), t, s)
<1>0. ASSUME NEW r \in Nat PROVE r # -1
  OBVIOUS
<1> USE DEF Understood
<1>1. t.source # None
  BY DEF None
<1>2. t.res # Unequal
  BY <1>0 DEF Unequal
<1>3. t.res # 0
  OBVIOUS
<1>4. CASE t.color = "color"
  BY <1>1, <1>2, <1>3, <1>4 DEF JobInit, JobFor
<1>5. CASE t.color = "grayscale"
  BY <1>1, <1>2, <1>3, <1>5 DEF JobInit, JobFor
<1> QED BY <1>4, <1>5

-----------------------------------------------------------------------------
(* The job that was made, and its session.                                  *)

\* The job as init has left it, if its memory held b.
JobOf(b) == JobInit(scanner.data, job.ticket, b)
SessionOf(b) == OpenSession(setup.device, scanner.data.options, JobOf(b))

\* A job has its state changed and nothing else; it ends after finishTransfer,
\* or at once if its ticket is refused.
Handled ==
    pc \in {"job", "open", "done"} =>
       /\ scanner.listed
       /\ \E b \in BOOLEAN :
             /\ job = [JobOf(b) EXCEPT !.state = job.state]
             /\ pc = "open" => cur = SessionOf(b)
             /\ pc = "done" =>
                   \/ job.state = JobOf(b).state /\ job.state = "aborted"
                   \/ /\ cur = SessionOf(b)
                      /\ job.state = IF LineLengthFits(cur, JobOf(b)) THEN "processing" ELSE "aborted"

\* A job is a record with these fields.
Record(st, t, src, m, n, c, r, g, y) ==
    [state |-> st, ticket |-> t, source |-> src, mode |-> m, bits |-> n, colorScan |-> c,
     res |-> r, gammaTable |-> g, synthesizeGray |-> y]

(* One that has been made.                                                  *)
LEMMA JobIsRecord ==
    ASSUME NEW s, NEW t, NEW b
    PROVE  \E st \in {"pending", "aborted"} : \E src, m, n, c, r, g, y :
              JobInit(s, t, b) = Record(st, t, src, m, n, c, r, g, y)
<1> DEFINE j == JobInit(s, t, b)
<1>1. j = Record(j.state, t, j.source, j.mode, j.bits, j.colorScan, j.res, j.gammaTable, j.synthesizeGray)
  BY DEF JobInit, Record
<1>2. j.state \in {"pending", "aborted"}
  BY DEF JobInit
<1> QED BY <1>1, <1>2, Zenon

(* A job that has been made is one with some state.                         *)
LEMMA JobMade ==
    ASSUME NEW s, NEW t, NEW b
    PROVE  LET j == JobInit(s, t, b) IN
           /\ j.ticket = t /\ j.state \in {"pending", "aborted"}
           /\ j = [j EXCEPT !.state = j.state]
<1> DEFINE j == JobInit(s, t, b)
<1>1. PICK st \in {"pending", "aborted"} : \E src, m, n, c, r, g, y :
         j = Record(st, t, src, m, n, c, r, g, y)
  BY JobIsRecord
<1> HIDE DEF j
<1>2. PICK src, m, n, c, r, g, y : j = Record(st, t, src, m, n, c, r, g, y)
  BY <1>1
<1>3. j.ticket = t /\ j.state \in {"pending", "aborted"}
  BY <1>1, <1>2 DEF Record
<1>4. j = [j EXCEPT !.state = j.state]
  BY <1>2 DEF Record
<1> QED BY <1>3, <1>4 DEF j

\* What becomes of a job with ticket t when its state is set to x, then to y.
Changed(j, t, x, y) ==
    LET k == [j EXCEPT !.state = x] IN
    /\ k.ticket = t /\ k.state = x
    /\ k.source = j.source /\ k.mode = j.mode /\ k.bits = j.bits /\ k.res = j.res
    /\ k.colorScan = j.colorScan /\ k.synthesizeGray = j.synthesizeGray
    /\ k.gammaTable = j.gammaTable
    /\ [k EXCEPT !.state = y] = [j EXCEPT !.state = y]

(* The state is all that changes.                                           *)
LEMMA JobChanged ==
    ASSUME NEW s, NEW t, NEW b, NEW x, NEW y
    PROVE  Changed(JobInit(s, t, b), t, x, y)
<1> DEFINE j == JobInit(s, t, b)
           k == [j EXCEPT !.state = x]
<1>1. PICK st \in {"pending", "aborted"} : \E src, m, n, c, r, g, z :
         j = Record(st, t, src, m, n, c, r, g, z)
  BY JobIsRecord
<1> HIDE DEF j
<1>2. PICK src, m, n, c, r, g, z : j = Record(st, t, src, m, n, c, r, g, z)
  BY <1>1
<1>3. k = Record(x, t, src, m, n, c, r, g, z)
  <2>1. [j EXCEPT !.state = x] = Record(x, t, src, m, n, c, r, g, z)
    BY ONLY <1>2 DEF Record
  <2> QED BY <2>1
<1> HIDE DEF k
<1>4. [k EXCEPT !.state = y] = Record(y, t, src, m, n, c, r, g, z)
  BY <1>3 DEF Record
<1>5. [j EXCEPT !.state = y] = Record(y, t, src, m, n, c, r, g, z)
  BY <1>2 DEF Record
<1>6. /\ k.ticket = t /\ k.state = x
      /\ k.source = j.source /\ k.mode = j.mode /\ k.bits = j.bits /\ k.res = j.res
      /\ k.colorScan = j.colorScan /\ k.synthesizeGray = j.synthesizeGray
      /\ k.gammaTable = j.gammaTable
  BY <1>2, <1>3 DEF Record
<1> QED BY <1>4, <1>5, <1>6 DEF j, k, Changed

(* The session depends on four of the fields.                               *)
LEMMA SessionSame ==
    ASSUME NEW dev, NEW o, NEW j, NEW k,
           k.source = j.source, k.mode = j.mode, k.bits = j.bits, k.res = j.res
    PROVE  OpenSession(dev, o, k) = OpenSession(dev, o, j)
BY Zenon DEF OpenSession

(* A step that keeps the ticket keeps the job it was made from.             *)
LEMMA JobStays ==
    ASSUME UNCHANGED <<setup, scanner>>, job'.ticket = job.ticket, NEW b
    PROVE  JobOf(b)' = JobOf(b) /\ SessionOf(b)' = SessionOf(b)
<1>1. JobOf(b)' = JobOf(b)
  BY DEF JobOf
<1> QED BY <1>1 DEF SessionOf

(* Every step keeps Handled.                                                *)
LEMMA HandledInductive == Handled /\ [Next]_vars => Handled'
<1> SUFFICES ASSUME Handled, [Next]_vars
             PROVE  Handled'
  OBVIOUS
<1>1. CASE UNCHANGED vars
  <2>1. UNCHANGED <<setup, scanner, job, cur, pc>>
    BY <1>1 DEF vars
  <2> QED BY <2>1 DEF Handled, JobOf, SessionOf
<1>2. ASSUME ReadAccessFile \/ InitScanner \/ \E c \in setup.clients : HandleRequest(c)
      PROVE  Handled'
  <2>1. pc' \notin {"job", "open", "done"}
    BY <1>2 DEF ReadAccessFile, InitScanner, HandleRequest
  <2> QED BY <2>1 DEF Handled
<1>3. ASSUME scanner.listed, NEW t, NEW b \in BOOLEAN, CreateJob(t, b)
      PROVE  Handled'
  <2> DEFINE j == JobInit(scanner.data, t, b)
  <2>1. job' = j /\ pc' = (IF job'.state = "pending" THEN "job" ELSE "done") /\ scanner' = scanner
    BY <1>3 DEF CreateJob
  <2>2. j.ticket = t /\ j.state \in {"pending", "aborted"} /\ j = [j EXCEPT !.state = j.state]
    BY JobMade
  <2> HIDE DEF j
  <2>3. JobOf(b)' = j
    BY <2>1, <2>2 DEF JobOf, j
  <2>4. pc' = "done" => job'.state = "aborted"
    BY <2>1, <2>2
  <2>5. pc' # "open"
    BY <2>1
  <2> QED BY <1>3, <2>1, <2>2, <2>3, <2>4, <2>5 DEF Handled
<1>4. CASE BeginTransfer
  <2>1. /\ pc = "job" /\ pc' = "open" /\ UNCHANGED <<setup, scanner>>
        /\ job' = [job EXCEPT !.state = "processing"]
        /\ cur' = OpenSession(setup.device, scanner.data.options, job)
    BY <1>4 DEF BeginTransfer
  <2>2. PICK b \in BOOLEAN : job = [JobOf(b) EXCEPT !.state = job.state]
    BY <2>1 DEF Handled
  <2>3. /\ job'.ticket = job.ticket /\ job' = [JobOf(b) EXCEPT !.state = job'.state]
        /\ cur' = SessionOf(b)
    <3> DEFINE j == JobOf(b)
               x == job.state
               k == [j EXCEPT !.state = x]
    <3>1. Changed(j, job.ticket, x, "processing") /\ Changed(j, job.ticket, "processing", x)
      BY JobChanged DEF JobOf
    <3>2. job = k
      BY <2>2
    <3> HIDE DEF j, x, k
    <3>3. job' = [j EXCEPT !.state = "processing"]
      BY <2>1, <3>1, <3>2 DEF Changed, k
    <3>4. cur' = OpenSession(setup.device, scanner.data.options, j)
      <4>1. job.source = j.source /\ job.mode = j.mode /\ job.bits = j.bits /\ job.res = j.res
        BY <3>1, <3>2 DEF Changed, k
      <4> QED BY <2>1, <4>1, SessionSame
    <3>5. job'.ticket = job.ticket /\ job'.state = "processing"
      BY <3>1, <3>3 DEF Changed
    <3> QED BY <3>3, <3>4, <3>5 DEF SessionOf, j
  <2>4. JobOf(b)' = JobOf(b) /\ SessionOf(b)' = SessionOf(b)
    BY <2>1, <2>3, JobStays
  <2>5. scanner'.listed
    BY <2>1 DEF Handled
  <2> QED BY <2>1, <2>3, <2>4, <2>5 DEF Handled
<1>5. CASE FinishTransfer
  <2>1. /\ pc = "open" /\ pc' = "done" /\ UNCHANGED <<setup, scanner, cur>>
        /\ job' = [job EXCEPT !.state = IF LineLengthFits(cur, job) THEN "processing" ELSE "aborted"]
    BY <1>5 DEF FinishTransfer
  <2>2. PICK b \in BOOLEAN : job = [JobOf(b) EXCEPT !.state = job.state] /\ cur = SessionOf(b)
    BY <2>1 DEF Handled
  <2>3. /\ job'.ticket = job.ticket /\ job' = [JobOf(b) EXCEPT !.state = job'.state]
        /\ job'.state = IF LineLengthFits(cur, JobOf(b)) THEN "processing" ELSE "aborted"
    <3> DEFINE j == JobOf(b)
               x == job.state
               y == IF LineLengthFits(cur, job) THEN "processing" ELSE "aborted"
               k == [j EXCEPT !.state = x]
    <3>1. Changed(j, job.ticket, x, y) /\ Changed(j, job.ticket, y, x)
      BY JobChanged DEF JobOf
    <3>2. job = k
      BY <2>2
    <3>3. job' = [job EXCEPT !.state = y]
      BY <2>1
    <3>4. y = IF LineLengthFits(cur, job) THEN "processing" ELSE "aborted"
      OBVIOUS
    <3> HIDE DEF j, x, k, y
    <3>5. job' = [j EXCEPT !.state = y]
      BY <3>1, <3>2, <3>3 DEF Changed, k
    <3>6. LineLengthFits(cur, job) <=> LineLengthFits(cur, j)
      BY <3>1, <3>2 DEF LineLengthFits, Changed, k
    <3>7. job'.ticket = job.ticket /\ job'.state = y
      BY <3>1, <3>5 DEF Changed
    <3> QED BY <3>4, <3>5, <3>6, <3>7 DEF j
  <2>4. JobOf(b)' = JobOf(b) /\ SessionOf(b)' = SessionOf(b)
    BY <2>1, <2>3, JobStays
  <2>5. scanner'.listed
    BY <2>1 DEF Handled
  <2> QED BY <2>1, <2>2, <2>3, <2>4, <2>5 DEF Handled
<1> QED BY <1>1, <1>2, <1>3, <1>4, <1>5 DEF Next

(* It holds.                                                                *)
LEMMA HandledHolds == Spec => []Handled
<1>1. Init => Handled
  BY DEF Init, Handled
<1> QED BY <1>1, HandledInductive, PTL DEF Spec

-----------------------------------------------------------------------------
(* Tickets and what the device is set to.                                   *)

\* A ticket that asks for a mode that the scanner has, or for color where it
\* falls back to gray.
ModeKnown(t, s) ==
    \/ t.color = "grayscale" /\ s.gray # ""
    \/ t.color = "color" /\ (s.color # "" \/ t.intent # "Photo")

(* Without a color mode there is a gray one.                                *)
LEMMA SomeMode == TheScanner.color = "" => TheScanner.gray # ""
<1>1. TheScanner.gray = Gray(setup.device) /\ TheScanner.color = FindColorName(Modes(setup.device))
  BY InitFields DEF TheScanner
<1> QED BY <1>1 DEF Gray

(* The mode of the job is one of the device, of the kind that its samples   *)
(* are taken to have unless there is no color.                              *)
LEMMA JobMode ==
    ASSUME setup \in Setups, Usual(setup.device), NEW t, ModeKnown(t, TheScanner), NEW b
    PROVE  LET j == JobInit(TheScanner, t, b) IN
           /\ j.mode \in (NamesWith.gray \cup NamesWith.color) \cap ToSet(setup.device.modes)
           /\ ~(t.color = "color" /\ TheScanner.color = "") =>
                 (j.mode \in NamesWith.color <=> j.colorScan \/ j.synthesizeGray)
           /\ j.bits \in {t.bits, 8}
<1> DEFINE s == TheScanner
           o == ScannerOptions(setup.options)
           j == JobInit(s, t, b)
           has == ToSet(setup.device.modes)
<1>1. /\ s.color # "" => s.color \in NamesWith.color \cap has
      /\ s.gray # "" => s.gray \in NamesWith.gray \cap has
      /\ o.synthesize_gray => s.color # ""
  BY ModeKinds
<1>2. s.color = "" => s.gray # ""
  BY SomeMode
<1>3. s.options = o
  BY InitFields DEF TheScanner
<1>4. NamesWith.gray \cap NamesWith.color = {}
  BY DEF NamesWith
<1> HIDE DEF s, o, has
<1>5. j.bits \in {t.bits, 8}
  BY DEF JobInit
<1>6. CASE t.color = "grayscale"
  <2>1. j.mode = (IF o.synthesize_gray THEN s.color ELSE s.gray)
    BY <1>3, <1>6 DEF JobInit, ModeFor
  <2>2. ~j.colorScan /\ (j.synthesizeGray <=> o.synthesize_gray)
    <3>1. j.colorScan = FALSE
      BY <1>6 DEF JobInit
    <3>2. j.synthesizeGray <=> ~j.colorScan /\ s.options.synthesize_gray
      BY <1>6 DEF JobInit
    <3> QED BY <1>3, <3>1, <3>2
  <2>3. s.gray # ""
    BY <1>6 DEF ModeKnown, s
  <2> HIDE DEF j
  <2>4. o.synthesize_gray \in BOOLEAN
    BY DEF o, ScannerOptions
  <2>5. CASE o.synthesize_gray
    <3>1. j.mode \in NamesWith.color \cap has
      BY <1>1, <2>1, <2>5
    <3> QED BY <1>5, <2>2, <2>5, <3>1 DEF j, s, has
  <2>6. CASE ~o.synthesize_gray
    <3>1. j.mode \in NamesWith.gray \cap has
      BY <1>1, <2>1, <2>3, <2>6
    <3> QED BY <1>4, <1>5, <2>2, <2>6, <3>1 DEF j, s, has
  <2> QED BY <2>4, <2>5, <2>6
<1>7. CASE t.color = "color"
  <2>1. j.mode = IF s.color # "" THEN s.color ELSE IF t.intent = "Photo" THEN s.color ELSE s.gray
    BY <1>7 DEF JobInit, ModeFor
  <2>2. j.colorScan
    BY <1>7 DEF JobInit
  <2>3. s.color # "" \/ t.intent # "Photo"
    BY <1>7 DEF ModeKnown, s
  <2> HIDE DEF j
  <2>4. CASE s.color # ""
    <3>1. j.mode \in NamesWith.color \cap has
      BY <1>1, <2>1, <2>4
    <3> QED BY <1>5, <2>2, <3>1 DEF j, s, has
  <2>5. CASE s.color = ""
    <3>1. j.mode \in NamesWith.gray \cap has
      BY <1>1, <1>2, <2>1, <2>3, <2>5
    <3> QED BY <1>5, <1>7, <2>5, <3>1 DEF j, s, has
  <2> QED BY <2>4, <2>5
<1> QED BY <1>6, <1>7 DEF ModeKnown

\* The device, as openSession leaves it for a job.
SetFor(c, j, dev) ==
    /\ c \in Values(dev)
    /\ "source" \in dev.has /\ SourceChoice(dev) /\ j.source \in ToSet(dev.sources)
       => c.source = j.source
    /\ "mode" \in dev.has /\ j.mode \in ToSet(dev.modes) => c.mode = j.mode
    /\ /\ "mode" \in dev.has /\ j.mode \in ToSet(dev.modes) /\ "depth" \in dev.has
       /\ j.mode \in dev.depthModes /\ j.bits \in ToSet(dev.depths)
       => c.depth = j.bits
    /\ "resolution" \in dev.has /\ Accepts(dev.res, j.res) => c.resolution = j.res

(* The session of a job is one.                                             *)
LEMMA SessionIsSet ==
    ASSUME setup \in Setups, NEW j
    PROVE  SetFor(OpenSession(setup.device, TheScanner.options, j), j, setup.device)
<1>1. TheScanner.options = ScannerOptions(setup.options)
  BY InitFields DEF TheScanner
<1>2. setup.options \in Seq(ToSet(setup.options)) /\ IsDevice(setup.device)
  BY SetupsAssumption
<1>3. ScannerOptions(setup.options).sane_options \in Seq(ToSet(setup.options))
  BY <1>2, OptionsAreSequence
<1> QED BY <1>1, <1>2, <1>3, SessionOpen DEF SetFor

(* A job that ends has gone through a session, unless its ticket was        *)
(* refused.                                                                 *)
LEMMA JobAtEnd ==
    ASSUME Listed, Handled, pc = "done",
           job.state = "processing" \/ \A b \in BOOLEAN : JobInit(TheScanner, job.ticket, b).state = "pending"
    PROVE  /\ scanner.listed /\ scanner.data = TheScanner /\ "resolution" \in setup.device.has
           /\ \E b \in BOOLEAN :
                 LET j == JobInit(TheScanner, job.ticket, b) IN
                 /\ SetFor(cur, j, setup.device)
                 /\ job.state = IF LineLengthFits(cur, j) THEN "processing" ELSE "aborted"
                 /\ job.bits = j.bits
<1>1. scanner.listed /\ scanner.data = TheScanner /\ "resolution" \in setup.device.has /\ setup \in Setups
  BY DEF Handled, Listed
<1>2. PICK b \in BOOLEAN :
         /\ job = [JobOf(b) EXCEPT !.state = job.state]
         /\ \/ job.state = JobOf(b).state /\ job.state = "aborted"
            \/ /\ cur = SessionOf(b)
               /\ job.state = IF LineLengthFits(cur, JobOf(b)) THEN "processing" ELSE "aborted"
  BY DEF Handled
<1>3. JobOf(b) = JobInit(TheScanner, job.ticket, b)
  BY <1>1 DEF JobOf
<1>4. /\ cur = SessionOf(b)
      /\ job.state = IF LineLengthFits(cur, JobOf(b)) THEN "processing" ELSE "aborted"
  BY <1>2, <1>3
<1>5. SetFor(cur, JobOf(b), setup.device)
  BY <1>1, <1>4, SessionIsSet DEF SessionOf
<1>6. job.bits = JobOf(b).bits
  <2>1. Changed(JobOf(b), job.ticket, job.state, job.state)
    BY JobChanged DEF JobOf
  <2> QED BY <1>2, <2>1 DEF Changed
<1> QED BY <1>1, <1>3, <1>4, <1>5, <1>6

(* A ticket of the capabilities asks for a mode that there is.              *)
LEMMA OfferedMode ==
    ASSUME NEW t, t.color \in TheScanner.colorSpaces
    PROVE  /\ ModeKnown(t, TheScanner) /\ t.color \in {"grayscale", "color"}
           /\ t.color = "color" => TheScanner.color # ""
           /\ t.color = "grayscale" => TheScanner.gray # ""
<1>1. TheScanner.colorSpaces = (IF TheScanner.gray = "" THEN {} ELSE {"grayscale"})
                               \cup (IF TheScanner.color = "" THEN {} ELSE {"color"})
  <2> DEFINE s == TheScanner
  <2>1. /\ s.gray = Gray(setup.device) /\ s.color = FindColorName(Modes(setup.device))
        /\ s.colorSpaces = (IF Gray(setup.device) = "" THEN {} ELSE {"grayscale"})
                           \cup (IF FindColorName(Modes(setup.device)) = "" THEN {} ELSE {"color"})
    BY InitFields DEF TheScanner
  <2> QED BY ONLY <2>1
<1> QED BY <1>1 DEF ModeKnown

(* OfferedScannable: for every device that IsDevice and Usual describe, and  *)
(* whatever options.conf has set before, a ticket made from the capabilities *)
(* is scanned from the source, in the mode and at the resolution it asks for. *)
THEOREM OfferedScannableHolds == Spec => []OfferedScannable
<1>1. Listed /\ Handled => OfferedScannable
  <2> SUFFICES ASSUME Listed, Handled, pc = "done", Usual(setup.device),
                      job.ticket \in OfferedTickets(scanner.data)
               PROVE  /\ job.state = "processing"
                      /\ cur.resolution = job.ticket.res
                      /\ "source" \in setup.device.has =>
                            (cur.source \in Feeders \cup DuplexFeeders <=> job.ticket.source = "Feeder")
                            /\ (cur.source \in DuplexFeeders <=> job.ticket.duplex)
    BY DEF OfferedScannable
  <2> DEFINE t == job.ticket
             s == TheScanner
             dev == setup.device
  <2>1. scanner.data = s /\ setup \in Setups
    BY DEF Listed, Handled
  <2>2. /\ AsksFor(t, s) /\ t.duplex \in BOOLEAN
        /\ t.color \in s.colorSpaces /\ t.res \in ToSet(s.resolutions)
    BY <2>1, TicketOffered
  <2>3. /\ ModeKnown(t, s) /\ t.color \in {"grayscale", "color"}
        /\ t.color = "color" => s.color # ""
        /\ t.color = "grayscale" => s.gray # ""
    BY <2>2, OfferedMode
  <2>4. Accepts(dev.res, t.res) /\ t.res \in Nat \ {0}
    <3>1. s.resolutions = DiscreteResolutions(dev.res)
      BY InitFields DEF TheScanner
    <3>2. ResConstraint(dev.res)
      BY <2>1, SetupsAssumption DEF IsDevice
    <3> QED BY <2>2, <3>1, <3>2, OfferedAccepted
  <2>5. t.source \in {"Platen", "Feeder"}
    BY <2>2 DEF AsksFor
  <2>6. ASSUME NEW b \in BOOLEAN
        PROVE  JobFor(JobInit(s, t, b), t, s)
    <3>1. Understood(t, s)
      BY <2>2, <2>3, <2>4, <2>5 DEF Understood
    <3> QED BY <3>1, JobOfTicket
  <2>7. PICK b \in BOOLEAN :
           LET j == JobInit(s, t, b) IN
           /\ SetFor(cur, j, dev)
           /\ job.state = IF LineLengthFits(cur, j) THEN "processing" ELSE "aborted"
    BY <2>6, JobAtEnd DEF JobFor
  <2>8. "resolution" \in dev.has
    BY DEF Listed, Handled
  <2> DEFINE j == JobInit(s, t, b)
  <2>9. /\ j.mode \in (NamesWith.gray \cup NamesWith.color) \cap ToSet(dev.modes)
        /\ j.mode \in NamesWith.color <=> j.colorScan \/ j.synthesizeGray
    BY <2>1, <2>3, JobMode
  <2>10. "mode" \in dev.has
    BY <2>1, ModeKinds
  <2>11. /\ SetFor(cur, j, dev)
         /\ job.state = IF LineLengthFits(cur, j) THEN "processing" ELSE "aborted"
         /\ j.res = t.res
         /\ j.source = IF t.source = "Platen" THEN s.platen.name
                       ELSE IF t.duplex THEN s.adfDuplex.name ELSE s.adfSimplex.name
    BY <2>6, <2>7 DEF JobFor
  <2>12. "source" \in dev.has =>
            /\ Named(s.platen, dev, SourceNames \ (Feeders \cup DuplexFeeders))
            /\ Named(s.adfSimplex, dev, Feeders) /\ Named(s.adfDuplex, dev, DuplexFeeders)
    BY <2>1, SourceKinds
  <2>13. SourceChoice(dev) \/ "source" \notin dev.has
    BY DEF Usual, SourceChoice
  <2> HIDE DEF j, s, t, dev
  <2>14. job.state = "processing"
    <3>1. cur.mode = j.mode
      BY <2>9, <2>10, <2>11 DEF SetFor
    <3>2. LineLengthFits(cur, j)
      BY <2>9, <3>1 DEF LineLengthFits, Components
    <3> QED BY <2>11, <3>2
  <2>15. cur.resolution = t.res
    BY <2>4, <2>8, <2>11 DEF SetFor
  <2>16. ASSUME "source" \in dev.has
         PROVE  /\ cur.source \in Feeders \cup DuplexFeeders <=> t.source = "Feeder"
                /\ cur.source \in DuplexFeeders <=> t.duplex
    <3>1. Feeders \cap DuplexFeeders = {}
      BY DEF Feeders, DuplexFeeders, AdfLong, AdfLongDuplex
    <3>2. j.source \in ToSet(dev.sources) => cur.source = j.source
      BY <2>11, <2>13, <2>16 DEF SetFor
    <3>3. CASE t.source = "Platen" /\ ~t.duplex /\ s.platen # NoSource
      <4>1. j.source \in ToSet(dev.sources) /\ j.source \notin Feeders \cup DuplexFeeders
        BY <2>11, <2>12, <2>16, <3>3 DEF Named
      <4> QED BY <3>2, <3>3, <4>1
    <3>4. CASE t.source = "Feeder" /\ ~t.duplex /\ s.adfSimplex # NoSource
      <4>1. j.source \in ToSet(dev.sources) /\ j.source \in Feeders
        BY <2>11, <2>12, <2>16, <3>4 DEF Named
      <4> QED BY <3>1, <3>2, <3>4, <4>1
    <3>5. CASE t.source = "Feeder" /\ t.duplex /\ s.adfDuplex # NoSource
      <4>1. j.source \in ToSet(dev.sources) /\ j.source \in DuplexFeeders
        BY <2>11, <2>12, <2>16, <3>5 DEF Named
      <4> QED BY <3>1, <3>2, <3>5, <4>1
    <3> QED BY <2>2, <3>3, <3>4, <3>5 DEF AsksFor
  <2> QED BY <2>14, <2>15, <2>16 DEF t, dev
<1> QED BY <1>1, ListedHolds, HandledHolds, PTL

-----------------------------------------------------------------------------
(* Depths.                                                                  *)

\* Depths that the device can be set to, or the one it has.
DepthOk(dev, n) ==
    /\ "depth" \in dev.has => n \in ToSet(dev.depths)
    /\ "depth" \notin dev.has => n = 8

\* The largest depth of a source.
MaxBitsOf(dev) == IF "depth" \in dev.has THEN Max(ToSet(dev.depths)) ELSE 8

(* It is 8, or 16 if the device has that.                                   *)
LEMMA LargestDepth ==
    ASSUME NEW dev, UsualDepths(dev)
    PROVE  /\ DepthOk(dev, 8)
           /\ MaxBitsOf(dev) = 8 \/ (MaxBitsOf(dev) = 16 /\ DepthOk(dev, 16))
<1>1. CASE "depth" \notin dev.has
  BY <1>1 DEF MaxBitsOf, DepthOk
<1>2. CASE "depth" \in dev.has
  <2> DEFINE S == ToSet(dev.depths)
  <2>1. 8 \in S /\ S \subseteq {1, 8, 16}
    BY <1>2 DEF UsualDepths
  <2>2. DepthOk(dev, 8) /\ MaxBitsOf(dev) = Max(S) /\ (16 \in S => DepthOk(dev, 16))
    BY <1>2, <2>1 DEF DepthOk, MaxBitsOf
  <2> HIDE DEF S
  <2>3. Max(S) \in S /\ \A y \in S : Max(S) >= y
    <3>1. \E x \in S : \A y \in S : x >= y
      <4>1. CASE 16 \in S
        BY <2>1, <4>1
      <4>2. CASE 16 \notin S
        BY <2>1, <4>2
      <4> QED BY <4>1, <4>2
    <3> QED BY <3>1, Zenon DEF Max
  <2>4. Max(S) # 1
    BY <2>1, <2>3
  <2>5. Max(S) = 8 \/ (Max(S) = 16 /\ 16 \in S)
    BY <2>1, <2>3, <2>4
  <2> QED BY <2>2, <2>5
<1> QED BY <1>1, <1>2

(* Every source has it.                                                     *)
LEMMA SourceDepths ==
    ASSUME NEW src \in Sources(TheScanner)
    PROVE  src.maxBits = MaxBitsOf(setup.device)
<1> DEFINE dev == setup.device
           o == ScannerOptions(setup.options)
<1>1. /\ TheScanner.platen = SourceOf(dev, Flatbed(dev), Cur1(dev, o))
      /\ TheScanner.adfSimplex = SourceOf(dev, Simplex(dev), Cur2(dev, o))
      /\ TheScanner.adfDuplex = SourceOf(dev, Duplex(dev), Cur3(dev, o))
  BY InitFields DEF TheScanner
<1>2. ASSUME NEW name, NEW c, SourceOf(dev, name, c) # NoSource
      PROVE  SourceOf(dev, name, c).maxBits = MaxBitsOf(dev)
  <2>1. SourceOf(dev, name, c) = InitSource(dev, c)
    BY <1>2 DEF SourceOf
  <2>2. InitSource(dev, c).maxBits = IF "depth" \in dev.has THEN MaxOf(DepthConstraint(dev)) ELSE 8
    BY DEF InitSource
  <2>3. MaxOf(DepthConstraint(dev)) = Max(ToSet(dev.depths))
    BY DEF MaxOf, DepthConstraint
  <2> QED BY <2>1, <2>2, <2>3 DEF MaxBitsOf
<1>3. src \in {TheScanner.platen, TheScanner.adfSimplex, TheScanner.adfDuplex} /\ src # NoSource
  BY DEF Sources
<1> HIDE DEF dev, o
<1>4. CASE src = TheScanner.platen
  BY <1>1, <1>2, <1>3, <1>4 DEF dev
<1>5. CASE src = TheScanner.adfSimplex
  BY <1>1, <1>2, <1>3, <1>5 DEF dev
<1>6. CASE src = TheScanner.adfDuplex
  BY <1>1, <1>2, <1>3, <1>6 DEF dev
<1> QED BY <1>3, <1>4, <1>5, <1>6

(* The tickets of the capabilities ask for depths of the device.            *)
LEMMA OfferedDepth ==
    ASSUME UsualDepths(setup.device), NEW t, DepthOffered(t, TheScanner)
    PROVE  DepthOk(setup.device, t.bits)
<1>1. PICK src \in Sources(TheScanner) : t.bits \in {8 * k : k \in 1 .. src.maxBits \div 8}
  BY DEF DepthOffered
<1>2. src.maxBits = MaxBitsOf(setup.device)
  BY SourceDepths
<1>3. /\ DepthOk(setup.device, 8)
      /\ MaxBitsOf(setup.device) = 8 \/ (MaxBitsOf(setup.device) = 16 /\ DepthOk(setup.device, 16))
  BY LargestDepth
<1>4. PICK k \in 1 .. src.maxBits \div 8 : t.bits = 8 * k
  BY <1>1
<1>5. t.bits = 8 \/ (t.bits = 16 /\ MaxBitsOf(setup.device) = 16)
  <2>1. CASE MaxBitsOf(setup.device) = 8
    <3>1. 8 \div 8 = 1
      OBVIOUS
    <3>2. k = 1
      BY <1>2, <1>4, <2>1, <3>1
    <3> QED BY <1>4, <3>2
  <2>2. CASE MaxBitsOf(setup.device) = 16
    <3>1. 16 \div 8 = 2
      OBVIOUS
    <3>2. k = 1 \/ k = 2
      BY <1>2, <1>4, <2>2, <3>1
    <3> QED BY <1>4, <2>2, <3>2
  <2> QED BY <1>3, <2>1, <2>2
<1>6. CASE t.bits = 8
  BY <1>3, <1>6
<1>7. CASE t.bits = 16 /\ MaxBitsOf(setup.device) = 16
  <2>1. 16 # 8
    OBVIOUS
  <2> QED BY <1>3, <1>7, <2>1
<1> QED BY <1>5, <1>6, <1>7

(* And so do those of the form, in a mode that there is.                    *)
LEMMA FormTicket ==
    ASSUME UsualDepths(setup.device), NEW t \in FormTickets(TheScanner)
    PROVE  DepthOk(setup.device, t.bits) /\ ModeKnown(t, TheScanner)
<1> DEFINE s == TheScanner
           X == {x.maxBits : x \in Sources(s)} \cup {8}
           bits == IF Max(X) = 16 THEN {8, 16} ELSE {8}
           res == {s.minRes} \cup {r \in {300, 600, 1200} : s.maxRes >= r}
           I == s.inputSources
           C == s.colorSpaces
           p == Max({50, s.minRes})
           no == FALSE
           A == {Ticket(src, no, c, b, r, "TextAndGraphic") : src \in I, c \in C, b \in bits, r \in res}
           B == {Ticket(src, no, "color", 8, p, "Preview") : src \in I}
<1>0. FormTickets(s) = A \cup B
  BY DEF FormTickets
<1> HIDE DEF A, B
<1>1. t \in A \/ t \in B
  BY <1>0
<1>2. DepthOk(setup.device, 8)
  BY LargestDepth
<1>3. ASSUME NEW n \in bits PROVE DepthOk(setup.device, n)
  <2>1. CASE n = 8
    BY <1>2, <2>1
  <2>2. CASE Max(X) = 16 /\ n = 16
    <3>1. ASSUME DepthOk(setup.device, 16) PROVE DepthOk(setup.device, n)
      BY <2>2, <3>1
    <3>2. CASE MaxBitsOf(setup.device) = 16
      <4>1. 16 # 8
        OBVIOUS
      <4> QED BY <3>1, <3>2, <4>1, LargestDepth
    <3>3. CASE MaxBitsOf(setup.device) = 8
      <4>1. X = {8}
        BY <3>3, SourceDepths
      <4> HIDE DEF X
      <4>2. Max(X) = 8
        BY <4>1 DEF Max
      <4> QED BY <2>2, <4>2
    <3> QED BY <3>2, <3>3, LargestDepth
  <2> HIDE DEF X
  <2> QED BY <2>1, <2>2
<1> HIDE DEF I, C, bits, res, p, no
<1>4. CASE t \in A
  <2>1. PICK src \in I, c \in C, b \in bits, r \in res : t = Ticket(src, no, c, b, r, "TextAndGraphic")
    BY <1>4 DEF A
  <2>2. t.color = c /\ t.bits = b
    BY <2>1 DEF Ticket
  <2>3. t.color \in TheScanner.colorSpaces /\ t.bits \in bits
    BY ONLY <2>1, <2>2 DEF C
  <2> QED BY <1>3, <2>3, OfferedMode
<1>5. CASE t \in B
  <2>1. PICK src \in I : t = Ticket(src, no, "color", 8, p, "Preview")
    BY <1>5 DEF B
  <2>2. t.color = "color" /\ t.bits = 8 /\ t.intent = "Preview"
    BY <2>1 DEF Ticket
  <2> QED BY <1>2, <2>2 DEF ModeKnown
<1> QED BY <1>1, <1>4, <1>5

(* SampleWidth: the depth that applyGamma and synthesizeGray take for        *)
(* granted is the one the device was set to, for every usual device and      *)
(* every ticket of the capabilities or of the form.                          *)
THEOREM SampleWidthHolds == Spec => []SampleWidth
<1>1. Listed /\ Handled => SampleWidth
  <2> SUFFICES ASSUME Listed, Handled, pc = "done", Usual(setup.device), UsualDepths(setup.device),
                      job.state = "processing",
                      job.ticket \in OfferedTickets(scanner.data) \cup FormTickets(scanner.data)
               PROVE  cur.depth = job.bits
    BY DEF SampleWidth
  <2> DEFINE t == job.ticket
             dev == setup.device
  <2>1. scanner.data = TheScanner /\ setup \in Setups
    BY DEF Listed, Handled
  <2>2. DepthOk(dev, t.bits) /\ ModeKnown(t, TheScanner)
    <3>1. CASE t \in OfferedTickets(TheScanner)
      <4>1. t.color \in TheScanner.colorSpaces /\ DepthOffered(t, TheScanner)
        BY <3>1, TicketOffered
      <4> QED BY <4>1, OfferedDepth, OfferedMode
    <3>2. CASE t \in FormTickets(TheScanner)
      BY <3>2, FormTicket
    <3> QED BY <2>1, <3>1, <3>2
  <2>3. PICK b \in BOOLEAN :
           LET j == JobInit(TheScanner, t, b) IN
           /\ SetFor(cur, j, dev)
           /\ job.bits = j.bits
    BY JobAtEnd
  <2> DEFINE j == JobInit(TheScanner, t, b)
  <2>4. /\ j.mode \in (NamesWith.gray \cup NamesWith.color) \cap ToSet(dev.modes)
        /\ j.bits \in {t.bits, 8}
    BY <2>1, <2>2, JobMode
  <2>5. "mode" \in dev.has
    BY <2>1, ModeKinds
  <2>6. SetFor(cur, j, dev) /\ job.bits = j.bits
    BY <2>3
  <2>7. DepthOk(dev, 8)
    BY LargestDepth
  <2> HIDE DEF j
  <2>8. DepthOk(dev, j.bits)
    BY <2>2, <2>4, <2>7
  <2>9. j.mode \notin Monochrome
    BY <2>4 DEF NamesWith, Monochrome
  <2>10. CASE "depth" \in dev.has
    <3>1. j.mode \in dev.depthModes
      BY <2>4, <2>9, <2>10 DEF UsualDepths
    <3>2. j.bits \in ToSet(dev.depths)
      BY <2>8, <2>10 DEF DepthOk
    <3> QED BY <2>4, <2>5, <2>6, <2>10, <3>1, <3>2 DEF SetFor
  <2>11. CASE "depth" \notin dev.has
    <3>1. j.bits = 8
      BY <2>8, <2>11 DEF DepthOk
    <3>2. cur.mode = j.mode /\ cur \in Values(dev)
      BY <2>4, <2>5, <2>6 DEF SetFor
    <3>3. cur.depth = DepthIn(dev, cur.mode)
      BY <2>11, <3>2 DEF Values
    <3> QED BY <2>6, <2>9, <3>1, <3>2, <3>3 DEF DepthIn
  <2> QED BY <2>10, <2>11
<1> QED BY <1>1, ListedHolds, HandledHolds, PTL
=============================================================================
