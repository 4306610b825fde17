----------------------------- MODULE AccessFile -----------------------------
(***************************************************************************)
(* web/accessfile.cpp: which clients may connect.                           *)
(*                                                                         *)
(* An address is its family and the set of its one bits, numbered in        *)
(* network order: bit 0 is the highest bit of the first byte.  A line of    *)
(* the file is a record of its kind, a word, and its rule; comments and     *)
(* empty lines are left out.                                                *)
(***************************************************************************)
EXTENDS Integers, Sequences, Subsequence

CONSTANTS
    ByteBits,   \* bits of a byte
    Bytes       \* Bytes[f]: bytes of an address of family f

ASSUME AccessAssumption ==
    /\ ByteBits \in Nat \ {0}
    /\ DOMAIN Bytes = {"INET", "INET6"} /\ \A f \in DOMAIN Bytes : Bytes[f] \in Nat \ {0}

Width(fam) == Bytes[fam] * ByteBits
NoPrefix == -1      \* bits, when the rule has no "/"

\* What a line may hold: a word and a rule.  The prefix is what atoi returns;
\* an illegal rule is one that inet_pton does not take.
Rule ==
    [type : {"address"}, fam : DOMAIN Bytes, addr : SUBSET Nat, bits : Int]
    \cup [type : {"local"}, ifname : STRING]
    \cup [type : {"illegal"}]
Line == [kind : {"allow", "deny", "other"}, rule : Rule]

-----------------------------------------------------------------------------
\* Where 1 << (i % 8) in byte i / 8 stands in network order.
MaskBit(i) == (i \div ByteBits) * ByteBits + (ByteBits - 1 - (i % ByteBits))

\* Mutant: the bit after the prefix belongs to the mask.
SetMaskBitsInclusive(addr, fam, bits) ==
    IF bits > Width(fam) THEN addr ELSE {MaskBit(i) : i \in 0 .. bits} \cap (0 .. Width(fam) - 1)

\* SetMaskBits, on a copy of the address.  A prefix that is too long leaves
\* the copy as it is, and nobody looks at the result.
SetMaskBits(addr, fam, bits) ==
    IF bits > Width(fam) THEN addr ELSE {MaskBit(i) : i \in 0 .. bits - 1}

MatchAddresses(client, network) ==
    /\ client.fam = network.fam
    /\ client.addr \cap network.mask = network.addr \cap network.mask

-----------------------------------------------------------------------------
(* Entry::parse.  An entry that fails to parse has no networks. *)

\* "local on": the networks of an interface, or of all.  An address of another
\* family, as every Linux interface has, stores the network as it was found in
\* memory.
LocalNetworks(ifname, interfaces, garbage) ==
    {IF i.fam \in DOMAIN Bytes THEN [fam |-> i.fam, addr |-> i.addr, mask |-> i.mask]
                               ELSE garbage :
        i \in {f \in interfaces : ifname \in {"*", f.name}}}

AddressNetwork(rule) ==
    LET bits == IF rule.bits = NoPrefix THEN Width(rule.fam) ELSE rule.bits
    IN [fam |-> rule.fam, addr |-> rule.addr, mask |-> SetMaskBits(rule.addr, rule.fam, bits)]

Networks(rule, interfaces, garbage) ==
    CASE rule.type = "local" -> LocalNetworks(rule.ifname, interfaces, garbage)
      [] rule.type = "address" -> {AddressNetwork(rule)}
      [] rule.type = "illegal" -> {}

Parse(line, interfaces, garbage) ==
    [kind |-> line.kind,
     networks |-> IF line.kind \in {"allow", "deny"}
                  THEN Networks(line.rule, interfaces, garbage) ELSE {}]

\* The constructor; Errors is what it puts into mErrors.
Errors(lines, interfaces, garbage) ==
    {i \in DOMAIN lines : Parse(lines[i], interfaces, garbage).networks = {}}
ReadFile(lines, interfaces, garbage) ==
    Pick([i \in DOMAIN lines |-> Parse(lines[i], interfaces, garbage)],
         DOMAIN lines \ Errors(lines, interfaces, garbage))

-----------------------------------------------------------------------------
Matching(entries, client) ==
    {i \in DOMAIN entries : \E n \in entries[i].networks : MatchAddresses(client, n)}

First(is) == CHOOSE i \in is : \A j \in is : i <= j

IsAllowed(entries, client) ==
    LET is == Matching(entries, client)
    IN \/ entries = <<>>
       \/ is # {} /\ entries[First(is)].kind = "allow"

-----------------------------------------------------------------------------
(* What etc/access.conf says of the rules, for properties. *)

\* A range of addresses: those that agree in their first bits.
InRange(client, fam, addr, bits) ==
    /\ client.fam = fam
    /\ \A i \in 0 .. bits - 1 : i \in client.addr <=> i \in addr

Means(rule, client, interfaces) ==
    CASE rule.type = "local" ->
            \E i \in interfaces :
               /\ i.fam \in DOMAIN Bytes /\ rule.ifname \in {"*", i.name}
               /\ client.fam = i.fam
               /\ \A k \in i.mask : k \in client.addr <=> k \in i.addr
      [] rule.type = "address" ->
            InRange(client, rule.fam, rule.addr,
                    IF rule.bits = NoPrefix THEN Width(rule.fam) ELSE rule.bits)

\* "Entries are matched from top to bottom.  [...] If no match occurs, a Deny
\* will be the result.  [...] an empty list will always result in an Allow."
Documented(lines, client, interfaces) ==
    LET is == {i \in DOMAIN lines : Means(lines[i].rule, client, interfaces)}
    IN lines = <<>> \/ \E i \in is : lines[i].kind = "allow" /\ \A j \in is : i <= j

WholeBytes(line) == line.rule.type = "address" => line.rule.bits % ByteBits = 0 \/ line.rule.bits = NoPrefix
WithinWidth(line) == line.rule.type = "address" => line.rule.bits <= Width(line.rule.fam)
=============================================================================
