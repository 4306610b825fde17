-------------------------- MODULE MCConfiguration --------------------------
(***************************************************************************)
(* Instances of Configuration for TLC: access files with one device, and    *)
(* devices and options files with one access file.  Bytes have two bits.    *)
(***************************************************************************)
EXTENDS Configuration

SmallBytes == [INET |-> 2, INET6 |-> 2]

Scan(res) ==
    [has |-> {"source", "mode", "depth", "resolution"},
     sources |-> <<"Flatbed", "ADF", "ADF Duplex">>, sourceActive |-> TRUE,
     modes |-> <<"Lineart", "Gray", "Color">>,
     depths |-> <<8, 16>>, depthModes |-> {"Gray", "Color"},
     res |-> res,
     defaults |-> [source |-> "Flatbed", mode |-> "Lineart", depth |-> 1, resolution |-> MinOf(res)],
     unit |-> "mm"]
List == [type |-> "list", values |-> <<100, 300>>]

Plain(device) ==
    [unixSocket |-> FALSE, access |-> <<>>, interfaces |-> {}, garbage |-> [fam |-> "other"],
     options |-> <<>>, ignore |-> <<>>, device |-> device,
     clients |-> {[fam |-> "INET", addr |-> {}]}]

-----------------------------------------------------------------------------
(* Access files of up to two lines, with a device that is not listed *)

Net(fam, addr, bits) == [type |-> "address", fam |-> fam, addr |-> addr, bits |-> bits]
Addresses == {{}, {0}, {0, 3}}
Rules(prefixes) ==
    {Net("INET", a, b) : a \in Addresses, b \in prefixes} \cup {Net("INET6", {0}, 2)}
    \cup {[type |-> "local", ifname |-> n] : n \in {"*", "eth"}} \cup {[type |-> "illegal"]}
Lines(prefixes) == {[kind |-> k, rule |-> r] : k \in {"allow", "deny"}, r \in Rules(prefixes)}
                   \cup {[kind |-> "other", rule |-> [type |-> "illegal"]]}

Lo == [name |-> "lo", fam |-> "INET", addr |-> {3}, mask |-> 0 .. 3]
Eth == [name |-> "eth", fam |-> "INET", addr |-> {1, 3}, mask |-> {0, 1}]
EthPacket == [name |-> "eth", fam |-> "PACKET"]
Found == [fam |-> "INET", addr |-> {0}, mask |-> {0, 1}]    \* in uninitialised memory

ManyClients == {[fam |-> "INET", addr |-> a] : a \in SUBSET (0 .. 3)}
               \cup {[fam |-> "INET6", addr |-> {0}], [fam |-> "INET6", addr |-> {}]}

AccessSetups(prefixes, pairs) ==
    {[Plain([Scan(List) EXCEPT !.unit = "bit"]) EXCEPT
         !.access = f, !.interfaces = i, !.garbage = g, !.clients = ManyClients] :
        f \in {<<>>} \cup {<<l>> : l \in Lines(prefixes)}
              \cup (IF pairs THEN Lines(prefixes) \X Lines(prefixes) ELSE {}),
        i \in {{Lo}, {Lo, Eth, EthPacket}},
        g \in {[fam |-> "other"], Found}}

-----------------------------------------------------------------------------
(* Devices *)

Ranges == {[type |-> "range", min |-> lo, max |-> hi, quant |-> q] :
              lo \in {1, 50, 75, 100, 350}, hi \in {350, 601, 1200}, q \in {0, 1, 7, 25, 400}}

SourceLists ==
    {<<"Flatbed">>, <<"FlatBed", AdfLong>>, <<"Platen", "ADF Duplex", "ADF Simplex">>, <<"ADF Front">>,
     <<"ADF Duplex">>, <<AdfLong, AdfLongDuplex>>, <<"Normal", AdfLongDuplex, "ADF">>,
     <<"Flatbed", AdfLongDuplex>>, <<"Transparency Adapter">>}
ModeLists ==
    {<<"Lineart", "Gray", "Color">>, <<"Color">>, <<"Gray">>, <<"Lineart">>,
     <<"Halftone", "16bit Gray", "24bit Color">>, <<"Gray", "True Gray", "Color">>}
DepthLists == {<<8>>, <<8, 16>>, <<16, 8>>, <<1, 8, 16>>, <<1>>}

Device(sources, modes, depths, has, active, unit) ==
    [Scan(List) EXCEPT
        !.has = has, !.sources = sources, !.sourceActive = active, !.modes = modes,
        !.depths = depths, !.unit = unit,
        !.depthModes = ToSet(modes) \ Monochrome,
        !.defaults = [source |-> Head(sources), mode |-> Head(modes),
                      depth |-> IF Head(modes) \in Monochrome THEN 1 ELSE Head(depths),
                      resolution |-> 100]]
All == {"source", "mode", "depth", "resolution"}

OptionsFiles ==
    {<<>>, << <<"gray-gamma", 2>> >>, << <<"color-gamma", 2>>, <<"device", TRUE>>, <<"synthesize-gray", "yes">> >>,
     << <<"device", FALSE>>, <<"synthesize-gray", "yes">>, <<"gray-gamma", 2>> >>,
     << <<"synthesize-gray", "true">>, <<"depth", 16>>, <<"device", TRUE>>, <<"mode", "Lineart">>,
        <<"gray-gamma", 1>>, <<"synthesize-gray", "no">> >>}

DeviceSetups ==
    {[Plain(d) EXCEPT !.options = o] :
        d \in {Device(s, m, b, All, TRUE, "mm") : s \in SourceLists, m \in ModeLists, b \in DepthLists}
              \cup {Device(src, m, <<8>>, h, a, u) :
                      src \in {<<"Flatbed">>, <<"Flatbed", "ADF">>},
                      m \in {<<"Gray">>, <<"Lineart", "Gray", "Color">>}, a \in BOOLEAN,
                      u \in {"mm", "pixel", "mixed"},
                      h \in {All, {"resolution"}, All \ {"source"}, All \ {"mode"}, All \ {"depth"},
                             All \ {"resolution"}}},
        o \in OptionsFiles}

IgnoreSetups ==
    {[Plain(Scan(List)) EXCEPT !.ignore = << [first |-> f, matches |-> m] >>, !.unixSocket = u] :
        f \in {"#", "//", " ", "e"}, m \in BOOLEAN, u \in BOOLEAN}

MCSetups ==
    AccessSetups({NoPrefix, 0, 2, 5}, TRUE)
    \cup {Plain(Scan(r)) : r \in Ranges} \cup DeviceSetups \cup IgnoreSetups

AnyLengthSetups == AccessSetups({NoPrefix, 1, 3}, FALSE)

MCOddTickets ==
    {Ticket(None, FALSE, c, 8, 0, i) : c \in {None, "BlackAndWhite"}, i \in {"Photo", "Document"}}
    \cup {Ticket("Camera", FALSE, "color", 8, 75, "Photo"), Ticket("Platen", FALSE, "color", 8, Unequal, "Photo")}
=============================================================================
