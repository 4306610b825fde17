---------------------------- MODULE Capabilities ----------------------------
(***************************************************************************)
(* What a scanner offers (Scanner::Private::init2 and the capabilities and  *)
(* the form made from it), and what a job makes of a ticket                 *)
(* (ScanJob::Private::init, openSession, and the checks of finishTransfer). *)
(***************************************************************************)
EXTENDS SaneOptions, Subsequence

CONSTANTS
    BaseDpi,        \* the resolution that is doubled: 75
    MaxDoublings    \* bound: rounds of the loop

ASSUME ResolutionsAssumption == BaseDpi \in Nat \ {0} /\ MaxDoublings \in Nat

None == "none"                \* a field that a ticket leaves out
Unequal == -1                 \* a ticket with two resolutions
NoSource == [name |-> "", maxBits |-> 0, error |-> FALSE]

-----------------------------------------------------------------------------
(* Names of sources and modes *)

AdfLong == "Automatic Document Feeder"
AdfLongDuplex == "Automatic Document Feeder(left aligned,Duplex)"
NamesWith == [adf |-> {AdfLong, AdfLongDuplex},
              adfDuplex |-> {AdfLongDuplex},
              gray |-> {"True Gray", "Gray", "16bit Gray"},
              color |-> {"Color", "24bit Color"}]

\* The names told apart; NamesWith has those of them that contain a text.
SourceNames ==
    {"Flatbed", "FlatBed", "Platen", "Auto", "Normal", AdfLong, AdfLongDuplex,
     "ADF", "ADF Simplex", "ADF Front", "ADF Duplex", "Transparency Adapter"}
ModeNames == Monochrome \cup NamesWith.gray \cup NamesWith.color

\* The first of the wanted names that the device has, or else the first name
\* that contains a text, or nothing.
FindName(names, wanted, containing) ==
    LET exact == {w \in DOMAIN wanted : wanted[w] \in ToSet(names)}
        similar == {n \in DOMAIN names : names[n] \in containing}
    IN IF exact # {} THEN wanted[Min(exact)]
       ELSE IF similar # {} THEN names[Min(similar)] ELSE ""

FindFlatbedName(names) == FindName(names, <<"Flatbed", "FlatBed", "Platen", "Auto", "Normal">>, {})
\* Mutant: any document feeder will do.
FindAdfSimplexAny(names) ==
    FindName(names, <<AdfLongDuplex, "ADF Duplex", AdfLong, "ADF Simplex", "ADF Front", "ADF">>, {})
FindAdfSimplexName(names) ==
    FindName(names, <<AdfLong, "ADF Simplex", "ADF Front", "ADF">>, NamesWith.adf)
FindAdfDuplexName(names) == FindName(names, <<"ADF Duplex">>, NamesWith.adfDuplex)
FindGrayName(names) == FindName(names, <<"True Gray", "Gray">>, NamesWith.gray)
FindColorName(names) == FindName(names, <<"Color">>, NamesWith.color)

-----------------------------------------------------------------------------
(* Resolutions *)

RoundToNearestStep(value, min, step) == min + ((value - min) \div step) * step

\* r, after k rounds of the loop.
Dpi[k \in 0 .. MaxDoublings] == IF k = 0 THEN BaseDpi ELSE 2 * Dpi[k - 1]

\* What discretizeResolutions looks at, in order: min, r2 of each round, and r2
\* after the loop.
Candidates(min, step, last) ==
    <<min>> \o [n \in 1 .. MaxDoublings |-> RoundToNearestStep(Dpi[n - 1], min, step)] \o <<last>>

\* The places of those it comes to, when the loop ends with the first r2 above
\* max, and of those it pushes: the ones that are greater than what is there,
\* which is in ascending order.
Tried(rs, max) ==
    {n \in DOMAIN rs : n = Len(rs) \/ \A i \in 2 .. n : rs[i] <= max}
Pushed(rs, max) ==
    {n \in Tried(rs, max) : \A i \in Tried(rs, max) : i < n => rs[i] < rs[n]}

\* Mutant: the largest resolution is offered as it is.
DiscretizeUnrounded(min, max, quant) ==
    LET step == IF quant < 1 THEN 1 ELSE quant
        rs == Candidates(min, step, max)
    IN Pick(rs, Pushed(rs, max))

DiscretizeResolutions(min, max, quant) ==
    LET step == IF quant < 1 THEN 1 ELSE quant
        rs == Candidates(min, step, RoundToNearestStep(max, min, step))
    IN Pick(rs, Pushed(rs, max))

DiscreteResolutions(c) ==
    IF AllowedNumericValues(c) # <<>> THEN AllowedNumericValues(c)
    ELSE DiscretizeResolutions(MinOf(c), MaxOf(c), Quant(c))

-----------------------------------------------------------------------------
(* init2 *)

\* InputSource::init, after the source has been set: the name is read back.
InitSource(dev, cur) ==
    [name |-> StringValue(dev, cur, "source"),
     maxBits |-> IF "depth" \in dev.has THEN MaxOf(DepthConstraint(dev)) ELSE 8,
     error |-> dev.unit \notin {"mm", "pixel"}]

\* The values after the steps of init2 that set the source, in their order.
WithSource(dev, cur, name) == IF name \in {"", "-"} THEN cur ELSE SetValue(dev, cur, "source", name)

\* init2, for a device that has been opened; the error is the one of the last
\* source.
Init2(dev, options) ==
    LET cur0 == ApplyOptions(dev, dev.defaults, options.sane_options)
        listed == AllowedStringValues(dev, "mode")
        modes == IF listed = <<>> THEN <<"Gray", "Color">> ELSE listed
        color == FindColorName(modes)
        gray == IF FindGrayName(modes) = "" /\ color = "" THEN "Gray" ELSE FindGrayName(modes)
        sources == AllowedStringValues(dev, "source")
        simplex == FindAdfSimplexName(sources)
        duplex == FindAdfDuplexName(sources)
        flatbed == IF FindFlatbedName(sources) = "" /\ simplex = "" /\ duplex = ""
                   THEN "-" ELSE FindFlatbedName(sources)
        cur1 == WithSource(dev, cur0, flatbed)
        cur2 == WithSource(dev, cur1, simplex)
        cur3 == WithSource(dev, cur2, duplex)
        Source(name, cur) == IF name = "" THEN NoSource ELSE InitSource(dev, cur)
    IN [platen |-> Source(flatbed, cur1),
        adfSimplex |-> Source(simplex, cur2),
        adfDuplex |-> Source(duplex, cur3),
        inputSources |-> (IF flatbed = "" THEN {} ELSE {"Platen"})
                         \cup (IF simplex = "" /\ duplex = "" THEN {} ELSE {"Feeder"}),
        gray |-> gray, color |-> color,
        colorSpaces |-> (IF gray = "" THEN {} ELSE {"grayscale"})
                        \cup (IF color = "" THEN {} ELSE {"color"}),
        resolutions |-> DiscreteResolutions(dev.res),
        minRes |-> MinOf(dev.res), maxRes |-> MaxOf(dev.res),
        options |-> options]

Sources(s) == {x \in {s.platen, s.adfSimplex, s.adfDuplex} : x # NoSource}
\* Every source has the same unit, and so the same error.
InitFails(dev, s) == "resolution" \notin dev.has \/ \E x \in Sources(s) : x.error

-----------------------------------------------------------------------------
(* Tickets *)

Ticket(source, duplex, color, bits, res, intent) ==
    [source |-> source, duplex |-> duplex, color |-> color, bits |-> bits, res |-> res,
     intent |-> intent]

\* writeSettingProfile: the modes and resolutions of one source.
SettingProfile(s, src, source, duplex) ==
    {Ticket(source, duplex, c, b, r, "Photo") :
        c \in s.colorSpaces, b \in {8 * k : k \in 1 .. src.maxBits \div 8}, r \in ToSet(s.resolutions)}

\* writeScannerCapabilitiesXml: a duplex feeder is part of a simplex one.
OfferedTickets(s) ==
    (IF s.platen = NoSource THEN {} ELSE SettingProfile(s, s.platen, "Platen", FALSE))
    \cup (IF s.adfSimplex = NoSource THEN {}
          ELSE SettingProfile(s, s.adfSimplex, "Feeder", FALSE)
               \cup (IF s.adfDuplex = NoSource THEN {}
                     ELSE SettingProfile(s, s.adfDuplex, "Feeder", TRUE)))

\* ScannerPage::onRender: the choices of the form, and the preview.
FormTickets(s) ==
    LET bits == IF Max({x.maxBits : x \in Sources(s)} \cup {8}) = 16 THEN {8, 16} ELSE {8}
        res == {s.minRes} \cup {r \in {300, 600, 1200} : s.maxRes >= r}
    IN {Ticket(src, FALSE, c, b, r, "TextAndGraphic") :
           src \in s.inputSources, c \in s.colorSpaces, b \in bits, r \in res}
       \cup {Ticket(src, FALSE, "color", 8, Max({50, s.minRes}), "Preview") : src \in s.inputSources}

-----------------------------------------------------------------------------
(* The job *)

\* applyDeviceOptions, with the mode that init has chosen.
ModeFor(s, colorScan, mode) ==
    IF colorScan THEN mode
    ELSE IF s.options.synthesize_gray THEN s.color ELSE s.gray

\* ScanJob::Private::init.  mColorScan is stored only for a color mode that is
\* understood; otherwise it is what the memory held.
JobInit(s, t, indeterminate) ==
    LET wanted == CASE t.color = "color" -> s.color
                    [] t.color = "grayscale" -> s.gray
                    [] OTHER -> ""
        mode == IF wanted # "" THEN wanted ELSE IF t.intent = "Photo" THEN s.color ELSE s.gray
        colorScan == IF t.color \in {"color", "grayscale"} THEN t.color = "color" ELSE indeterminate
        source == IF t.source # None THEN t.source
                  ELSE IF s.platen # NoSource THEN "Platen" ELSE "Feeder"
    IN [state |-> IF source \in {"Platen", "Feeder"} /\ t.res # Unequal THEN "pending" ELSE "aborted",
        ticket |-> t,
        source |-> CASE source = "Platen" -> s.platen.name
                     [] source = "Feeder" -> (IF t.duplex THEN s.adfDuplex ELSE s.adfSimplex).name
                     [] OTHER -> "",
        mode |-> ModeFor(s, colorScan, mode),
        bits |-> IF wanted # "" THEN t.bits ELSE 8,
        colorScan |-> colorScan,
        res |-> IF t.res = 0 THEN 300 ELSE t.res,
        gammaTable |-> (IF colorScan THEN s.options.color_gamma ELSE s.options.gray_gamma) # 1,
        synthesizeGray |-> ~colorScan /\ s.options.synthesize_gray]

\* Mutant: the depth is set before the mode, which sets it back.
OpenSessionDepthFirst(dev, options, j) ==
    LET cur0 == ApplyOptions(dev, dev.defaults, options.sane_options)
        cur1 == SetValue(dev, cur0, "source", j.source)
        cur2 == SetValue(dev, cur1, "depth", j.bits)
        cur3 == SetValue(dev, cur2, "mode", j.mode)
    IN  SetValue(dev, cur3, "resolution", j.res)

\* openSession sets the options in this order.  A device whose resolution is
\* refused has no x- and y-resolution to fall back on here; whether one of them
\* could be set decides whether beginTransfer dumps the options, and no more.
OpenSession(dev, options, j) ==
    LET cur0 == ApplyOptions(dev, dev.defaults, options.sane_options)
        cur1 == SetValue(dev, cur0, "source", j.source)
        cur2 == SetValue(dev, cur1, "mode", j.mode)
        cur3 == SetValue(dev, cur2, "depth", j.bits)
    IN  SetValue(dev, cur3, "resolution", j.res)

\* Samples of a pixel in what the device sends; encoder and device must agree
\* on the length of a line.
Components(cur) == IF cur.mode \in NamesWith.color THEN 3 ELSE 1
LineLengthFits(cur, j) ==
    Components(cur) = (IF j.colorScan \/ j.synthesizeGray THEN 3 ELSE 1)

\* applyGamma and synthesizeGray take the samples to be mBitDepth wide.
SampleWidthMatters(j) == j.gammaTable \/ j.synthesizeGray
=============================================================================
