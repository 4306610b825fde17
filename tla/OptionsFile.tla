---------------------------- MODULE OptionsFile ----------------------------
(***************************************************************************)
(* server/optionsfile.cpp: options for devices, and Server::matchIgnorelist. *)
(*                                                                         *)
(* A line of options.conf is <<"device", m>>, with m true if the regular    *)
(* expression matches the device's name or its make and model, or           *)
(* <<name, value>>.  Comments and empty lines are left out.                 *)
(***************************************************************************)
EXTENDS Integers, Sequences, Subsequence

\* The line of the section that line i is in, 0 before the first.
SectionOf(lines, i) ==
    LET heads == {h \in 1 .. i : lines[h][1] = "device"}
    IN IF heads = {} THEN 0 ELSE CHOOSE h \in heads : \A g \in heads : g <= h

\* The global options, then those of each section that matches, in file order.
RawOptions(lines) ==
    LET Applies(i) == lines[i][1] # "device"
                      /\ (SectionOf(lines, i) = 0 \/ lines[SectionOf(lines, i)][2])
    IN Pick(lines, {i \in DOMAIN lines : Applies(i)})

OwnOptions == {"icon", "note", "location", "gray-gamma", "color-gamma", "synthesize-gray"}

LastValue(raw, names, default) ==
    LET is == {i \in DOMAIN raw : raw[i][1] \in names}
    IN IF is = {} THEN default ELSE raw[CHOOSE i \in is : \A j \in is : j <= i][2]

\* scannerOptions.  A later value replaces an earlier one; what is not an
\* option of the server goes to the backend, in order, as often as it occurs.
ScannerOptions(lines) ==
    LET raw == RawOptions(lines)
    IN [icon |-> LastValue(raw, {"icon"}, "none"),
        note |-> LastValue(raw, {"note", "location"}, "none"),
        gray_gamma |-> LastValue(raw, {"gray-gamma"}, 1),
        color_gamma |-> LastValue(raw, {"color-gamma"}, 1),
        synthesize_gray |-> LastValue(raw, {"synthesize-gray"}, "no") \in {"true", "yes"},
        sane_options |-> Pick(raw, {i \in DOMAIN raw : raw[i][1] \notin OwnOptions})]

\* A line of ignore.conf is its first character and whether it matches.
MatchIgnorelist(lines) ==
    \E i \in DOMAIN lines : lines[i].first \notin {"#", "//", " "} /\ lines[i].matches
=============================================================================
