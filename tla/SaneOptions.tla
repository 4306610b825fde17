----------------------------- MODULE SaneOptions -----------------------------
(***************************************************************************)
(* sanecpp/sanecpp.cpp: the options of an open device.                      *)
(*                                                                         *)
(* A backend keeps a descriptor at its address as long as the device is     *)
(* open and changes its contents when another option is set, so m_desc is    *)
(* never stale and a descriptor is a function of the device and of the       *)
(* values its options have.  A value outside the constraint is refused.     *)
(*                                                                         *)
(* A device is a record:                                                    *)
(*   has       the options it has: source, mode, depth, resolution           *)
(*   sources, modes   the string lists                                       *)
(*   sourceActive     whether the source can be chosen                       *)
(*   depths, depthModes   word list of the bit depth, modes with a choice     *)
(*   res       constraint of the resolution                                  *)
(*   defaults  the values after sane_open                                    *)
(*   unit      unit of the scan area, or "mixed"                             *)
(***************************************************************************)
EXTENDS Integers, Sequences, SequencesExt, FiniteSetsExt

Monochrome == {"Lineart", "Halftone"}

\* The constraint of a resolution: a range, or a word list.
ResConstraint(c) ==
    \/ /\ c.type = "range"
       /\ c.min \in Nat \ {0} /\ c.max \in Nat /\ c.min <= c.max /\ c.quant \in Nat
    \/ c.type = "list" /\ c.values \in Seq(Nat \ {0}) /\ c.values # <<>>

\* min() and max() of a numeric constraint.
MinOf(c) == IF c.type = "range" THEN c.min ELSE Min(ToSet(c.values))
MaxOf(c) == IF c.type = "range" THEN c.max ELSE Max(ToSet(c.values))
Quant(c) == IF c.type = "range" THEN c.quant ELSE 0

AllowedNumericValues(c) == IF c.type = "list" THEN c.values ELSE <<>>
AllowedStringValues(dev, o) ==
    IF o \notin dev.has THEN <<>> ELSE IF o = "source" THEN dev.sources ELSE dev.modes

\* What a backend takes for a value: a member of the list, or of the grid.
Accepts(c, v) ==
    IF c.type = "list" THEN v \in ToSet(c.values)
    ELSE /\ v \in c.min .. c.max
         /\ c.quant > 0 => (v - c.min) % c.quant = 0

DepthConstraint(dev) == [type |-> "list", values |-> dev.depths]
DepthIn(dev, mode) == IF mode \in Monochrome THEN 1 ELSE 8

IsActive(dev, cur, o) ==
    /\ o \in dev.has
    /\ o = "source" => dev.sourceActive
    /\ o = "depth" => cur.mode \in dev.depthModes

\* The backend: a new mode has its own default depth.
Stored(dev, cur, o, v) ==
    IF o = "mode" /\ v # cur.mode
    THEN [cur EXCEPT !.mode = v,
                     !.depth = IF "depth" \in dev.has /\ v \in dev.depthModes
                               THEN Head(dev.depths) ELSE DepthIn(dev, v)]
    ELSE [cur EXCEPT ![o] = v]

\* set_string_value and set_numeric_value return whether the value was set;
\* set_value tries the one and then the other, which a string option or a
\* numeric option does not take.
Settable(dev, cur, o, v) ==
    /\ IsActive(dev, cur, o)
    /\ CASE o = "source" -> v \in ToSet(dev.sources)
         [] o = "mode" -> v \in ToSet(dev.modes)
         [] o = "depth" -> Accepts(DepthConstraint(dev), v)
         [] o = "resolution" -> Accepts(dev.res, v)
SetValue(dev, cur, o, v) == IF Settable(dev, cur, o, v) THEN Stored(dev, cur, o, v) ELSE cur

StringValue(dev, cur, o) == IF o \in dev.has THEN cur[o] ELSE ""

ApplyOptions(dev, cur, options) ==
    LET applied[n \in 0 .. Len(options)] ==
            IF n = 0 THEN cur ELSE SetValue(dev, applied[n - 1], options[n][1], options[n][2])
    IN  applied[Len(options)]

-----------------------------------------------------------------------------
\* The values the options of a device may have: a source of the list, the one
\* after sane_open if it cannot be chosen, and the depth of the mode if that
\* cannot be chosen.
Values(dev) ==
    {c \in [source : STRING, mode : STRING, depth : Nat, resolution : Nat] :
        /\ "source" \in dev.has => c.source \in ToSet(dev.sources)
        /\ ~dev.sourceActive => c.source = dev.defaults.source
        /\ "depth" \notin dev.has => c.depth = DepthIn(dev, c.mode)}

IsDevice(dev) ==
    /\ dev.has \subseteq {"source", "mode", "depth", "resolution"}
    /\ dev.sources \in Seq(STRING) /\ dev.modes \in Seq(STRING) /\ dev.depths \in Seq(Nat)
    /\ dev.depths # <<>> /\ dev.sourceActive \in BOOLEAN
    /\ ResConstraint(dev.res) /\ dev.defaults \in Values(dev)
=============================================================================
