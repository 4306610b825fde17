--------------------------- MODULE Configuration ---------------------------
(***************************************************************************)
(* From the configuration files and a device to a document: the server      *)
(* reads access.conf, ignore.conf and options.conf and asks the device what  *)
(* it can do; a client connects, sends a ticket, and the job sets up the     *)
(* device and checks what it is about to get.  One thread at a time is       *)
(* enough here; modules Server, Scanner and ScanJob have the others.         *)
(***************************************************************************)
EXTENDS AccessFile, Capabilities, OptionsFile

CONSTANTS
    Setups,     \* configuration files, interfaces, device, and addresses of clients
    OddTickets  \* tickets no list of capabilities leads to

\* Clients connect over IPv4 or IPv6; a file is a sequence of lines.
ASSUME SetupsAssumption ==
    \A s \in Setups :
       /\ s.access \in Seq(Line) /\ \A c \in s.clients : c.fam \in DOMAIN Bytes
       /\ s.options \in Seq(ToSet(s.options))
       /\ IsDevice(s.device)
       /\ s.device.sources \in Seq(SourceNames) /\ s.device.modes \in Seq(ModeNames)

VARIABLES
    setup,
    entries,    \* mEntries of the access file in use
    scanner,    \* the scanner in the list; NoScanner
    client,
    job,
    cur,        \* values of the device's options in the job's session
    pc

vars == <<setup, entries, scanner, client, job, cur, pc>>

NoScanner == [listed |-> FALSE]
NoClient == [fam |-> "none"]
NoJob == [state |-> "none"]
Closed == [mode |-> "none"]

Init ==
    /\ setup \in Setups
    /\ entries = <<>> /\ scanner = NoScanner
    /\ client = NoClient /\ job = NoJob /\ cur = Closed
    /\ pc = "access"

\* Server::run.  Errors end the server; a unix socket has no access file.
ReadAccessFile ==
    /\ pc = "access"
    /\ IF setup.unixSocket THEN pc' = "enumerate" /\ UNCHANGED entries
       ELSE IF Errors(setup.access, setup.interfaces, setup.garbage) # {}
       THEN pc' = "ended" /\ UNCHANGED entries
       ELSE /\ pc' = "enumerate"
            /\ entries' = ReadFile(setup.access, setup.interfaces, setup.garbage)
    /\ UNCHANGED <<setup, scanner, client, job, cur>>

\* Scanner::initWithOptions, unless the device is ignored; it may fail to open.
InitScanner ==
    LET s == Init2(setup.device, ScannerOptions(setup.options)) IN
    /\ pc = "enumerate"
    /\ pc' = "serving"
    /\ \/ /\ ~MatchIgnorelist(setup.ignore) /\ "resolution" \in setup.device.has
          /\ ~InitFails(setup.device, s)
          /\ scanner' = [listed |-> TRUE, data |-> s]
       \/ UNCHANGED scanner
    /\ UNCHANGED <<setup, entries, client, job, cur>>

\* handleRequest: the connection is closed, or a request is read.
HandleRequest(c) ==
    /\ pc = "serving"
    /\ client' = c
    /\ pc' = IF IsAllowed(entries, c) THEN "request" ELSE "closed"
    /\ UNCHANGED <<setup, entries, scanner, job, cur>>

\* createJobFromScanSettingsXml: by eSCL or by the form of the scanner's page.
CreateJob(t, indeterminate) ==
    /\ pc = "request"
    /\ job' = JobInit(scanner.data, t, indeterminate)
    /\ pc' = IF job'.state = "pending" THEN "job" ELSE "done"
    /\ UNCHANGED <<setup, entries, scanner, client, cur>>

BeginTransfer ==
    /\ pc = "job"
    /\ cur' = OpenSession(setup.device, scanner.data.options, job)
    /\ job' = [job EXCEPT !.state = "processing"]
    /\ pc' = "open"
    /\ UNCHANGED <<setup, entries, scanner, client>>

\* finishTransfer, to the point where the first line is read.
FinishTransfer ==
    /\ pc = "open"
    /\ job' = [job EXCEPT !.state = IF LineLengthFits(cur, job) THEN "processing" ELSE "aborted"]
    /\ pc' = "done"
    /\ UNCHANGED <<setup, entries, scanner, client, cur>>

Next ==
    \/ ReadAccessFile \/ InitScanner
    \/ \E c \in setup.clients : HandleRequest(c)
    \/ /\ scanner.listed
       /\ \E t \in OfferedTickets(scanner.data) \cup FormTickets(scanner.data) \cup OddTickets :
          \E b \in BOOLEAN : CreateJob(t, b)
    \/ BeginTransfer \/ FinishTransfer

Spec == Init /\ [][Next]_vars

-----------------------------------------------------------------------------
(* Properties *)

Decided == pc \in {"request", "closed"}
GarbageUsed ==
    /\ setup.garbage.fam \in DOMAIN Bytes
    /\ \E i \in setup.interfaces : i.fam \notin DOMAIN Bytes

(* Clients are let in as the comments of access.conf say: the first rule     *)
(* that matches decides, none means no, and no rules at all mean yes.  This  *)
(* holds as long as every range ends with a byte and lies within the width   *)
(* of its family, and no network was stored uninitialised.                  *)
AccessDecision ==
    /\ Decided /\ ~setup.unixSocket /\ ~GarbageUsed
    /\ \A i \in DOMAIN setup.access : WholeBytes(setup.access[i]) /\ WithinWidth(setup.access[i])
    => (pc = "request" <=> Documented(setup.access, client, setup.interfaces))

(* The same for ranges of any length, as "allow fe80::/10" in access.conf.   *)
AccessAsDocumented ==
    /\ Decided /\ ~setup.unixSocket /\ ~GarbageUsed
    /\ \A i \in DOMAIN setup.access : WithinWidth(setup.access[i])
    => (pc = "request" <=> Documented(setup.access, client, setup.interfaces))

(* Resolutions are offered in ascending order, the device takes every one of *)
(* them, and of a range the smallest, the largest the device can do and the  *)
(* nearest one below each doubling of 75 dpi are among them.                 *)
ResolutionsOffered ==
    scanner.listed /\ pc = "serving" =>
       LET c == setup.device.res
           rs == scanner.data.resolutions
           step == Max({1, c.quant})
           NearestBelow(v) == \E i \in DOMAIN rs : rs[i] <= v /\ v < rs[i] + step
       IN /\ \A i \in DOMAIN rs : Accepts(c, rs[i])
          /\ c.type = "range" =>
                /\ \A i \in 1 .. Len(rs) - 1 : rs[i] < rs[i + 1]
                /\ rs[1] = c.min /\ NearestBelow(c.max)
                /\ \A k \in 0 .. MaxDoublings - 1 :
                      Dpi[k] \in c.min .. c.max => NearestBelow(Dpi[k])

Feeders == {"ADF", "ADF Front", "ADF Simplex", AdfLong}
DuplexFeeders == {"ADF Duplex", AdfLongDuplex}

\* A device that lists a gray or a color mode, a color mode if gray is made
\* from it, no duplex feeder without a simplex one, and several sources only
\* if they can be chosen.
Usual(dev) ==
    LET modes == ToSet(AllowedStringValues(dev, "mode"))
        sources == ToSet(AllowedStringValues(dev, "source"))
    IN /\ modes \cap (NamesWith.gray \cup NamesWith.color) # {}
       /\ ScannerOptions(setup.options).synthesize_gray => modes \cap NamesWith.color # {}
       /\ sources \cap DuplexFeeders # {} => sources \cap Feeders # {}
       /\ "source" \in dev.has => dev.sourceActive \/ Len(dev.sources) = 1

(* Every combination of source, mode, depth and resolution that the          *)
(* capabilities offer is one the job can scan: the device is set to a source *)
(* of the kind asked for and to the resolution, and its lines are as long as *)
(* the encoder's, whatever options the file has set before.                  *)
OfferedScannable ==
    /\ pc = "done" /\ Usual(setup.device)
    /\ job.ticket \in OfferedTickets(scanner.data)
    => /\ job.state = "processing"
       /\ cur.resolution = job.ticket.res
       /\ "source" \in setup.device.has =>
             (cur.source \in Feeders \cup DuplexFeeders <=> job.ticket.source = "Feeder")
             /\ (cur.source \in DuplexFeeders <=> job.ticket.duplex)

\* Bit depths of 8 and perhaps 16 in every mode that is not black and white.
UsualDepths(dev) ==
    "depth" \in dev.has =>
       /\ 8 \in ToSet(dev.depths) /\ ToSet(dev.depths) \subseteq {1, 8, 16}
       /\ ToSet(dev.modes) \ Monochrome \subseteq dev.depthModes

(* Where samples are changed on their way, by the gamma table or for         *)
(* synthesized gray, they are as wide as the code takes them to be, for every *)
(* ticket of the capabilities and of the form; finishTransfer checks the      *)
(* length of the line, not the width of the samples.                         *)
SampleWidth ==
    /\ pc = "done" /\ Usual(setup.device) /\ UsualDepths(setup.device)
    /\ job.state = "processing" /\ SampleWidthMatters(job)
    /\ job.ticket \in OfferedTickets(scanner.data) \cup FormTickets(scanner.data)
    => cur.depth = job.bits
=============================================================================
