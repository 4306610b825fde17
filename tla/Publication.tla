---------------------------- MODULE Publication ----------------------------
(***************************************************************************)
(* How scanners are named, announced and listed: the body of the loop over  *)
(* the devices in server/server.cpp, the identities given out by            *)
(* server/scanner.cpp, and zeroconf/mdnspublisher-avahi.cpp, the publisher   *)
(* that keeps the announcements in step with the Avahi daemon.               *)
(*                                                                         *)
(* Every call of the publisher, and every callback from Avahi, holds the    *)
(* lock of Avahi's poll thread: each is one action, but for the callback     *)
(* that announces all entries, which holds it for one action per entry.  A   *)
(* Scanner and its Service live as long as the list, the loop, or the copy   *)
(* that a request has made of their entry refers to them.                   *)
(***************************************************************************)
EXTENDS Naturals, Sequences, SequencesExt

CONSTANTS
    Devices,        \* devices that SANE enumerates
    Model(_),       \* backend, vendor and model of a device
    MdnsAnnounce,   \* option --mdns-announce
    CompatiblePath, \* option --compatible-path
    MaxReloads,     \* bound: iterations of the server's loop after the first
    MaxClients,     \* bound: Avahi clients made in turn
    MaxNames        \* bound: names tried because of collisions on the network

ASSUME PublicationAssumption ==
    /\ MdnsAnnounce \in BOOLEAN /\ CompatiblePath \in BOOLEAN
    /\ MaxReloads \in Nat /\ MaxClients \in Nat \ {0} /\ MaxNames \in Nat \ {0}

Scanners == [dev : Devices, iter : 0 .. MaxReloads]
NoName == <<>>

\* "X", "X (2)", ... by chooseUniquePublishedName; "X #2", ... by Avahi.
Name(m, ext, alt) == <<m, ext, alt>>

VARIABLES
    iter, todo,        \* the iteration, and the devices it has still to deal with
    current,           \* the scanner the loop is dealing with: none or one
    scannerCount,
    mScanners,         \* the list
    held,              \* entries of which a request has a copy
    stableName, uri,   \* of every live scanner: sInstances is their domain
    publishedName,
    mServices,         \* the publisher's entries, in the order of announcing
    svc,               \* of every live Service: name, entry group (the client it
                       \* was made for, or 0) and the name it has registered
    mpClient, nClients,\* the client (0: none), and how many there have been
    connected,         \* the client's connection to the daemon
    announcing,        \* entries that clientCallback has still to announce
    mState,            \* the publisher's idea of it
    daemon,            \* the Avahi daemon is running
    hurt               \* what Avahi has done to this iteration's announcements

loop == <<iter, todo, current, scannerCount, mScanners>>
scanners == <<stableName, uri, publishedName>>
publisher == <<mServices, svc, announcing>>
avahi == <<mpClient, nClients, connected, mState, daemon>>
vars == <<loop, held, scanners, publisher, avahi, hurt>>

Live == DOMAIN stableName

TypeOK ==
    /\ iter \in 0 .. MaxReloads /\ todo \subseteq Devices
    /\ current \subseteq Scanners /\ mScanners \subseteq Scanners /\ held \subseteq Scanners
    /\ Live \subseteq Scanners /\ DOMAIN uri = Live /\ DOMAIN publishedName = Live
    /\ DOMAIN svc \subseteq Live
    /\ \A s \in DOMAIN svc : svc[s].group \in 0 .. MaxClients
                             /\ (svc[s].group = 0 => svc[s].reg = NoName)
    /\ mServices \in Seq(Live) /\ announcing \in Seq(Live)
    /\ scannerCount \in Nat
    /\ nClients \in 0 .. MaxClients /\ mpClient \in {0, nClients}
    /\ mState \in {"CONNECTING", "RUNNING", "FAILURE"}
    /\ connected \in BOOLEAN /\ daemon \in BOOLEAN
    /\ hurt \subseteq {"failure", "collision"}

\* MdnsPublisher::Private: a client is made whether the daemon runs or not;
\* avahi_client_new calls back before it returns.
Init ==
    /\ iter = 0 /\ todo = Devices /\ current = {} /\ scannerCount = 0
    /\ mScanners = {} /\ held = {}
    /\ stableName = <<>> /\ uri = <<>> /\ publishedName = <<>>
    /\ mServices = <<>> /\ svc = <<>> /\ announcing = <<>>
    /\ daemon \in BOOLEAN
    /\ \/ /\ mpClient = 1 /\ nClients = 1 /\ connected = daemon
          /\ mState = IF daemon THEN "RUNNING" ELSE "CONNECTING"
       \/ mpClient = 0 /\ nClients = 0 /\ connected = FALSE /\ mState = "CONNECTING"
    /\ hurt = {}

-----------------------------------------------------------------------------
(* ServiceEntry *)

Drop(f, s) == [t \in DOMAIN f \ {s} |-> f[t]]

With(f, s, v) == [t \in DOMAIN f \cup {s} |-> IF t = s THEN v ELSE f[t]]

Unannounced(e) == [e EXCEPT !.group = 0, !.reg = NoName]

Registered(entries) == {entries[s].reg : s \in DOMAIN entries} \ {NoName}

\* The loops that try one number after the other.
LeastFree(from, taken) ==
    CHOOSE i \in from .. from + Cardinality(taken) :
        i \notin taken /\ from .. i - 1 \subseteq taken

\* renameService, repeated until Avahi does not know the name.
FreeName(n, taken) ==
    LET alike == {t \in taken : t[1] = n[1] /\ t[2] = n[2]}
    IN Name(n[1], n[2], LeastFree(n[3], {t[3] : t \in alike}))

\* ServiceEntry::announce.  It fails without a connected client; Avahi may also
\* fail to make the group ("noGroup") or, with a group made, to add or to
\* commit the service ("group").
Outcomes == {"ok", "noGroup", "group"}
Announced(entries, s, client, isConnected, outcome) ==
    LET rest == [entries EXCEPT ![s] = Unannounced(@)]
        name == FreeName(rest[s].name, Registered(rest))
    IN IF client = 0 \/ ~isConnected \/ outcome = "noGroup" THEN rest
       ELSE [rest EXCEPT ![s] =
                [name |-> name, group |-> client,
                 reg |-> IF outcome = "ok" THEN name ELSE NoName]]

IsAnnounced(s) == svc[s].reg # NoName

\* Nobody holds the lock of Avahi's poll thread.
Unlocked == announcing = <<>>

\* entryGroupCallback, COLLISION: another host uses the name.  The service is
\* renamed and announced again; its scanner keeps the published name.
OnCollision(s) ==
    /\ Unlocked
    /\ s \in Range(mServices) /\ IsAnnounced(s) /\ svc[s].group = mpClient
    /\ svc[s].name[3] < MaxNames
    /\ \E outcome \in Outcomes :
          /\ svc' = Announced([svc EXCEPT ![s].name[3] = @ + 1], s, svc[s].group,
                              connected, outcome)
          /\ hurt' = hurt \cup {h \in {"failure", "collision"} :
                                  s \in mScanners /\ (outcome = "ok" <=> h = "collision")}
    /\ UNCHANGED <<loop, held, scanners, mServices, announcing, avahi>>

\* entryGroupCallback, FAILURE
OnGroupFailure(s) ==
    /\ Unlocked
    /\ s \in Range(mServices) /\ svc[s].group # 0
    /\ svc' = [svc EXCEPT ![s] = Unannounced(@)]
    /\ hurt' = IF s \in mScanners THEN hurt \cup {"failure"} ELSE hurt
    /\ UNCHANGED <<loop, held, scanners, mServices, announcing, avahi>>

-----------------------------------------------------------------------------
(* MdnsPublisher::Private *)

\* Mutant: the client is freed with its groups still in the entries.
DestroyClientOnly(entries) == entries

\* destroyClient: every entry gives up its group before the client is freed.
DestroyClient(entries) ==
    [s \in DOMAIN entries |->
        IF s \in Range(mServices) THEN Unannounced(entries[s]) ELSE entries[s]]

\* The daemon goes, or its name passes to another instance.  clientCallback
\* gets FAILURE with DISCONNECTED and makes a new client.  That one calls back
\* before mpClient has it, so that nothing can be announced with it, and what
\* the nested callback stores in mState is overwritten by the outer one.
OnDisconnected ==
    /\ Unlocked
    /\ daemon
    /\ daemon' \in BOOLEAN
    /\ IF mpClient # 0 /\ connected
       THEN /\ svc' = DestroyClient(svc)
            /\ \/ /\ nClients < MaxClients
                  /\ nClients' = nClients + 1 /\ mpClient' = nClients'
                  /\ connected' = daemon'
               \/ mpClient' = 0 /\ connected' = FALSE /\ UNCHANGED nClients
            /\ mState' = "FAILURE"
            /\ hurt' = hurt \cup {"failure"}
       ELSE UNCHANGED <<svc, mpClient, nClients, connected, mState, hurt>>
    /\ UNCHANGED <<loop, held, scanners, mServices, announcing>>

\* Any other failure of the client: it is destroyed for good.
OnError ==
    /\ Unlocked
    /\ mpClient # 0
    /\ svc' = DestroyClient(svc)
    /\ mpClient' = 0 /\ connected' = FALSE
    /\ mState' = "FAILURE"
    /\ hurt' = hurt \cup {"failure"}
    /\ UNCHANGED <<loop, held, scanners, mServices, announcing, nClients, daemon>>

\* The daemon starts, and the client that waits for it connects: clientCallback
\* announces the entries if it has been waiting from the beginning.
OnConnected ==
    /\ Unlocked
    /\ ~daemon /\ daemon' = TRUE
    /\ IF mpClient # 0
       THEN /\ connected' = TRUE /\ mState' = "RUNNING"
            /\ announcing' = IF mState = "CONNECTING" THEN mServices ELSE <<>>
       ELSE UNCHANGED <<connected, mState, announcing>>
    /\ UNCHANGED <<loop, held, scanners, mServices, svc, mpClient, nClients, hurt>>

\* One round of its loop, with the lock held.
AnnounceNext ==
    /\ ~Unlocked
    /\ \E outcome \in Outcomes :
          svc' = Announced(svc, Head(announcing), mpClient, connected, outcome)
    /\ announcing' = Tail(announcing)
    /\ UNCHANGED <<loop, held, scanners, mServices, avahi, hurt>>

-----------------------------------------------------------------------------
(* Server::run, for one device *)

\* Mutant: only the scanners in the list are looked at.
StableNameListed(d) ==
    LET alike == {s \in mScanners : stableName[s][1] = Model(d)}
    IN <<Model(d), LeastFree(1, {stableName[s][2] : s \in alike})>>

\* generateStableUniqueName: the first number that no live scanner has.  The
\* set of live scanners has no lock in the code; a request that destroys one
\* while the set is searched is undefined there, and before or after it here.
StableName(d) ==
    LET alike == {s \in Live : stableName[s][1] = Model(d)}
    IN <<Model(d), LeastFree(1, {stableName[s][2] : s \in alike})>>

\* chooseUniquePublishedName: the first extension no scanner in the list has.
UniquePublishedName(d) ==
    LET names == {publishedName[s] : s \in mScanners}
        alike == {n \in names : n[1] = Model(d) /\ n[3] = 1}
    IN Name(Model(d), LeastFree(1, {n[2] : n \in alike}), 1)

\* The Scanner is constructed, named, and initialised; it is destroyed again
\* when that fails.  The first one initialised may get a path of its own.
Construct(d) ==
    /\ current = {} /\ d \in todo
    /\ todo' = todo \ {d}
    /\ \/ LET s == [dev |-> d, iter |-> iter] IN
          /\ current' = {s}
          /\ stableName' = With(stableName, s, StableName(d))
          /\ publishedName' = With(publishedName, s, UniquePublishedName(d))
          /\ uri' = With(uri, s, IF scannerCount = 0 /\ CompatiblePath
                                 THEN <<"eSCL">> ELSE StableName(d))
          /\ scannerCount' = scannerCount + 1
       \/ UNCHANGED <<current, scannerCount, scanners>>
    /\ UNCHANGED <<iter, mScanners, held, publisher, avahi, hurt>>

\* buildMdnsService, announce(); an announced scanner takes the name that came
\* out of it, and is listed.
Announce(s) ==
    /\ Unlocked
    /\ s \in current /\ s \notin DOMAIN svc /\ MdnsAnnounce
    /\ \E outcome \in Outcomes :
          LET new == [name |-> publishedName[s], group |-> 0, reg |-> NoName]
              entries == Announced(With(svc, s, new), s, mpClient, connected, outcome)
          IN /\ svc' = entries
             /\ mServices' = Append(mServices, s)
             /\ IF entries[s].reg # NoName
                THEN /\ current' = {} /\ mScanners' = mScanners \cup {s}
                     /\ publishedName' = [publishedName EXCEPT ![s] = entries[s].name]
                ELSE UNCHANGED <<current, mScanners, publishedName>>
    /\ UNCHANGED <<iter, todo, scannerCount, held, stableName, uri, announcing, avahi, hurt>>

\* Mutant: MdnsPublisher::unannounce looks for the name of the service.
DestroyByName(s) ==
    LET out == {t \in Range(mServices) : s \in DOMAIN svc /\ svc[t].name = svc[s].name}
    IN /\ s \in DOMAIN svc => Unlocked
       /\ mServices' = SelectSeq(mServices, LAMBDA t : t \notin out)
       /\ svc' = [t \in DOMAIN svc \ {s} |->
                     IF t \in out THEN Unannounced(svc[t]) ELSE svc[t]]
       /\ stableName' = Drop(stableName, s) /\ uri' = Drop(uri, s)
       /\ publishedName' = Drop(publishedName, s)
       /\ UNCHANGED announcing

\* The last reference is gone: ~Service unannounces it and takes its entry
\* from the publisher, ~Scanner takes the scanner from sInstances.
Destroy(s) ==
    /\ s \in DOMAIN svc => Unlocked
    /\ mServices' = RemoveFirst(mServices, s)
    /\ svc' = Drop(svc, s)
    /\ stableName' = Drop(stableName, s) /\ uri' = Drop(uri, s)
    /\ publishedName' = Drop(publishedName, s)
    /\ UNCHANGED announcing

\* pService.reset(): a scanner that could not be announced, or shall not be, is
\* not listed.
NotAnnounced(s) ==
    /\ s \in current /\ (s \in DOMAIN svc \/ ~MdnsAnnounce)
    /\ Destroy(s)
    /\ current' = {}
    /\ UNCHANGED <<iter, todo, scannerCount, mScanners, held, avahi, hurt>>

\* HttpServer::run has returned: mScanners.clear() gives up one entry ...
Clear(s) ==
    /\ todo = {} /\ current = {} /\ s \in mScanners
    /\ mScanners' = mScanners \ {s}
    /\ IF s \in held THEN UNCHANGED <<scanners, publisher>> ELSE Destroy(s)
    /\ UNCHANGED <<iter, todo, current, scannerCount, held, avahi, hurt>>

\* ... after the other, and the next iteration begins.
Reload ==
    /\ todo = {} /\ current = {} /\ mScanners = {}
    /\ iter < MaxReloads /\ iter' = iter + 1
    /\ todo' = Devices /\ scannerCount' = 0 /\ hurt' = {}
    /\ UNCHANGED <<current, mScanners, held, scanners, publisher, avahi>>

\* A request copies an entry of the list.
CopyEntry(s) ==
    /\ s \in mScanners \ held
    /\ held' = held \cup {s}
    /\ UNCHANGED <<loop, scanners, publisher, avahi, hurt>>

\* It ends, in its own thread, and may have had the last reference.
ReleaseEntry(s) ==
    /\ s \in held
    /\ held' = held \ {s}
    /\ IF s \in mScanners THEN UNCHANGED <<scanners, publisher>> ELSE Destroy(s)
    /\ UNCHANGED <<loop, avahi, hurt>>

Next ==
    \/ OnDisconnected \/ OnError \/ OnConnected \/ AnnounceNext
    \/ \E s \in Live : OnCollision(s) \/ OnGroupFailure(s)
    \/ \E d \in Devices : Construct(d)
    \/ \E s \in current : Announce(s) \/ NotAnnounced(s)
    \/ Reload
    \/ \E s \in Live : Clear(s) \/ CopyEntry(s) \/ ReleaseEntry(s)

Spec == Init /\ [][Next]_vars

-----------------------------------------------------------------------------
(* Properties *)

(* The publisher's entries, which have raw pointers to a Service and to an  *)
(* Avahi group, never outlive either: every Service in mServices is alive,   *)
(* every group belongs to the present client, and nothing stays registered  *)
(* for a Service that mServices does not have.                               *)
NoDangling ==
    /\ Range(mServices) \subseteq DOMAIN svc
    /\ \A s \in DOMAIN svc : svc[s].group # 0 =>
          svc[s].group = mpClient /\ s \in Range(mServices)

(* Two scanners that are alive at the same time, in the list or kept by a   *)
(* request from before a reload, never have the same stable name, and so     *)
(* the same UUID; two scanners in the list never have the same path.         *)
IdentitiesUnique ==
    /\ \A s, t \in Live : stableName[s] = stableName[t] => s = t
    /\ \A s, t \in mScanners : uri[s] = uri[t] => s = t

(* As long as Avahi reports neither a failure nor a collision, every scanner *)
(* in the list is announced, under the name that the web pages show,        *)
(* whatever services of earlier iterations are withdrawn meanwhile.         *)
ListedIsAnnounced ==
    hurt = {} => \A s \in mScanners : s \in DOMAIN svc /\ svc[s].reg = publishedName[s]
=============================================================================
