------------------------- MODULE PublicationProofs -------------------------
(***************************************************************************)
(* Theorems about Publication for any devices, whose reloads, requests and   *)
(* Avahi callbacks interleave in every way.                                  *)
(***************************************************************************)
EXTENDS Publication, FiniteSetTheorems, SequenceTheorems, InductionProofs, TLAPS

-----------------------------------------------------------------------------
(* The helpers of the model.                                                *)

(* The loops that try one number after the other find the first free one.   *)
LEMMA LeastFreeIsFree ==
    ASSUME NEW from \in Nat, NEW taken, IsFiniteSet(taken)
    PROVE  /\ LeastFree(from, taken) \in Nat
           /\ LeastFree(from, taken) \notin taken
<1> DEFINE n == Cardinality(taken)
           tried == from .. from + n
           free == {i \in tried : i \notin taken}
<1>1. n \in Nat
  BY FS_CardinalityType
<1>2. free # {}
  <2>1. SUFFICES ASSUME tried \subseteq taken
                 PROVE  FALSE
    OBVIOUS
  <2>2. Cardinality(tried) = n + 1
    BY <1>1, FS_Interval
  <2>3. Cardinality(tried) <= n
    BY <2>1, FS_Subset
  <2> HIDE DEF n, tried
  <2> QED BY <1>1, <2>2, <2>3
<1>3. free \subseteq Nat
  BY <1>1
<1>4. PICK m \in free : \A k \in free : m <= k
  <2> HIDE DEF free
  <2> QED BY <1>2, <1>3, LeastMember
<1>5. m \in tried /\ m \notin taken /\ from .. m - 1 \subseteq taken
  BY <1>1, <1>4
<1> QED BY <1>1, <1>5 DEF LeastFree

(* Erasing an entry that is there once.                                      *)
LEMMA RemoveFirstProperties ==
    ASSUME NEW S, NEW q \in Seq(S), IsInjective(q), NEW e
    PROVE  /\ RemoveFirst(q, e) \in Seq(S)
           /\ IsInjective(RemoveFirst(q, e))
           /\ Range(RemoveFirst(q, e)) = Range(q) \ {e}
<1>1. CASE e \notin Range(q)
  <2>1. RemoveFirst(q, e) = q
    BY <1>1 DEF RemoveFirst, Range
  <2> QED BY <1>1, <2>1
<1>2. CASE e \in Range(q)
  <2> DEFINE I == {i \in 1 .. Len(q) : q[i] = e}
  <2>1. I # {} /\ I \subseteq Nat
    BY <1>2 DEF Range
  <2>2. PICK k \in I : \A j \in I : k <= j
    <3> HIDE DEF I
    <3> QED BY <2>1, LeastMember
  <2>3. Min(I) \in I
    BY <2>2 DEF Min
  <2>4. PICK i \in 1 .. Len(q) : q[i] = e /\ RemoveFirst(q, e) = RemoveAt(q, i)
    BY <2>1, <2>3 DEF RemoveFirst, SelectInSeq
  <2> DEFINE a == SubSeq(q, 1, i - 1)
             b == SubSeq(q, i + 1, Len(q))
  <2>5. /\ a \in Seq(S) /\ Len(a) = i - 1
        /\ \A j \in 1 .. i - 1 : a[j] = q[j]
    BY <2>4
  <2>6. /\ b \in Seq(S) /\ Len(b) = Len(q) - i
        /\ \A j \in 1 .. Len(q) - i : b[j] = q[i + j]
    BY <2>4
  <2> DEFINE r == RemoveFirst(q, e)
  <2>7. r = a \o b
    BY <2>4 DEF RemoveAt
  <2> HIDE DEF a, b, r
  <2>8. r \in Seq(S) /\ Len(r) = Len(q) - 1 /\ DOMAIN r = 1 .. Len(q) - 1
    <3>1. r \in Seq(S) /\ Len(r) = Len(a) + Len(b)
      BY <2>5, <2>6, <2>7, ConcatProperties
    <3>2. Len(r) = Len(q) - 1
      BY <2>5, <2>6, <3>1
    <3> QED BY <3>1, <3>2
  <2>9. ASSUME NEW j \in 1 .. Len(q) - 1
        PROVE  r[j] = IF j < i THEN q[j] ELSE q[j + 1]
    <3>1. \A n \in 1 .. Len(a) + Len(b) :
             r[n] = IF n <= Len(a) THEN a[n] ELSE b[n - Len(a)]
      BY <2>5, <2>6, <2>7, ConcatProperties
    <3>2. r[j] = IF j <= i - 1 THEN a[j] ELSE b[j - (i - 1)]
      BY <3>1, <2>5, <2>6
    <3>3. CASE j < i
      BY <3>2, <3>3, <2>5
    <3>4. CASE j >= i
      <4>1. j - (i - 1) \in 1 .. Len(q) - i /\ i + (j - (i - 1)) = j + 1
        BY <3>4
      <4>2. b[j - (i - 1)] = q[i + (j - (i - 1))]
        BY <4>1, <2>6
      <4> QED BY <3>2, <3>4, <4>1, <4>2
    <3> QED BY <3>3, <3>4
  <2>10. IsInjective(r)
    <3> SUFFICES ASSUME NEW j \in 1 .. Len(q) - 1, NEW k2 \in 1 .. Len(q) - 1, r[j] = r[k2]
                 PROVE  j = k2
      BY <2>8 DEF IsInjective
    <3> QED BY <2>9 DEF IsInjective
  <2>11. ASSUME NEW x
         PROVE  x \in Range(r) <=> x \in Range(q) /\ x # e
    <3>1. ASSUME x \in Range(r)
          PROVE  x \in Range(q) /\ x # e
      BY <3>1, <2>4, <2>8, <2>9 DEF IsInjective, Range
    <3>2. ASSUME x \in Range(q), x # e
          PROVE  x \in Range(r)
      <4>1. PICK j \in 1 .. Len(q) : q[j] = x
        BY <3>2 DEF Range
      <4>2. j # i
        BY <4>1, <3>2, <2>4
      <4>3. CASE j < i
        BY <4>1, <4>3, <2>4, <2>8, <2>9 DEF Range
      <4>4. CASE j > i
        <5>1. j - 1 \in 1 .. Len(q) - 1 /\ r[j - 1] = q[j]
          BY <4>1, <4>4, <2>4, <2>9
        <5> QED BY <5>1, <4>1, <2>8 DEF Range
      <4> QED BY <4>1, <4>2, <4>3, <4>4
    <3> QED BY <3>1, <3>2
  <2> QED BY <2>8, <2>10, <2>11 DEF r
<1> QED BY <1>1, <1>2

(* Appending an entry that is not there.                                     *)
LEMMA AppendFresh ==
    ASSUME NEW S, NEW q \in Seq(S), IsInjective(q), NEW e \in S, e \notin Range(q)
    PROVE  /\ Append(q, e) \in Seq(S)
           /\ IsInjective(Append(q, e))
           /\ Range(Append(q, e)) = Range(q) \cup {e}
<1> DEFINE r == Append(q, e)
<1>1. /\ r \in Seq(S) /\ Len(r) = Len(q) + 1 /\ DOMAIN r = 1 .. Len(q) + 1
      /\ \A j \in 1 .. Len(q) : r[j] = q[j]
      /\ r[Len(q) + 1] = e
  OBVIOUS
<1> HIDE DEF r
<1>2. IsInjective(r)
  BY <1>1 DEF IsInjective, Range
<1>3. Range(r) = Range(q) \cup {e}
  BY <1>1 DEF Range
<1> QED BY <1>1, <1>2, <1>3 DEF r

-----------------------------------------------------------------------------
(* The publisher's entries.                                                 *)

\* e is a ServiceEntry with its Service.
Entry(e) == e = [name |-> e.name, group |-> e.group, reg |-> e.reg]

\* There is exactly one entry for each Service that is alive, its group is of
\* the present client, and the loop of clientCallback goes over such entries.
EntriesInv ==
    /\ mServices \in Seq(Scanners) /\ IsInjective(mServices)
    /\ Range(mServices) = DOMAIN svc
    /\ announcing \in Seq(Scanners) /\ Range(announcing) \subseteq DOMAIN svc
    /\ \A s \in DOMAIN svc : Entry(svc[s])
    /\ \A s \in DOMAIN svc : svc[s].group # 0 => svc[s].group = mpClient

\* Who refers to a scanner, and which scanner the loop may construct next.
ScannersInv ==
    /\ iter \in 0 .. MaxReloads /\ todo \subseteq Devices
    /\ Live \subseteq Scanners /\ IsFiniteSet(Live)
    /\ DOMAIN uri = Live /\ DOMAIN publishedName = Live
    /\ mScanners \subseteq Live /\ current \subseteq Live /\ held \subseteq Live
    /\ current \cap (mScanners \cup held) = {}
    /\ \A s \in Live : s.iter <= iter /\ (s.iter = iter => s.dev \notin todo)

\* Stable names are pairs and differ; a scanner in the list or about to be has
\* the compatible path, at most one of them, or its stable name as its path.
NamesInv ==
    /\ scannerCount \in Nat
    /\ scannerCount = 0 => mScanners = {} /\ current = {}
    /\ \A s \in Live : stableName[s] = <<stableName[s][1], stableName[s][2]>>
    /\ \A s, t \in Live : stableName[s] = stableName[t] => s = t
    /\ \A s \in Live : uri[s] \in {<<"eSCL">>, stableName[s]}
    /\ \A s, t \in mScanners \cup current :
          uri[s] = <<"eSCL">> /\ uri[t] = <<"eSCL">> => s = t

\* Nothing is listed before the client has connected, so that the loop of
\* clientCallback renames no scanner in the list.
ListedInv ==
    /\ ListedIsAnnounced
    /\ mState = "CONNECTING" => ~connected /\ mScanners = {}
    /\ ~Unlocked => mScanners = {}

-----------------------------------------------------------------------------
(* Who refers to which scanner.                                             *)

(* What the destruction of a scanner leaves: all the others.                *)
LEMMA DestroyLeaves ==
    ASSUME ScannersInv, NEW s \in Live, Destroy(s)
    PROVE  /\ Live' = Live \ {s} /\ IsFiniteSet(Live')
           /\ DOMAIN uri' = Live' /\ DOMAIN publishedName' = Live'
           /\ \A t \in Live' : /\ stableName'[t] = stableName[t] /\ uri'[t] = uri[t]
                               /\ publishedName'[t] = publishedName[t]
<1>1. /\ Live' = Live \ {s}
      /\ DOMAIN uri' = Live' /\ DOMAIN publishedName' = Live'
  BY DEF ScannersInv, Destroy, Drop, Live
<1>2. IsFiniteSet(Live')
  BY <1>1, FS_RemoveElement DEF ScannersInv
<1>3. \A t \in Live' : /\ stableName'[t] = stableName[t] /\ uri'[t] = uri[t]
                       /\ publishedName'[t] = publishedName[t]
  BY DEF ScannersInv, Destroy, Drop, Live
<1> QED BY <1>1, <1>2, <1>3

(* What the construction of a scanner adds: one that was not alive.          *)
LEMMA ConstructAdds ==
    ASSUME ScannersInv, NEW d \in Devices, Construct(d), current' # current
    PROVE  LET s == [dev |-> d, iter |-> iter] IN
           /\ s \in Scanners \ Live /\ current = {} /\ current' = {s}
           /\ Live' = Live \cup {s} /\ IsFiniteSet(Live')
           /\ DOMAIN uri' = Live' /\ DOMAIN publishedName' = Live'
           /\ stableName'[s] = StableName(d)
           /\ uri'[s] = IF scannerCount = 0 /\ CompatiblePath THEN <<"eSCL">> ELSE StableName(d)
           /\ \A t \in Live : /\ stableName'[t] = stableName[t] /\ uri'[t] = uri[t]
                              /\ publishedName'[t] = publishedName[t]
           /\ scannerCount' = scannerCount + 1
<1> DEFINE s == [dev |-> d, iter |-> iter]
<1>1. /\ current = {} /\ d \in todo /\ current' = {s}
      /\ stableName' = With(stableName, s, StableName(d))
      /\ publishedName' = With(publishedName, s, UniquePublishedName(d))
      /\ uri' = With(uri, s, IF scannerCount = 0 /\ CompatiblePath
                             THEN <<"eSCL">> ELSE StableName(d))
      /\ scannerCount' = scannerCount + 1
  BY DEF Construct
<1>2. s \in Scanners /\ s.iter = iter /\ s.dev = d
  BY DEF Scanners, ScannersInv
<1>3. s \notin Live
  BY <1>1, <1>2 DEF ScannersInv
<1> HIDE DEF s
<1>4. Live' = Live \cup {s} /\ DOMAIN uri' = Live' /\ DOMAIN publishedName' = Live'
  BY <1>1 DEF ScannersInv, Live, With
<1>5. IsFiniteSet(Live')
  BY <1>4, FS_AddElement DEF ScannersInv
<1>6. /\ stableName'[s] = StableName(d)
      /\ uri'[s] = IF scannerCount = 0 /\ CompatiblePath THEN <<"eSCL">> ELSE StableName(d)
  BY <1>1 DEF With
<1>7. \A t \in Live : /\ stableName'[t] = stableName[t] /\ uri'[t] = uri[t]
                      /\ publishedName'[t] = publishedName[t]
  BY <1>1, <1>3 DEF ScannersInv, Live, With
<1> QED BY <1>1, <1>2, <1>3, <1>4, <1>5, <1>6, <1>7 DEF s

(* Callbacks from Avahi change nothing about the scanners.                  *)
AvahiStep ==
    \/ OnDisconnected \/ OnError \/ OnConnected \/ AnnounceNext
    \/ \E s \in Live : OnCollision(s) \/ OnGroupFailure(s)

(* The frame of a callback.                                                 *)
LEMMA AvahiStepFrame == AvahiStep => UNCHANGED <<loop, held, scanners, mServices>>
BY DEF AvahiStep, OnDisconnected, OnError, OnConnected, AnnounceNext, OnCollision, OnGroupFailure

(* Every step keeps the references in order.                                *)
LEMMA ScannersInductive ==
    /\ Init => ScannersInv
    /\ ScannersInv /\ [Next]_vars => ScannersInv'
<1>1. ASSUME Init
      PROVE  ScannersInv
  <2>1. Live = {} /\ IsFiniteSet(Live)
    BY <1>1, FS_EmptySet DEF Init, Live
  <2> QED BY <1>1, <2>1, PublicationAssumption DEF Init, ScannersInv, Live
<1>2. ASSUME ScannersInv, [Next]_vars
      PROVE  ScannersInv'
  <2>1. CASE AvahiStep \/ UNCHANGED vars
    BY <1>2, <2>1, AvahiStepFrame DEF vars, loop, scanners, ScannersInv, Live
  <2>2. ASSUME NEW d \in Devices, Construct(d)
        PROVE  ScannersInv'
    <3>1. CASE current' = current
      BY <1>2, <2>2, <3>1 DEF Construct, ScannersInv, Live, scanners
    <3>2. CASE current' # current
      <4> DEFINE s == [dev |-> d, iter |-> iter]
      <4>1. /\ s \in Scanners \ Live /\ current' = {s}
            /\ Live' = Live \cup {s} /\ IsFiniteSet(Live')
            /\ DOMAIN uri' = Live' /\ DOMAIN publishedName' = Live'
        BY <1>2, <2>2, <3>2, ConstructAdds
      <4>2. s.iter = iter /\ s.dev = d
        OBVIOUS
      <4>3. UNCHANGED <<iter, mScanners, held>> /\ todo' = todo \ {d}
        BY <2>2 DEF Construct
      <4> HIDE DEF s
      <4> QED BY <1>2, <4>1, <4>2, <4>3 DEF ScannersInv
    <3> QED BY <3>1, <3>2
  <2>3. ASSUME NEW s \in current, Announce(s)
        PROVE  ScannersInv'
    <3>1. DOMAIN publishedName' = DOMAIN publishedName
      BY <2>3 DEF Announce
    <3>2. \/ UNCHANGED <<current, mScanners>>
          \/ current' = {} /\ mScanners' = mScanners \cup {s}
      BY <2>3 DEF Announce
    <3>3. UNCHANGED <<iter, todo, held, stableName, uri>>
      BY <2>3 DEF Announce
    <3> QED BY <1>2, <3>1, <3>2, <3>3 DEF ScannersInv, Live
  <2>4. ASSUME NEW s \in current, NotAnnounced(s)
        PROVE  ScannersInv'
    <3>1. Live' = Live \ {s} /\ IsFiniteSet(Live') /\ DOMAIN uri' = Live' /\ DOMAIN publishedName' = Live'
      BY <1>2, <2>4, DestroyLeaves DEF NotAnnounced, ScannersInv
    <3> QED BY <1>2, <2>4, <3>1 DEF NotAnnounced, ScannersInv
  <2>5. CASE Reload
    BY <1>2, <2>5, PublicationAssumption DEF Reload, ScannersInv, Live, scanners, Scanners
  <2>6. ASSUME NEW s \in Live, Clear(s)
        PROVE  ScannersInv'
    <3>1. CASE s \in held
      BY <1>2, <2>6, <3>1 DEF Clear, ScannersInv, Live, scanners
    <3>2. CASE s \notin held
      <4>1. Live' = Live \ {s} /\ IsFiniteSet(Live') /\ DOMAIN uri' = Live' /\ DOMAIN publishedName' = Live'
        BY <1>2, <2>6, <3>2, DestroyLeaves DEF Clear
      <4> QED BY <1>2, <2>6, <3>2, <4>1 DEF Clear, ScannersInv
    <3> QED BY <3>1, <3>2
  <2>7. ASSUME NEW s \in Live, CopyEntry(s)
        PROVE  ScannersInv'
    BY <1>2, <2>7 DEF CopyEntry, ScannersInv, Live, scanners, loop
  <2>8. ASSUME NEW s \in Live, ReleaseEntry(s)
        PROVE  ScannersInv'
    <3>1. CASE s \in mScanners
      BY <1>2, <2>8, <3>1 DEF ReleaseEntry, ScannersInv, Live, scanners, loop
    <3>2. CASE s \notin mScanners
      <4>1. Live' = Live \ {s} /\ IsFiniteSet(Live') /\ DOMAIN uri' = Live' /\ DOMAIN publishedName' = Live'
        BY <1>2, <2>8, <3>2, DestroyLeaves DEF ReleaseEntry
      <4> QED BY <1>2, <2>8, <3>2, <4>1 DEF ReleaseEntry, ScannersInv, loop
    <3> QED BY <3>1, <3>2
  <2> QED BY <1>2, <2>1, <2>2, <2>3, <2>4, <2>5, <2>6, <2>7, <2>8 DEF Next, AvahiStep
<1> QED BY <1>1, <1>2

-----------------------------------------------------------------------------
(* Entries, groups and clients.                                             *)

(* What ServiceEntry::announce does to the entries: only its own changes,   *)
(* and it has a group only if there is a client to make it for.             *)
LEMMA AnnouncedProperties ==
    ASSUME NEW entries, NEW s \in DOMAIN entries, Entry(entries[s]),
           NEW client, NEW isConnected, NEW outcome
    PROVE  LET r == Announced(entries, s, client, isConnected, outcome) IN
           /\ DOMAIN r = DOMAIN entries
           /\ \A t \in DOMAIN entries : t # s => r[t] = entries[t]
           /\ Entry(r[s])
           /\ r[s].group \in {0, client}
           /\ r[s].reg # NoName => client # 0 /\ isConnected /\ r[s].reg = r[s].name
<1> DEFINE rest == [entries EXCEPT ![s] = Unannounced(@)]
           name == FreeName(rest[s].name, Registered(rest))
           r == Announced(entries, s, client, isConnected, outcome)
<1>1. /\ DOMAIN rest = DOMAIN entries
      /\ \A t \in DOMAIN entries : t # s => rest[t] = entries[t]
  OBVIOUS
<1>2. rest[s] = [name |-> entries[s].name, group |-> 0, reg |-> NoName]
  BY DEF Entry, Unannounced
<1>3. \/ r = rest
      \/ /\ client # 0 /\ isConnected
         /\ r = [rest EXCEPT ![s] = [name |-> name, group |-> client,
                                     reg |-> IF outcome = "ok" THEN name ELSE NoName]]
  BY Zenon DEF Announced
<1> HIDE DEF rest, name, r
<1>4. CASE r = rest
  BY <1>1, <1>2, <1>4 DEF Entry, r
<1>5. CASE /\ client # 0 /\ isConnected
           /\ r = [rest EXCEPT ![s] = [name |-> name, group |-> client,
                                       reg |-> IF outcome = "ok" THEN name ELSE NoName]]
  <2>1. r[s] = [name |-> name, group |-> client, reg |-> IF outcome = "ok" THEN name ELSE NoName]
    BY <1>1, <1>5
  <2>2. DOMAIN r = DOMAIN entries /\ \A t \in DOMAIN entries : t # s => r[t] = entries[t]
    BY <1>1, <1>5
  <2>3. Entry(r[s])
    BY <2>1 DEF Entry
  <2>4. r[s].group \in {0, client}
    BY <2>1
  <2>5. r[s].reg # NoName => client # 0 /\ isConnected /\ r[s].reg = r[s].name
    <3>1. r[s].reg # NoName => r[s].reg = r[s].name
      BY <2>1
    <3> QED BY <3>1, <1>5
  <2> QED BY <2>2, <2>3, <2>4, <2>5 DEF r
<1> QED BY <1>3, <1>4, <1>5

(* What is left of the entries when a scanner is destroyed.                 *)
LEMMA DestroyEntries ==
    ASSUME EntriesInv, NEW s, Destroy(s), UNCHANGED mpClient
    PROVE  EntriesInv'
<1>1. /\ mServices' \in Seq(Scanners) /\ IsInjective(mServices')
      /\ Range(mServices') = Range(mServices) \ {s}
  BY RemoveFirstProperties DEF EntriesInv, Destroy
<1>2. DOMAIN svc' = DOMAIN svc \ {s} /\ \A t \in DOMAIN svc' : svc'[t] = svc[t]
  BY DEF Destroy, Drop
<1>3. announcing' \in Seq(Scanners) /\ Range(announcing') \subseteq DOMAIN svc'
  <2>1. CASE s \in DOMAIN svc
    <3>1. announcing' = announcing /\ announcing = <<>>
      BY <2>1 DEF Destroy, Unlocked
    <3>2. Range(announcing') = {}
      BY <3>1 DEF Range
    <3> QED BY <3>1, <3>2 DEF EntriesInv
  <2>2. CASE s \notin DOMAIN svc
    BY <1>2, <2>2 DEF Destroy, EntriesInv
  <2> QED BY <2>1, <2>2
<1> QED BY <1>1, <1>2, <1>3 DEF EntriesInv

(* destroyClient leaves no entry with a group.                              *)
LEMMA DestroyClientEntries ==
    ASSUME EntriesInv, svc' = DestroyClient(svc), UNCHANGED <<mServices, announcing>>
    PROVE  EntriesInv'
<1>1. DOMAIN svc' = DOMAIN svc
  BY DEF DestroyClient
<1>2. ASSUME NEW s \in DOMAIN svc
      PROVE  Entry(svc'[s]) /\ svc'[s].group = 0
  <2>1. svc'[s] = Unannounced(svc[s]) /\ Entry(svc[s])
    BY DEF DestroyClient, EntriesInv
  <2> QED BY <2>1 DEF Entry, Unannounced
<1> QED BY <1>1, <1>2 DEF EntriesInv

(* An entry that is announced anew, or loses its group.                     *)
LEMMA EntryChanged ==
    ASSUME EntriesInv, NEW s \in DOMAIN svc, DOMAIN svc' = DOMAIN svc,
           \A t \in DOMAIN svc : t # s => svc'[t] = svc[t],
           Entry(svc'[s]), svc'[s].group \in {0, mpClient},
           UNCHANGED <<mServices, mpClient>>,
           announcing' \in Seq(Scanners), Range(announcing') \subseteq Range(announcing)
    PROVE  EntriesInv'
<1>1. \A t \in DOMAIN svc' : /\ Entry(svc'[t])
                             /\ svc'[t].group # 0 => svc'[t].group = mpClient'
  BY DEF EntriesInv
<1> QED BY <1>1 DEF EntriesInv

(* What is left to announce after one round of the loop.                    *)
LEMMA TailRange ==
    ASSUME NEW S, NEW q \in Seq(S), q # <<>>
    PROVE  /\ Head(q) \in Range(q) /\ Tail(q) \in Seq(S)
           /\ Range(Tail(q)) \subseteq Range(q)
<1>1. Head(q) \in Range(q) /\ Tail(q) \in Seq(S)
  BY DEF Range
<1>2. Range(Tail(q)) \subseteq Range(q)
  BY HeadTailProperties DEF Range
<1> QED BY <1>1, <1>2

(* Every step keeps the entries in order.                                   *)
LEMMA EntriesInductive ==
    /\ Init => EntriesInv
    /\ ScannersInv /\ EntriesInv /\ [Next]_vars => EntriesInv'
<1>1. ASSUME Init
      PROVE  EntriesInv
  <2>1. mServices = <<>> /\ svc = <<>> /\ announcing = <<>>
    BY <1>1 DEF Init
  <2>2. <<>> \in Seq(Scanners) /\ IsInjective(<<>>) /\ Range(<<>>) = {} /\ DOMAIN <<>> = {}
    BY DEF IsInjective, Range
  <2> QED BY <2>1, <2>2 DEF EntriesInv
<1>2. ASSUME ScannersInv, EntriesInv, [Next]_vars
      PROVE  EntriesInv'
  <2> USE <1>2
  <2>1. CASE OnDisconnected
    <3>1. CASE mpClient # 0 /\ connected
      <4>1. svc' = DestroyClient(svc) /\ UNCHANGED <<mServices, announcing>>
        BY <2>1, <3>1 DEF OnDisconnected
      <4> QED BY <4>1, DestroyClientEntries
    <3>2. CASE ~(mpClient # 0 /\ connected)
      BY <2>1, <3>2 DEF OnDisconnected, EntriesInv
    <3> QED BY <3>1, <3>2
  <2>2. CASE OnError
    BY <2>2, DestroyClientEntries DEF OnError
  <2>3. CASE OnConnected
    <3>1. announcing' \in {announcing, mServices, <<>>} /\ UNCHANGED <<mServices, svc, mpClient>>
      BY <2>3 DEF OnConnected
    <3>2. <<>> \in Seq(Scanners) /\ Range(<<>>) = {}
      BY DEF Range
    <3> QED BY <3>1, <3>2 DEF EntriesInv
  <2>4. CASE AnnounceNext
    <3> DEFINE s == Head(announcing)
    <3>1. /\ s \in Range(announcing) /\ Tail(announcing) \in Seq(Scanners)
          /\ Range(Tail(announcing)) \subseteq Range(announcing)
      BY <2>4, TailRange DEF AnnounceNext, Unlocked, EntriesInv
    <3>2. s \in DOMAIN svc /\ Entry(svc[s])
      BY <3>1 DEF EntriesInv
    <3>3. PICK outcome \in Outcomes : svc' = Announced(svc, s, mpClient, connected, outcome)
      BY <2>4 DEF AnnounceNext
    <3>4. /\ announcing' = Tail(announcing) /\ UNCHANGED <<mServices, mpClient>>
      BY <2>4 DEF AnnounceNext, avahi
    <3>5. /\ DOMAIN svc' = DOMAIN svc
          /\ \A t \in DOMAIN svc : t # s => svc'[t] = svc[t]
          /\ Entry(svc'[s]) /\ svc'[s].group \in {0, mpClient}
      BY <3>2, <3>3, AnnouncedProperties
    <3> HIDE DEF s
    <3> QED BY <3>1, <3>2, <3>4, <3>5, EntryChanged
  <2>5. ASSUME NEW s \in Live, OnCollision(s)
        PROVE  EntriesInv'
    <3> DEFINE renamed == [svc EXCEPT ![s].name[3] = @ + 1]
    <3>1. /\ s \in DOMAIN svc /\ Entry(svc[s]) /\ svc[s].group = mpClient
          /\ UNCHANGED <<mServices, announcing, mpClient>>
      BY <2>5 DEF OnCollision, EntriesInv, avahi
    <3>2. PICK outcome \in Outcomes : svc' = Announced(renamed, s, svc[s].group, connected, outcome)
      BY <2>5 DEF OnCollision
    <3>3. /\ DOMAIN renamed = DOMAIN svc /\ \A t \in DOMAIN svc : t # s => renamed[t] = svc[t]
      OBVIOUS
    <3>4. Entry(renamed[s])
      <4>1. renamed[s] = [svc[s] EXCEPT !.name = [svc[s].name EXCEPT ![3] = @ + 1]]
        BY <3>1
      <4> QED BY <3>1, <4>1 DEF Entry
    <3> HIDE DEF renamed
    <3>5. /\ DOMAIN svc' = DOMAIN svc
          /\ \A t \in DOMAIN svc : t # s => svc'[t] = svc[t]
          /\ Entry(svc'[s]) /\ svc'[s].group \in {0, mpClient}
      BY <3>1, <3>2, <3>3, <3>4, AnnouncedProperties
    <3>6. announcing' \in Seq(Scanners) /\ Range(announcing') \subseteq Range(announcing)
      BY <3>1 DEF EntriesInv
    <3> QED BY <3>1, <3>5, <3>6, EntryChanged
  <2>6. ASSUME NEW s \in Live, OnGroupFailure(s)
        PROVE  EntriesInv'
    <3>1. /\ s \in DOMAIN svc /\ Entry(svc[s]) /\ svc' = [svc EXCEPT ![s] = Unannounced(@)]
          /\ UNCHANGED <<mServices, announcing, mpClient>>
      BY <2>6 DEF OnGroupFailure, EntriesInv, avahi
    <3>2. svc'[s] = [name |-> svc[s].name, group |-> 0, reg |-> NoName]
      BY <3>1 DEF Entry, Unannounced
    <3>3. Entry(svc'[s]) /\ svc'[s].group = 0
      BY <3>2 DEF Entry
    <3>4. DOMAIN svc' = DOMAIN svc /\ \A t \in DOMAIN svc : t # s => svc'[t] = svc[t]
      BY <3>1
    <3>5. announcing' \in Seq(Scanners) /\ Range(announcing') \subseteq Range(announcing)
      BY <3>1 DEF EntriesInv
    <3> QED BY <3>1, <3>3, <3>4, <3>5, EntryChanged
  <2>7. ASSUME NEW d \in Devices, Construct(d)
        PROVE  EntriesInv'
    BY <2>7 DEF Construct, EntriesInv, publisher, avahi
  <2>8. ASSUME NEW s \in current, Announce(s)
        PROVE  EntriesInv'
    <3> DEFINE new == [name |-> publishedName[s], group |-> 0, reg |-> NoName]
               entries == With(svc, s, new)
    <3>1. /\ s \notin DOMAIN svc /\ s \in Scanners
          /\ UNCHANGED <<announcing, mpClient>> /\ mServices' = Append(mServices, s)
      BY <2>8 DEF Announce, ScannersInv, avahi
    <3>2. PICK outcome \in Outcomes : svc' = Announced(entries, s, mpClient, connected, outcome)
      BY <2>8 DEF Announce
    <3>3. /\ DOMAIN entries = DOMAIN svc \cup {s} /\ entries[s] = new
          /\ \A t \in DOMAIN svc : entries[t] = svc[t]
      BY <3>1 DEF With
    <3>4. Entry(entries[s])
      BY <3>3 DEF Entry
    <3> HIDE DEF entries
    <3>5. /\ DOMAIN svc' = DOMAIN svc \cup {s}
          /\ \A t \in DOMAIN svc : svc'[t] = svc[t]
          /\ Entry(svc'[s]) /\ svc'[s].group \in {0, mpClient}
      BY <3>1, <3>2, <3>3, <3>4, AnnouncedProperties
    <3>6. /\ mServices' \in Seq(Scanners) /\ IsInjective(mServices')
          /\ Range(mServices') = Range(mServices) \cup {s}
      BY <3>1, AppendFresh DEF EntriesInv
    <3> QED BY <3>1, <3>5, <3>6 DEF EntriesInv
  <2>9. ASSUME NEW s \in current, NotAnnounced(s)
        PROVE  EntriesInv'
    BY <2>9, DestroyEntries DEF NotAnnounced, avahi
  <2>10. CASE Reload
    BY <2>10 DEF Reload, EntriesInv, publisher, avahi
  <2>11. ASSUME NEW s \in Live, Clear(s) \/ ReleaseEntry(s)
         PROVE  EntriesInv'
    <3>1. UNCHANGED mpClient /\ (Destroy(s) \/ UNCHANGED publisher)
      BY <2>11 DEF Clear, ReleaseEntry, avahi
    <3>2. CASE Destroy(s)
      BY <3>1, <3>2, DestroyEntries
    <3>3. CASE UNCHANGED publisher
      BY <3>1, <3>3 DEF EntriesInv, publisher
    <3> QED BY <3>1, <3>2, <3>3
  <2>12. ASSUME NEW s \in Live, CopyEntry(s)
         PROVE  EntriesInv'
    BY <2>12 DEF CopyEntry, EntriesInv, publisher, avahi
  <2>13. CASE UNCHANGED vars
    BY <2>13 DEF vars, EntriesInv, publisher, avahi
  <2> QED BY <2>1, <2>2, <2>3, <2>4, <2>5, <2>6, <2>7, <2>8, <2>9, <2>10, <2>11, <2>12, <2>13
          DEF Next
<1> QED BY <1>1, <1>2

(* The publisher's entries outlive neither a Service nor an Avahi group,    *)
(* whatever devices there are and however reloads, requests that keep a     *)
(* scanner, and Avahi's callbacks interleave.                               *)
THEOREM NoDanglingHolds == Spec => []NoDangling
<1>1. EntriesInv => NoDangling
  BY DEF EntriesInv, NoDangling
<1> QED BY <1>1, ScannersInductive, EntriesInductive, PTL DEF Spec

-----------------------------------------------------------------------------
(* Names and paths.                                                         *)

(* generateStableUniqueName gives a name that no live scanner has.          *)
LEMMA StableNameIsNew ==
    ASSUME IsFiniteSet(Live), NEW d
    PROVE  /\ StableName(d) = <<StableName(d)[1], StableName(d)[2]>>
           /\ \A t \in Live : stableName[t] # StableName(d)
<1> DEFINE alike == {s \in Live : stableName[s][1] = Model(d)}
           taken == {stableName[s][2] : s \in alike}
           f == [s \in alike |-> stableName[s][2]]
<1>1. IsFiniteSet(alike)
  BY FS_Subset
<1>2. f \in Surjection(alike, taken)
  BY DEF Surjection
<1>3. IsFiniteSet(taken)
  <2> HIDE DEF alike, taken, f
  <2> QED BY <1>1, <1>2, FS_Surjection
<1>4. StableName(d) = <<Model(d), LeastFree(1, taken)>>
  BY DEF StableName
<1>5. LeastFree(1, taken) \notin taken
  <2> HIDE DEF taken
  <2> QED BY <1>3, LeastFreeIsFree
<1>6. ASSUME NEW t \in Live, stableName[t] = StableName(d)
      PROVE  FALSE
  <2>1. stableName[t][1] = Model(d) /\ stableName[t][2] = LeastFree(1, taken)
    BY <1>4, <1>6
  <2>2. stableName[t][2] \in taken
    BY <2>1
  <2> QED BY <1>5, <2>1, <2>2
<1> QED BY <1>4, <1>6

(* What NamesInv says is kept when scanners go, or move from the loop to the *)
(* list.                                                                    *)
LEMMA NamesFewer ==
    ASSUME NamesInv, ScannersInv,
           Live' \subseteq Live,
           \A t \in Live' : stableName'[t] = stableName[t] /\ uri'[t] = uri[t],
           mScanners' \cup current' \subseteq (mScanners \cup current) \cap Live',
           UNCHANGED scannerCount
    PROVE  NamesInv'
BY DEF NamesInv

(* Every step keeps names and paths apart.                                  *)
LEMMA NamesInductive ==
    /\ Init => NamesInv
    /\ ScannersInv /\ NamesInv /\ [Next]_vars => NamesInv'
<1>1. Init => NamesInv
  BY DEF Init, NamesInv, Live
<1>2. ASSUME ScannersInv, NamesInv, [Next]_vars
      PROVE  NamesInv'
  <2> USE <1>2
  <2>1. CASE AvahiStep \/ UNCHANGED vars
    <3>1. UNCHANGED <<scannerCount, mScanners, current, stableName, uri>>
      BY <2>1, AvahiStepFrame DEF vars, loop, scanners
    <3> QED BY <3>1 DEF NamesInv, Live
  <2>2. ASSUME NEW d \in Devices, Construct(d)
        PROVE  NamesInv'
    <3>1. CASE current' = current
      BY <2>2, <3>1 DEF Construct, NamesInv, Live, scanners
    <3>2. CASE current' # current
      <4> DEFINE s == [dev |-> d, iter |-> iter]
      <4>1. /\ s \notin Live /\ current = {} /\ current' = {s}
            /\ Live' = Live \cup {s}
            /\ stableName'[s] = StableName(d)
            /\ uri'[s] = IF scannerCount = 0 /\ CompatiblePath THEN <<"eSCL">> ELSE StableName(d)
            /\ \A t \in Live : stableName'[t] = stableName[t] /\ uri'[t] = uri[t]
            /\ scannerCount' = scannerCount + 1
        BY <2>2, <3>2, ConstructAdds
      <4> HIDE DEF s
      <4>2. /\ StableName(d) = <<StableName(d)[1], StableName(d)[2]>>
            /\ \A t \in Live : stableName[t] # StableName(d)
        BY StableNameIsNew DEF ScannersInv
      <4>3. mScanners' = mScanners /\ mScanners \subseteq Live
        BY <2>2 DEF Construct, ScannersInv
      <4>4. scannerCount' \in Nat /\ scannerCount' # 0
        BY <4>1 DEF NamesInv
      <4>5. \A t \in Live' : stableName'[t] = <<stableName'[t][1], stableName'[t][2]>>
        BY <4>1, <4>2 DEF NamesInv
      <4>6. \A t, u \in Live' : stableName'[t] = stableName'[u] => t = u
        BY <4>1, <4>2 DEF NamesInv
      <4>7. \A t \in Live' : uri'[t] \in {<<"eSCL">>, stableName'[t]}
        BY <4>1 DEF NamesInv
      <4>8. ASSUME NEW t \in mScanners' \cup current', NEW u \in mScanners' \cup current',
                   uri'[t] = <<"eSCL">>, uri'[u] = <<"eSCL">>
            PROVE  t = u
        <5>1. CASE scannerCount = 0
          BY <5>1, <4>1, <4>3, <4>8 DEF NamesInv
        <5>2. CASE scannerCount # 0
          <6>1. uri'[s] # <<"eSCL">>
            BY <5>2, <4>1, <4>2
          <6> QED BY <6>1, <4>1, <4>3, <4>8 DEF NamesInv
        <5> QED BY <5>1, <5>2
      <4> QED BY <4>4, <4>5, <4>6, <4>7, <4>8 DEF NamesInv
    <3> QED BY <3>1, <3>2
  <2>3. ASSUME NEW s \in current, Announce(s)
        PROVE  NamesInv'
    <3>1. \/ UNCHANGED <<current, mScanners>>
          \/ current' = {} /\ mScanners' = mScanners \cup {s}
      BY <2>3 DEF Announce
    <3>2. UNCHANGED <<scannerCount, stableName, uri>>
      BY <2>3 DEF Announce
    <3>3. mScanners \cup current \subseteq Live
      BY DEF ScannersInv
    <3>4. Live' = Live
      BY <3>2 DEF Live
    <3> QED BY <3>1, <3>2, <3>3, <3>4, NamesFewer
  <2>4. ASSUME NEW s \in current, NotAnnounced(s)
        PROVE  NamesInv'
    <3>1. /\ Live' = Live \ {s}
          /\ \A t \in Live' : stableName'[t] = stableName[t] /\ uri'[t] = uri[t]
      BY <2>4, DestroyLeaves DEF NotAnnounced, ScannersInv
    <3>2. mScanners' \cup current' \subseteq (mScanners \cup current) \cap Live'
      BY <2>4, <3>1 DEF NotAnnounced, ScannersInv
    <3>3. UNCHANGED scannerCount
      BY <2>4 DEF NotAnnounced
    <3> QED BY <3>1, <3>2, <3>3, NamesFewer
  <2>5. CASE Reload
    BY <2>5 DEF Reload, NamesInv, Live, scanners
  <2>6. ASSUME NEW s \in Live, Clear(s) \/ ReleaseEntry(s)
        PROVE  NamesInv'
    <3>1. UNCHANGED <<current, scannerCount>> /\ mScanners' \subseteq mScanners
      BY <2>6 DEF Clear, ReleaseEntry, loop
    <3>2. \/ Destroy(s) /\ s \notin mScanners' /\ s \notin current'
          \/ UNCHANGED scanners
      BY <2>6 DEF Clear, ReleaseEntry, loop, ScannersInv
    <3>3. CASE Destroy(s) /\ s \notin mScanners' /\ s \notin current'
      <4>1. /\ Live' = Live \ {s}
            /\ \A t \in Live' : stableName'[t] = stableName[t] /\ uri'[t] = uri[t]
        BY <3>3, DestroyLeaves
      <4>2. mScanners' \cup current' \subseteq (mScanners \cup current) \cap Live'
        BY <3>1, <3>3, <4>1 DEF ScannersInv
      <4> QED BY <3>1, <4>1, <4>2, NamesFewer
    <3>4. CASE UNCHANGED scanners
      <4>1. Live' = Live /\ UNCHANGED <<stableName, uri>>
        BY <3>4 DEF scanners, Live
      <4>2. mScanners' \cup current' \subseteq (mScanners \cup current) \cap Live'
        BY <3>1, <4>1 DEF ScannersInv
      <4> QED BY <3>1, <4>1, <4>2, NamesFewer
    <3> QED BY <3>2, <3>3, <3>4
  <2>7. ASSUME NEW s \in Live, CopyEntry(s)
        PROVE  NamesInv'
    BY <2>7 DEF CopyEntry, NamesInv, Live, loop, scanners
  <2> QED BY <2>1, <2>2, <2>3, <2>4, <2>5, <2>6, <2>7 DEF Next, AvahiStep
<1> QED BY <1>1, <1>2

(* Scanners that are alive at the same time never share a stable name, and  *)
(* scanners in the list never share a path, for any devices and any number   *)
(* of reloads.                                                              *)
THEOREM IdentitiesUniqueHolds == Spec => []IdentitiesUnique
<1>1. ScannersInv /\ NamesInv => IdentitiesUnique
  <2> SUFFICES ASSUME ScannersInv, NamesInv
               PROVE  IdentitiesUnique
    OBVIOUS
  <2>1. ASSUME NEW s \in mScanners, NEW t \in mScanners, uri[s] = uri[t]
        PROVE  s = t
    <3>1. s \in Live /\ t \in Live
      BY DEF ScannersInv
    <3>2. stableName[s] # <<"eSCL">> /\ stableName[t] # <<"eSCL">>
      <4>1. \A a, b : <<a, b>> # <<"eSCL">>
        OBVIOUS
      <4> QED BY <3>1, <4>1 DEF NamesInv
    <3> QED BY <2>1, <3>1, <3>2 DEF NamesInv
  <2> QED BY <2>1 DEF IdentitiesUnique, NamesInv
<1> QED BY <1>1, ScannersInductive, NamesInductive, PTL DEF Spec

-----------------------------------------------------------------------------
(* What the list shows.                                                     *)

(* A step that leaves the services and the names of listed scanners alone.  *)
LEMMA ListedKept ==
    ASSUME ListedInv, hurt \subseteq hurt',
           mScanners' \subseteq mScanners,
           hurt' = {} => \A s \in mScanners' :
               s \in DOMAIN svc => /\ s \in DOMAIN svc' /\ svc'[s].reg = svc[s].reg
                                   /\ publishedName'[s] = publishedName[s],
           mState' = "CONNECTING" => mState = "CONNECTING" /\ ~connected',
           ~Unlocked' => mScanners' = {}
    PROVE  ListedInv'
<1>1. ListedIsAnnounced'
  <2> SUFFICES ASSUME hurt' = {}, NEW s \in mScanners'
               PROVE  s \in DOMAIN svc' /\ svc'[s].reg = publishedName'[s]
    BY DEF ListedIsAnnounced
  <2>1. s \in DOMAIN svc /\ svc[s].reg = publishedName[s]
    BY DEF ListedInv, ListedIsAnnounced
  <2> QED BY <2>1
<1>2. mState' = "CONNECTING" => ~connected' /\ mScanners' = {}
  BY DEF ListedInv
<1> QED BY <1>1, <1>2 DEF ListedInv

(* Every step keeps the list in step with the announcements.                *)
LEMMA ListedInductive ==
    /\ Init => ListedInv
    /\ ScannersInv /\ EntriesInv /\ ListedInv /\ [Next]_vars => ListedInv'
<1>1. ASSUME Init
      PROVE  ListedInv
  <2>1. mState = "CONNECTING" => ~connected
    BY <1>1 DEF Init
  <2> QED BY <1>1, <2>1 DEF Init, ListedInv, ListedIsAnnounced, Unlocked
<1>2. ASSUME ScannersInv, EntriesInv, ListedInv, [Next]_vars
      PROVE  ListedInv'
  <2> USE <1>2
  <2>1. CASE OnDisconnected
    <3>1. CASE mpClient # 0 /\ connected
      <4>1. /\ hurt' = hurt \cup {"failure"} /\ mState' = "FAILURE"
            /\ UNCHANGED <<mScanners, announcing>> /\ Unlocked
        BY <2>1, <3>1 DEF OnDisconnected, loop
      <4>2. Unlocked'
        BY <4>1 DEF Unlocked
      <4>3. hurt' # {}
        BY <4>1
      <4> QED BY <4>1, <4>2, <4>3, ListedKept
    <3>2. CASE ~(mpClient # 0 /\ connected)
      BY <2>1, <3>2 DEF OnDisconnected, ListedInv, ListedIsAnnounced, Unlocked, loop, scanners
    <3> QED BY <3>1, <3>2
  <2>2. CASE OnError
    <3>1. /\ hurt' = hurt \cup {"failure"} /\ mState' = "FAILURE"
          /\ UNCHANGED <<mScanners, announcing>> /\ Unlocked
      BY <2>2 DEF OnError, loop
    <3>2. Unlocked' /\ hurt' # {}
      BY <3>1 DEF Unlocked
    <3> QED BY <3>1, <3>2, ListedKept
  <2>3. CASE OnConnected
    <3>1. /\ UNCHANGED <<mScanners, svc, publishedName, hurt>> /\ Unlocked
      BY <2>3 DEF OnConnected, loop, scanners
    <3>2. CASE mpClient # 0
      <4>1. /\ mState' = "RUNNING"
            /\ announcing' = IF mState = "CONNECTING" THEN mServices ELSE <<>>
        BY <2>3, <3>2 DEF OnConnected
      <4>2. ~Unlocked' => mScanners' = {}
        BY <3>1, <4>1 DEF Unlocked, ListedInv
      <4> QED BY <3>1, <4>1, <4>2, ListedKept
    <3>3. CASE mpClient = 0
      BY <2>3, <3>1, <3>3 DEF OnConnected, ListedInv, ListedIsAnnounced, Unlocked
    <3> QED BY <3>2, <3>3
  <2>4. CASE AnnounceNext
    <3>1. UNCHANGED <<mScanners, mState, connected, hurt>> /\ mScanners = {}
      BY <2>4 DEF AnnounceNext, ListedInv, loop, avahi
    <3> QED BY <3>1, ListedKept DEF ListedInv
  <2>5. ASSUME NEW s \in Live, OnCollision(s)
        PROVE  ListedInv'
    <3> DEFINE renamed == [svc EXCEPT ![s].name[3] = @ + 1]
    <3>1. /\ s \in DOMAIN svc /\ Entry(svc[s])
          /\ UNCHANGED <<mScanners, publishedName, announcing, mState, connected>>
      BY <2>5 DEF OnCollision, EntriesInv, avahi, loop, scanners
    <3>2. PICK outcome \in Outcomes :
             /\ svc' = Announced(renamed, s, svc[s].group, connected, outcome)
             /\ hurt' = hurt \cup {h \in {"failure", "collision"} :
                                     s \in mScanners /\ (outcome = "ok" <=> h = "collision")}
      BY <2>5 DEF OnCollision
    <3>3. hurt' = {} => s \notin mScanners
      BY <3>2
    <3>4. DOMAIN renamed = DOMAIN svc /\ \A t \in DOMAIN svc : t # s => renamed[t] = svc[t]
      OBVIOUS
    <3>5. Entry(renamed[s])
      <4>1. renamed[s] = [svc[s] EXCEPT !.name = [svc[s].name EXCEPT ![3] = @ + 1]]
        BY <3>1
      <4> QED BY <3>1, <4>1 DEF Entry
    <3> HIDE DEF renamed
    <3>6. DOMAIN svc' = DOMAIN svc /\ \A t \in DOMAIN svc : t # s => svc'[t] = svc[t]
      BY <3>1, <3>2, <3>4, <3>5, AnnouncedProperties
    <3>7. hurt \subseteq hurt'
      BY <3>2
    <3>8. ~Unlocked' => mScanners' = {}
      BY <3>1 DEF Unlocked, ListedInv
    <3>9. mState' = "CONNECTING" => mState = "CONNECTING" /\ ~connected'
      BY <3>1 DEF ListedInv
    <3> QED BY <3>1, <3>3, <3>6, <3>7, <3>8, <3>9, ListedKept
  <2>6. ASSUME NEW s \in Live, OnGroupFailure(s)
        PROVE  ListedInv'
    <3>1. /\ svc' = [svc EXCEPT ![s] = Unannounced(@)]
          /\ hurt' = IF s \in mScanners THEN hurt \cup {"failure"} ELSE hurt
          /\ UNCHANGED <<mScanners, publishedName, announcing, mState, connected>>
      BY <2>6 DEF OnGroupFailure, avahi, loop, scanners
    <3>2. (hurt' = {} => s \notin mScanners) /\ hurt \subseteq hurt'
      BY <3>1
    <3>3. DOMAIN svc' = DOMAIN svc /\ \A t \in DOMAIN svc : t # s => svc'[t] = svc[t]
      BY <3>1
    <3>4. ~Unlocked' => mScanners' = {}
      BY <3>1 DEF Unlocked, ListedInv
    <3>5. mState' = "CONNECTING" => mState = "CONNECTING" /\ ~connected'
      BY <3>1 DEF ListedInv
    <3> QED BY <3>1, <3>2, <3>3, <3>4, <3>5, ListedKept
  <2>7. ASSUME NEW d \in Devices, Construct(d)
        PROVE  ListedInv'
    <3>1. UNCHANGED <<mScanners, svc, announcing, mState, connected, hurt>>
      BY <2>7 DEF Construct, publisher, avahi
    <3>2. \A t \in Live : publishedName'[t] = publishedName[t]
      <4>1. CASE current' = current
        <5>1. ~(current' = {[dev |-> d, iter |-> iter]} /\ current = {})
          BY <4>1
        <5> QED BY <2>7, <5>1 DEF Construct, scanners
      <4>2. CASE current' # current
        BY <2>7, <4>2, ConstructAdds
      <4> QED BY <4>1, <4>2
    <3>3. mScanners \subseteq Live
      BY DEF ScannersInv
    <3>4. ~Unlocked' => mScanners' = {}
      BY <3>1 DEF Unlocked, ListedInv
    <3>5. mState' = "CONNECTING" => mState = "CONNECTING" /\ ~connected'
      BY <3>1 DEF ListedInv
    <3> QED BY <3>1, <3>2, <3>3, <3>4, <3>5, ListedKept
  <2>8. ASSUME NEW s \in current, Announce(s)
        PROVE  ListedInv'
    <3> DEFINE new == [name |-> publishedName[s], group |-> 0, reg |-> NoName]
               entries == With(svc, s, new)
    <3>1. /\ s \notin DOMAIN svc /\ Unlocked
          /\ UNCHANGED <<announcing, mState, connected, hurt>>
      BY <2>8 DEF Announce, avahi
    <3>2. PICK outcome \in Outcomes :
             /\ svc' = Announced(entries, s, mpClient, connected, outcome)
             /\ IF svc'[s].reg # NoName
                THEN /\ mScanners' = mScanners \cup {s}
                     /\ publishedName' = [publishedName EXCEPT ![s] = svc'[s].name]
                ELSE UNCHANGED <<mScanners, publishedName>>
      BY <2>8 DEF Announce
    <3>3. /\ DOMAIN entries = DOMAIN svc \cup {s} /\ entries[s] = new
          /\ \A t \in DOMAIN svc : entries[t] = svc[t]
      BY <3>1 DEF With
    <3>4. Entry(entries[s])
      BY <3>3 DEF Entry
    <3> HIDE DEF entries
    <3>5. /\ DOMAIN svc' = DOMAIN svc \cup {s}
          /\ \A t \in DOMAIN svc : svc'[t] = svc[t]
      BY <3>1, <3>2, <3>3, <3>4, AnnouncedProperties
    <3>6. svc'[s].reg # NoName => connected /\ svc'[s].reg = svc'[s].name
      BY <3>2, <3>3, <3>4, AnnouncedProperties
    <3>7. Unlocked'
      BY <3>1 DEF Unlocked
    <3>8. s \in DOMAIN publishedName /\ s \notin mScanners
      BY DEF ScannersInv
    <3>9. CASE svc'[s].reg = NoName
      <4>1. UNCHANGED <<mScanners, publishedName>>
        BY <3>2, <3>9
      <4>2. mState' = "CONNECTING" => mState = "CONNECTING" /\ ~connected'
        BY <3>1 DEF ListedInv
      <4> QED BY <3>1, <3>5, <3>7, <4>1, <4>2, ListedKept
    <3>10. CASE svc'[s].reg # NoName
      <4>1. /\ mScanners' = mScanners \cup {s}
            /\ publishedName'[s] = svc'[s].reg
            /\ \A t \in DOMAIN publishedName : t # s => publishedName'[t] = publishedName[t]
        BY <3>2, <3>6, <3>8, <3>10
      <4>2. mState' # "CONNECTING"
        BY <3>1, <3>6, <3>10 DEF ListedInv
      <4>3. ListedIsAnnounced'
        <5> SUFFICES ASSUME hurt' = {}, NEW t \in mScanners'
                     PROVE  t \in DOMAIN svc' /\ svc'[t].reg = publishedName'[t]
          BY DEF ListedIsAnnounced
        <5>1. CASE t = s
          BY <3>5, <4>1, <5>1
        <5>2. CASE t # s
          <6>1. t \in mScanners /\ t \in DOMAIN publishedName
            BY <4>1, <5>2 DEF ScannersInv
          <6>2. t \in DOMAIN svc /\ svc[t].reg = publishedName[t]
            BY <3>1, <6>1 DEF ListedInv, ListedIsAnnounced
          <6> QED BY <3>5, <4>1, <5>2, <6>1, <6>2
        <5> QED BY <5>1, <5>2
      <4> QED BY <3>7, <4>2, <4>3 DEF ListedInv
    <3> QED BY <3>9, <3>10
  <2>9. ASSUME NEW s \in Live, Destroy(s), s \notin mScanners',
               mScanners' \subseteq mScanners, UNCHANGED <<hurt, mState, connected>>
        PROVE  ListedInv'
    <3>1. /\ announcing' = announcing
          /\ \A t \in Live : t # s => publishedName'[t] = publishedName[t]
          /\ DOMAIN svc' = DOMAIN svc \ {s} /\ \A t \in DOMAIN svc' : svc'[t] = svc[t]
      BY <2>9, DestroyLeaves DEF Destroy, Drop, ScannersInv
    <3>2. mScanners' \subseteq Live
      BY <2>9 DEF ScannersInv
    <3>3. ~Unlocked' => mScanners' = {}
      BY <2>9, <3>1 DEF Unlocked, ListedInv
    <3>4. mState' = "CONNECTING" => mState = "CONNECTING" /\ ~connected'
      BY <2>9 DEF ListedInv
    <3> QED BY <2>9, <3>1, <3>2, <3>3, <3>4, ListedKept
  <2>10. ASSUME NEW s \in current, NotAnnounced(s)
         PROVE  ListedInv'
    <3>1. s \in Live /\ s \notin mScanners
      BY DEF ScannersInv
    <3>2. Destroy(s) /\ UNCHANGED <<mScanners, hurt, mState, connected>>
      BY <2>10 DEF NotAnnounced, avahi
    <3> QED BY <2>9, <3>1, <3>2
  <2>11. CASE Reload
    BY <2>11 DEF Reload, ListedInv, ListedIsAnnounced, Unlocked, publisher, avahi
  <2>12. ASSUME NEW s \in Live, Clear(s) \/ ReleaseEntry(s)
         PROVE  ListedInv'
    <3>1. UNCHANGED <<hurt, mState, connected>> /\ mScanners' \subseteq mScanners
      BY <2>12 DEF Clear, ReleaseEntry, loop, avahi
    <3>2. \/ Destroy(s) /\ s \notin mScanners'
          \/ UNCHANGED <<scanners, publisher>>
      BY <2>12 DEF Clear, ReleaseEntry, loop
    <3>3. CASE Destroy(s) /\ s \notin mScanners'
      BY <2>9, <3>1, <3>3
    <3>4. CASE UNCHANGED <<scanners, publisher>>
      <4>1. UNCHANGED <<publishedName, svc, announcing>>
        BY <3>4 DEF scanners, publisher
      <4>2. ~Unlocked' => mScanners' = {}
        BY <3>1, <4>1 DEF Unlocked, ListedInv
      <4>3. mState' = "CONNECTING" => mState = "CONNECTING" /\ ~connected'
        BY <3>1 DEF ListedInv
      <4> QED BY <3>1, <4>1, <4>2, <4>3, ListedKept
    <3> QED BY <3>2, <3>3, <3>4
  <2>13. ASSUME NEW s \in Live, CopyEntry(s)
         PROVE  ListedInv'
    BY <2>13 DEF CopyEntry, ListedInv, ListedIsAnnounced, Unlocked, loop, scanners, publisher, avahi
  <2>14. CASE UNCHANGED vars
    BY <2>14 DEF vars, ListedInv, ListedIsAnnounced, Unlocked, loop, scanners, publisher, avahi
  <2> QED BY <2>1, <2>2, <2>3, <2>4, <2>5, <2>6, <2>7, <2>8, <2>10, <2>11, <2>12, <2>13, <2>14
          DEF Next
<1> QED BY <1>1, <1>2

(* As long as Avahi reports neither a failure nor a collision, every listed *)
(* scanner is announced under the name it shows, whatever services of       *)
(* earlier iterations are withdrawn meanwhile.                              *)
THEOREM ListedIsAnnouncedHolds == Spec => []ListedIsAnnounced
<1>1. ListedInv => ListedIsAnnounced
  BY DEF ListedInv
<1> QED BY <1>1, ScannersInductive, EntriesInductive, ListedInductive, PTL DEF Spec
=============================================================================
