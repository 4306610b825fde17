---------------------------- MODULE DocumentProofs ----------------------------
(***************************************************************************)
(* Theorems about Document for images of any height, any number of lines    *)
(* and images, an output buffer of any size, and a socket that accepts any  *)
(* part of it at a time: what is on its way to the client, and what the      *)
(* document itself consists of.                                             *)
(***************************************************************************)
EXTENDS Document, InductionProofs, SequenceTheorems, FiniteSetTheorems, TLAPS

USE OutbufSizeAssumption, DocumentAssumption

-----------------------------------------------------------------------------
(* The content of a sequence of items.                                      *)

(* The content of a sequence consists of its items.                         *)
LEMMA ContentType ==
    ASSUME NEW S, NEW s \in Seq(S)
    PROVE  Content(s) \in Seq(S)
BY PickType DEF Content

(* Nothing is in nothing.                                                   *)
LEMMA ContentEmpty == Content(<<>>) = <<>>
BY PickEmpty DEF Content

(* An item more.                                                            *)
LEMMA ContentAppend ==
    ASSUME NEW S, NEW s \in Seq(S), NEW x \in S
    PROVE  Content(Append(s, x)) = IF IsContent(x) THEN Append(Content(s), x) ELSE Content(s)
<1> DEFINE t == Append(s, x)
           at == {i \in 1 .. Len(s) : IsContent(s[i])}
           bt == {i \in 1 .. Len(t) : IsContent(t[i])}
<1>1. Len(t) = Len(s) + 1 /\ t[Len(s) + 1] = x /\ Len(s) \in Nat
      /\ \A m \in 1 .. Len(s) : t[m] = s[m]
  OBVIOUS
<1>2. \A m \in 1 .. Len(s) : m \in at <=> m \in bt
  <2> HIDE DEF t
  <2> QED BY <1>1
<1>3. Len(s) + 1 \in bt <=> IsContent(x)
  <2> HIDE DEF t
  <2> QED BY <1>1
<1>4. Pick(t, bt) = IF Len(s) + 1 \in bt THEN Append(Pick(s, at), x) ELSE Pick(s, at)
  <2> HIDE DEF at, bt
  <2> QED BY <1>2, PickAppend
<1>5. Content(s) = Pick(s, at) /\ Content(t) = Pick(t, bt)
  BY DEF Content
<1> HIDE DEF t, at, bt
<1> QED BY <1>3, <1>4, <1>5 DEF t

(* The beginnings of a sequence.                                            *)
LEMMA Beginnings ==
    ASSUME NEW S, NEW t \in Seq(S)
    PROVE  /\ SubSeq(t, 1, 0) = <<>>
           /\ SubSeq(t, 1, Len(t)) = t
           /\ \A n \in 1 .. Len(t) : /\ SubSeq(t, 1, n - 1) \in Seq(S) /\ t[n] \in S
                                     /\ SubSeq(t, 1, n) = Append(SubSeq(t, 1, n - 1), t[n])
OBVIOUS

(* Appending to the second of two sequences.                                *)
LEMMA AppendToSecond ==
    ASSUME NEW S, NEW s \in Seq(S), NEW v \in Seq(S), NEW x \in S
    PROVE  s \o Append(v, x) = Append(s \o v, x)
OBVIOUS

(* The content of two sequences is that of the one after that of the other. *)
LEMMA ContentConcat ==
    ASSUME NEW S, NEW s \in Seq(S), NEW t \in Seq(S)
    PROVE  Content(s \o t) = Content(s) \o Content(t)
<1> DEFINE u(n) == SubSeq(t, 1, n)
           failing == {n \in 0 .. Len(t) : Content(s \o u(n)) # Content(s) \o Content(u(n))}
<1>1. Len(t) \in Nat /\ Content(s) \in Seq(S)
  BY ContentType
<1>2. 0 \notin failing
  <2>1. u(0) = <<>> /\ Content(<<>>) = <<>>
    BY Beginnings, ContentEmpty
  <2>2. s \o <<>> = s /\ Content(s) \o <<>> = Content(s)
    BY <1>1
  <2> HIDE DEF u
  <2> QED BY <2>1, <2>2
<1>3. ASSUME NEW n \in 1 .. Len(t), n - 1 \notin failing
      PROVE  n \notin failing
  <2> DEFINE v == u(n - 1)
             x == t[n]
  <2>1. v \in Seq(S) /\ x \in S /\ u(n) = Append(v, x)
    BY Beginnings
  <2>2. Content(s \o v) = Content(s) \o Content(v)
    BY <1>1, <1>3
  <2> HIDE DEF u, v, x
  <2>3. Content(v) \in Seq(S) /\ s \o v \in Seq(S)
    BY <2>1, ContentType
  <2>4. s \o Append(v, x) = Append(s \o v, x)
    BY <2>1, AppendToSecond
  <2>5. Content(Append(s \o v, x)) = IF IsContent(x) THEN Append(Content(s \o v), x)
                                     ELSE Content(s \o v)
    BY <2>1, <2>3, ContentAppend
  <2>6. Content(Append(v, x)) = IF IsContent(x) THEN Append(Content(v), x) ELSE Content(v)
    BY <2>1, ContentAppend
  <2>7. Content(s) \o Append(Content(v), x) = Append(Content(s) \o Content(v), x)
    <3>1. Content(s) \in Seq(S) /\ Content(v) \in Seq(S) /\ x \in S
      BY <1>1, <2>1, <2>3
    <3> QED BY ONLY <3>1, AppendToSecond
  <2>8. Content(s \o u(n)) = Content(s) \o Content(u(n))
    <3> HIDE DEF IsContent, Content
    <3>1. CASE IsContent(x)
      BY <2>1, <2>2, <2>4, <2>5, <2>6, <2>7, <3>1, Zenon
    <3>2. CASE ~IsContent(x)
      BY <2>1, <2>2, <2>4, <2>5, <2>6, <2>7, <3>2, Zenon
    <3> QED BY <3>1, <3>2
  <2> QED BY <2>8
<1>4. failing = {}
  <2>1. SUFFICES ASSUME failing # {}
                 PROVE  FALSE
    OBVIOUS
  <2>2. failing \subseteq Nat
    BY <1>1
  <2>3. PICK n \in failing : \A k \in failing : n <= k
    <3> HIDE DEF failing
    <3> QED BY <2>1, <2>2, LeastMember
  <2>4. n \in 0 .. Len(t)
    BY <2>3
  <2> HIDE DEF failing
  <2>5. n \in 1 .. Len(t) /\ ~(n <= n - 1)
    BY <1>1, <1>2, <2>3, <2>4
  <2> QED BY <1>3, <2>3, <2>5
<1>5. Content(s \o u(Len(t))) = Content(s) \o Content(u(Len(t)))
  BY <1>1, <1>4
<1>6. u(Len(t)) = t
  BY Beginnings
<1> QED BY <1>5, <1>6

(* The content of a sequence without framing is the sequence itself.        *)
LEMMA ContentWhole ==
    ASSUME NEW S, NEW t \in Seq(S), \A i \in 1 .. Len(t) : IsContent(t[i])
    PROVE  Content(t) = t
<1> DEFINE u(n) == SubSeq(t, 1, n)
           failing == {n \in 0 .. Len(t) : Content(u(n)) # u(n)}
<1>1. Len(t) \in Nat
  OBVIOUS
<1>2. 0 \notin failing
  BY Beginnings, ContentEmpty
<1>3. ASSUME NEW n \in 1 .. Len(t), n - 1 \notin failing
      PROVE  n \notin failing
  <2>1. u(n - 1) \in Seq(S) /\ t[n] \in S /\ u(n) = Append(u(n - 1), t[n])
    BY Beginnings
  <2>2. Content(u(n - 1)) = u(n - 1)
    BY <1>1, <1>3
  <2> HIDE DEF u
  <2>3. Content(u(n)) = Append(Content(u(n - 1)), t[n])
    BY <2>1, ContentAppend
  <2> QED BY <2>1, <2>2, <2>3
<1>4. failing = {}
  <2>1. SUFFICES ASSUME failing # {}
                 PROVE  FALSE
    OBVIOUS
  <2>2. failing \subseteq Nat
    BY <1>1
  <2>3. PICK n \in failing : \A k \in failing : n <= k
    <3> HIDE DEF failing
    <3> QED BY <2>1, <2>2, LeastMember
  <2>4. n \in 0 .. Len(t)
    BY <2>3
  <2> HIDE DEF failing
  <2>5. n \in 1 .. Len(t) /\ ~(n <= n - 1)
    BY <1>1, <1>2, <2>3, <2>4
  <2> QED BY <1>3, <2>3, <2>5
<1>5. Content(u(Len(t))) = u(Len(t))
  BY <1>1, <1>4
<1>6. u(Len(t)) = t
  BY Beginnings
<1> QED BY <1>5, <1>6

(* Framing adds nothing to the content.                                     *)
LEMMA ContentWithout ==
    ASSUME NEW S, NEW s \in Seq(S), NEW t \in Seq(S), NEW x \in S, ~IsContent(x)
    PROVE  Content((s \o <<x>>) \o t) = Content(s \o t)
<1>1. s \o <<x>> = Append(s, x) /\ Append(s, x) \in Seq(S)
  OBVIOUS
<1>2. Content(Append(s, x)) = Content(s)
  BY ContentAppend
<1>3. Content(Append(s, x) \o t) = Content(Append(s, x)) \o Content(t)
  BY <1>1, ContentConcat
<1>4. Content(s \o t) = Content(s) \o Content(t)
  BY ContentConcat
<1> QED BY <1>1, <1>2, <1>3, <1>4

-----------------------------------------------------------------------------
(* The stream: what is on its way.                                          *)

\* What mStream has taken, and with it what the present call has still to insert.
Sent == wire \o outbuf
Whole == Sent \o todo

Calls == {"none", "send", "flush", "close", "closed"}

\* Everything is a sequence of members of S.  S is not more than that: what an
\* entry of a PDF's table says is whatever sorting yields.
Over(S) ==
    /\ {Mark(t) : t \in Framing} \cup {Size(n) : n \in Nat} \subseteq S
    /\ payload \in Seq(S) /\ chunk \in Seq(S) /\ todo \in Seq(S)
    /\ outbuf \in Seq(S) /\ wire \in Seq(S)

AllContent(s) == \A i \in 1 .. Len(s) : IsContent(s[i])
NoFlush(s) == \A i \in 1 .. Len(s) : s[i].t # "flush"
Flushed(t) ==
    /\ t # <<>> => t[Len(t)].t = "flush"
    /\ \A i \in 1 .. Len(t) - 1 : t[i].t = "flush" => t[i + 1].t = "last"

\* Types, and where each of the buffers may hold something: a call leaves nothing
\* in the output buffer, because whatever it inserts ends with a flush.
BuffersInv ==
    /\ call \in Calls /\ {chunkBad, streamBad, syncing} \subseteq BOOLEAN
    /\ mTotalWritten \in Nat
    /\ AllContent(chunk) /\ NoFlush(wire) /\ NoFlush(outbuf) /\ Flushed(todo)
    /\ chunkBad => streamBad
    /\ streamBad => outbuf = <<>> /\ ~syncing
    /\ call \in {"none", "closed"} => todo = <<>> /\ ~syncing
    /\ syncing => outbuf # <<>>
    /\ outbuf # <<>> => syncing \/ todo # <<>>
    /\ Len(outbuf) <= OutbufSize /\ (~syncing => Len(outbuf) < OutbufSize)

\* What has been written is what is on its way; after an error, what arrived is
\* a beginning of it.
DeliveredInv ==
    /\ IsPrefix(Content(wire), payload)
    /\ ~streamBad => payload = Content(Whole) \o chunk

\* Chunks are complete on their way, and after an error as far as they got.
Framed(q) ==
    \A i \in 1 .. Len(q) : q[i].t = "size" =>
        /\ q[i].a \in Nat /\ i + q[i].a + 1 <= Len(q)
        /\ \A j \in i + 1 .. i + q[i].a : IsContent(q[j])
        /\ q[i + q[i].a + 1].t = "crlf"
        /\ i + q[i].a + 2 <= Len(q) => q[i + q[i].a + 2].t \in {"size", "last", "flush"}
FramedSoFar(q) ==
    \A i \in 1 .. Len(q) : q[i].t = "size" =>
        /\ q[i].a \in Nat
        /\ \A j \in i + 1 .. i + q[i].a : j <= Len(q) => IsContent(q[j])
        /\ i + q[i].a + 1 <= Len(q) => q[i + q[i].a + 1].t = "crlf"
        /\ i + q[i].a + 2 <= Len(q) => q[i + q[i].a + 2].t \in {"size", "last"}
FramedInv ==
    /\ FramedSoFar(wire)
    /\ ~streamBad => Framed(Whole)

\* The last chunk is on its way only when nothing else remains to be sent.
NoLast(q) == \A i \in 1 .. Len(q) : q[i].t # "last"
LastOnly(q) ==
    \A i \in 1 .. Len(q) : q[i].t = "last" => \A j \in i + 1 .. Len(q) : q[j].t = "flush"
LastInv ==
    /\ streamBad => NoLast(wire)
    /\ ~streamBad => LastOnly(Whole)
    /\ ~streamBad => NoLast(Whole) \/ (call \in {"close", "closed"} /\ chunk = <<>>)

(* Moving the first item of one sequence to the end of the one before it.   *)
LEMMA HeadMoves ==
    ASSUME NEW S, NEW w \in Seq(S), NEW b \in Seq(S), NEW t \in Seq(S), t # <<>>
    PROVE  /\ Head(t) \in S /\ Tail(t) \in Seq(S) /\ Append(b, Head(t)) \in Seq(S)
           /\ (w \o Append(b, Head(t))) \o Tail(t) = (w \o b) \o t
           /\ (w \o b) \o t = ((w \o b) \o <<Head(t)>>) \o Tail(t)
<1>1. Head(t) \in S /\ Tail(t) \in Seq(S) /\ t = <<Head(t)>> \o Tail(t)
  OBVIOUS
<1> DEFINE x == Head(t)
           u == Tail(t)
           wb == w \o b
<1>2. wb \in Seq(S) /\ <<x>> \in Seq(S) /\ Append(b, x) \in Seq(S)
      /\ w \o Append(b, x) = Append(wb, x) /\ Append(wb, x) = wb \o <<x>>
  BY <1>1
<1> HIDE DEF x, u, wb
<1>3. (wb \o <<x>>) \o u = wb \o (<<x>> \o u)
  <2>1. wb \in Seq(S) /\ <<x>> \in Seq(S) /\ u \in Seq(S)
    BY <1>1, <1>2 DEF u
  <2> QED BY ONLY <2>1, ConcatAssociative
<1>4. wb \o t = (wb \o <<x>>) \o u
  BY <1>1, <1>3 DEF x, u
<1>5. (w \o Append(b, x)) \o u = wb \o t
  BY <1>2, <1>4
<1> QED BY <1>1, <1>2, <1>4, <1>5 DEF x, u, wb

(* mStream << item: the item is taken from what the call has to insert.     *)
LEMMA PutMoves ==
    ASSUME NEW S, Over(S), Put
    PROVE  Over(S)' /\ Whole' = Whole
<1>1. todo # <<>> /\ todo \in Seq(S) /\ outbuf \in Seq(S) /\ wire \in Seq(S)
  BY DEF Put, Over
<1>2. outbuf' = Append(outbuf, Head(todo)) /\ todo' = Tail(todo)
      /\ wire' = wire /\ payload' = payload /\ chunk' = chunk
  BY DEF Put, chunkVars
<1>3. outbuf' \in Seq(S) /\ todo' \in Seq(S)
  BY <1>1, <1>2, HeadMoves
<1>4. Over(S)'
  BY <1>2, <1>3 DEF Over
<1>5. (wire \o Append(outbuf, Head(todo))) \o Tail(todo) = (wire \o outbuf) \o todo
  BY ONLY <1>1, HeadMoves
<1> QED BY <1>2, <1>4, <1>5 DEF Whole, Sent

(* mStream << std::flush: nothing but the flush is taken.                   *)
LEMMA PutFlushMoves ==
    ASSUME NEW S, Over(S), PutFlush
    PROVE  /\ Over(S)' /\ Sent' = Sent
           /\ Head(todo) \in S /\ Head(todo).t = "flush"
           /\ Whole = (Sent \o <<Head(todo)>>) \o todo'
<1>1. todo # <<>> /\ todo \in Seq(S) /\ outbuf \in Seq(S) /\ wire \in Seq(S)
  BY DEF PutFlush, Over
<1>2. outbuf' = outbuf /\ todo' = Tail(todo) /\ Head(todo).t = "flush"
      /\ wire' = wire /\ payload' = payload /\ chunk' = chunk
  BY DEF PutFlush, chunkVars
<1>3. Head(todo) \in S /\ todo' \in Seq(S)
  BY <1>1, <1>2, HeadMoves
<1>4. Over(S)'
  BY <1>2, <1>3 DEF Over
<1>5. (wire \o outbuf) \o todo = ((wire \o outbuf) \o <<Head(todo)>>) \o Tail(todo)
  BY <1>1, HeadMoves
<1> QED BY <1>2, <1>3, <1>4, <1>5 DEF Whole, Sent

(* write(): the socket takes a part of the buffer.                          *)
LEMMA WriteMoves ==
    ASSUME NEW S, Over(S), NEW k \in 1 .. Len(outbuf), Write(k)
    PROVE  Over(S)' /\ Sent' = Sent /\ Whole' = Whole
<1>1. outbuf \in Seq(S) /\ wire \in Seq(S)
  BY DEF Over
<1> DEFINE a == SubSeq(outbuf, 1, k)
           b == SubSeq(outbuf, k + 1, Len(outbuf))
<1>2. wire' = wire \o a /\ outbuf' = b
      /\ todo' = todo /\ payload' = payload /\ chunk' = chunk
  BY DEF Write, chunkVars
<1>3. a \in Seq(S) /\ b \in Seq(S) /\ a \o b = outbuf
  BY <1>1
<1> HIDE DEF a, b
<1>4. (wire \o a) \o b = wire \o (a \o b)
  <2>1. wire \in Seq(S) /\ a \in Seq(S) /\ b \in Seq(S)
    BY <1>1, <1>3
  <2> QED BY ONLY <2>1, ConcatAssociative
<1>5. Sent' = Sent
  BY <1>2, <1>3, <1>4 DEF Sent
<1>6. wire \o a \in Seq(S)
  BY <1>1, <1>3
<1>7. Over(S)'
  BY <1>2, <1>3, <1>6 DEF Over
<1> QED BY <1>2, <1>5, <1>7 DEF Whole

(* What chunkbuf::sync inserts is made of the chunk and framing.            *)
LEMMA ChunkType ==
    ASSUME NEW S, Over(S)
    PROVE  Chunk \in Seq(S) /\ Mark("last") \in S /\ Mark("flush") \in S
<1>1. chunk \in Seq(S) /\ Len(chunk) \in Nat
  BY DEF Over
<1>2. Size(Len(chunk)) \in S /\ Mark("crlf") \in S /\ Mark("flush") \in S /\ Mark("last") \in S
  <2> HIDE DEF Size, Mark
  <2> QED BY <1>1 DEF Over, Framing
<1>3. Chunk \in Seq(S)
  BY <1>1, <1>2 DEF Chunk
<1> QED BY <1>2, <1>3

(* chunkbuf::sync begins with nothing on its way, and the chunk follows.     *)
LEMMA SyncMoves ==
    ASSUME NEW S, Over(S), BuffersInv, NEW c, NEW more \in Seq(S), Sync(c, more)
    PROVE  /\ Over(S)' /\ Sent' = Sent /\ Whole = Sent /\ outbuf = <<>> /\ Sent = wire
           /\ Chunk \o more \in Seq(S) /\ Chunk \in Seq(S)
           /\ Whole' = wire \o (Chunk \o more)
<1>1. chunk \in Seq(S) /\ outbuf \in Seq(S) /\ wire \in Seq(S)
  BY DEF Over
<1>2. outbuf = <<>> /\ todo = <<>>
  BY DEF Sync, BuffersInv
<1>4. Chunk \in Seq(S)
  BY ChunkType
<1>5. Chunk \o more \in Seq(S)
  BY <1>4
<1>6. todo' = Chunk \o more /\ chunk' = <<>>
      /\ UNCHANGED <<payload, outbuf, wire>>
  BY DEF Sync
<1>7. Over(S)'
  BY <1>5, <1>6 DEF Over
<1>8. wire \o <<>> = wire
  BY <1>1
<1> QED BY <1>2, <1>4, <1>5, <1>6, <1>7, <1>8 DEF Whole, Sent

-----------------------------------------------------------------------------
(* The buffers.                                                             *)

\* The present call inserts items into the Chunkstream, which are no framing.
Inserting(items) ==
    /\ call = "none" /\ UNCHANGED <<call, fdVars>>
    /\ \E T : items \in Seq(T)
    /\ AllContent(items) /\ Insert(items)

\* Whatever happens to the stream.
StreamAction ==
    \/ \E items : Inserting(items)
    \/ Flush \/ Close \/ StreamNext
    \/ UNCHANGED streamVars

(* What is inserted ends with a flush as long as something of it remains.   *)
LEMMA FlushedTail ==
    ASSUME NEW S, NEW t \in Seq(S), t # <<>>, Flushed(t)
    PROVE  Flushed(Tail(t)) /\ (Head(t).t # "flush" => Tail(t) # <<>>)
<1> DEFINE u == Tail(t)
<1>1. /\ u \in Seq(S) /\ Len(u) = Len(t) - 1 /\ Head(t) = t[1] /\ Len(t) \in Nat \ {0}
      /\ \A i \in 1 .. Len(t) - 1 : u[i] = t[i + 1]
  OBVIOUS
<1> HIDE DEF u
<1>2. Flushed(u)
  <2>1. ASSUME u # <<>>
        PROVE  u[Len(u)].t = "flush"
    <3>1. Len(u) # 0
      BY <1>1, <2>1
    <3>2. Len(u) \in 1 .. Len(t) - 1 /\ Len(u) + 1 = Len(t)
      BY <1>1, <3>1
    <3>3. u[Len(u)] = t[Len(t)]
      BY <1>1, <3>2
    <3> QED BY <3>3 DEF Flushed
  <2>2. ASSUME NEW i \in 1 .. Len(u) - 1, u[i].t = "flush"
        PROVE  u[i + 1].t = "last"
    <3>1. i \in 1 .. Len(t) - 1 /\ i + 1 \in 1 .. Len(t) - 1
      BY <1>1
    <3>2. u[i] = t[i + 1] /\ u[i + 1] = t[(i + 1) + 1]
      BY <1>1, <3>1
    <3> QED BY <2>2, <3>1, <3>2 DEF Flushed
  <2> QED BY <2>1, <2>2 DEF Flushed
<1>3. Head(t).t # "flush" => u # <<>>
  <2>1. u = <<>> => Len(u) = 0
    OBVIOUS
  <2> QED BY <1>1, <2>1 DEF Flushed
<1> QED BY <1>2, <1>3 DEF u

(* An item more that is not a flush.                                        *)
LEMMA NoFlushAppend ==
    ASSUME NEW S, NEW b \in Seq(S), NEW x \in S, NoFlush(b), x.t # "flush"
    PROVE  NoFlush(Append(b, x)) /\ Len(Append(b, x)) = Len(b) + 1 /\ Append(b, x) # <<>>
<1> DEFINE c == Append(b, x)
<1>1. /\ Len(c) = Len(b) + 1 /\ c[Len(b) + 1] = x /\ Len(b) \in Nat
      /\ \A i \in 1 .. Len(b) : c[i] = b[i]
  OBVIOUS
<1> HIDE DEF c
<1>2. c # <<>>
  <2>1. c = <<>> => Len(c) = 0
    OBVIOUS
  <2> QED BY <1>1, <2>1
<1>3. NoFlush(c)
  BY <1>1 DEF NoFlush
<1> QED BY <1>1, <1>2, <1>3 DEF c

(* Two sequences without a flush.                                           *)
LEMMA NoFlushConcat ==
    ASSUME NEW S, NEW w \in Seq(S), NEW b \in Seq(S), NoFlush(w), NoFlush(b)
    PROVE  NoFlush(w \o b)
BY DEF NoFlush

(* Two sequences of content.                                                *)
LEMMA AllContentConcat ==
    ASSUME NEW S, NEW w \in Seq(S), NEW b \in Seq(S), AllContent(w), AllContent(b)
    PROVE  AllContent(w \o b)
BY DEF AllContent

(* The two parts of a buffer.                                               *)
LEMMA NoFlushParts ==
    ASSUME NEW S, NEW b \in Seq(S), NEW k \in 1 .. Len(b), NoFlush(b)
    PROVE  /\ NoFlush(SubSeq(b, 1, k)) /\ NoFlush(SubSeq(b, k + 1, Len(b)))
           /\ SubSeq(b, 1, k) \in Seq(S)
           /\ Len(SubSeq(b, k + 1, Len(b))) = Len(b) - k
           /\ SubSeq(b, k + 1, Len(b)) # <<>> <=> k < Len(b)
<1> DEFINE u == SubSeq(b, 1, k)
           v == SubSeq(b, k + 1, Len(b))
<1>1. u \in Seq(S) /\ Len(u) = k /\ \A i \in 1 .. k : u[i] = b[i]
  OBVIOUS
<1>2. v \in Seq(S) /\ Len(v) = Len(b) - k /\ \A i \in 1 .. Len(b) - k : v[i] = b[k + i]
  <2>1. v \in Seq(S) /\ Len(v) = Len(b) - k
    OBVIOUS
  <2> QED BY <2>1, SubSeqProperties
<1> HIDE DEF u, v
<1>3. NoFlush(u)
  BY <1>1 DEF NoFlush
<1>4. NoFlush(v)
  BY <1>2 DEF NoFlush
<1>5. v # <<>> <=> k < Len(b)
  BY <1>2
<1> QED BY <1>1, <1>2, <1>3, <1>4, <1>5 DEF u, v

(* What chunkbuf::sync inserts.                                             *)
LEMMA ChunkElements ==
    ASSUME NEW S, chunk \in Seq(S), chunk # <<>>
    PROVE  /\ Len(Chunk) = Len(chunk) + 3 /\ Len(chunk) \in Nat \ {0}
           /\ Chunk[1] = Size(Len(chunk))
           /\ \A i \in 2 .. Len(chunk) + 1 : Chunk[i] = chunk[i - 1]
           /\ Chunk[Len(chunk) + 2] = Mark("crlf")
           /\ Chunk[Len(chunk) + 3] = Mark("flush")
BY DEF Chunk

(* It ends with a flush, and the last chunk may follow.                     *)
LEMMA ChunkFlushed ==
    ASSUME NEW S, Over(S), AllContent(chunk)
    PROVE  /\ Flushed(Chunk) /\ Flushed(Chunk \o <<Mark("last"), Mark("flush")>>)
           /\ \A i \in 1 .. Len(Chunk) : Chunk[i].t # "last"
<1>1. chunk \in Seq(S)
  BY DEF Over
<1> DEFINE both == Chunk \o <<Mark("last"), Mark("flush")>>
<1>2. CASE chunk = <<>>
  <2>1. Chunk = <<>> /\ both = <<Mark("last"), Mark("flush")>>
    BY <1>2 DEF Chunk
  <2>2. Len(both) = 2 /\ both[1].t = "last" /\ both[2].t = "flush" /\ Len(Chunk) = 0
    BY <2>1 DEF Mark, Item
  <2> HIDE DEF both
  <2> QED BY <2>1, <2>2 DEF Flushed, both
<1>3. CASE chunk # <<>>
  <2> DEFINE n == Len(chunk)
  <2>1. /\ Len(Chunk) = n + 3 /\ n \in Nat /\ Chunk[1] = Size(n)
        /\ \A i \in 2 .. n + 1 : Chunk[i] = chunk[i - 1]
        /\ Chunk[n + 2] = Mark("crlf") /\ Chunk[n + 3] = Mark("flush")
    BY <1>1, <1>3, ChunkElements
  <2>2. \A i \in 1 .. n : chunk[i].t # "flush" /\ chunk[i].t # "last"
    BY DEF AllContent, IsContent, Framing
  <2> HIDE DEF n
  <2>3. /\ Chunk[1].t = "size" /\ Chunk[n + 2].t = "crlf" /\ Chunk[n + 3].t = "flush"
        /\ Mark("last").t = "last" /\ Mark("flush").t = "flush"
    BY <2>1 DEF Mark, Size, Item
  <2>4. ASSUME NEW i \in 1 .. n + 2
        PROVE  Chunk[i].t # "flush" /\ Chunk[i].t # "last"
    <3>1. CASE i = 1
      BY <2>3, <3>1
    <3>2. CASE i \in 2 .. n + 1
      <4>1. i - 1 \in 1 .. n
        BY <2>1, <3>2
      <4>2. Chunk[i] = chunk[i - 1]
        BY <2>1, <3>2
      <4> QED BY <2>2, <4>1, <4>2
    <3>3. CASE i = n + 2
      BY <2>3, <3>3
    <3> QED BY <2>1, <3>1, <3>2, <3>3
  <2>5. Flushed(Chunk)
    BY <2>1, <2>3, <2>4 DEF Flushed
  <2>6. Chunk \in Seq(S) /\ Mark("last") \in S /\ Mark("flush") \in S
    BY ChunkType
  <2>7. /\ Len(both) = n + 5 /\ \A i \in 1 .. n + 3 : both[i] = Chunk[i]
        /\ both[n + 4] = Mark("last") /\ both[n + 5] = Mark("flush")
    <3> HIDE DEF Chunk, Mark
    <3> QED BY <2>1, <2>6
  <2>8. ASSUME NEW i \in 1 .. n + 4, both[i].t = "flush"
        PROVE  both[i + 1].t = "last"
    <3> HIDE DEF both
    <3>1. CASE i \in 1 .. n + 2
      BY <2>1, <2>4, <2>7, <2>8, <3>1
    <3>2. CASE i = n + 3
      BY <2>1, <2>3, <2>7, <3>2
    <3>3. CASE i = n + 4
      BY <2>1, <2>3, <2>7, <2>8, <3>3
    <3> QED BY <2>1, <3>1, <3>2, <3>3
  <2>9. Flushed(both)
    <3> HIDE DEF both
    <3> QED BY <2>1, <2>3, <2>7, <2>8 DEF Flushed
  <2>10. \A i \in 1 .. Len(Chunk) : Chunk[i].t # "last"
    <3>1. ASSUME NEW i \in 1 .. Len(Chunk)
          PROVE  Chunk[i].t # "last"
      <4>1. i \in 1 .. n + 2 \/ i = n + 3
        BY <2>1
      <4> QED BY <2>3, <2>4, <4>1
    <3> QED BY <3>1
  <2> QED BY <2>5, <2>9, <2>10
<1> QED BY <1>2, <1>3

(* Inserting goes on with sequences.                                        *)
LEMMA InsertMoves ==
    ASSUME NEW S, Over(S), NEW items, Inserting(items)
    PROVE  /\ \E T : Over(T)' /\ items \in Seq(T) /\ Over(T)
           /\ Sent' = Sent /\ Whole' = Whole
<1>1. PICK T : items \in Seq(T)
  BY DEF Inserting
<1> DEFINE U == S \cup T
<1>2. \A s : (s \in Seq(S) => s \in Seq(U)) /\ (s \in Seq(T) => s \in Seq(U))
  BY SeqMonotonic
<1>3. S \subseteq U
  OBVIOUS
<1> HIDE DEF U
<1>4. payload \in Seq(U) /\ chunk \in Seq(U) /\ todo \in Seq(U) /\ outbuf \in Seq(U)
      /\ wire \in Seq(U) /\ items \in Seq(U)
  BY <1>1, <1>2 DEF Over
<1>5. Over(U)
  BY <1>3, <1>4 DEF Over
<1>6. payload' \in Seq(U) /\ chunk' \in Seq(U)
  BY <1>4 DEF Inserting, Insert
<1>7. UNCHANGED <<todo, outbuf, wire>>
  BY DEF Inserting, fdVars
<1>8. Over(U)'
  BY <1>5, <1>6, <1>7 DEF Over
<1> QED BY <1>4, <1>5, <1>7, <1>8 DEF Sent, Whole

(* Every step keeps the buffers in order.                                   *)
LEMMA BuffersInductive ==
    ASSUME NEW S, Over(S), BuffersInv, StreamAction
    PROVE  BuffersInv'
<1> HIDE DEF AllContent, NoFlush, Flushed, IsContent
<1>1. ASSUME NEW items, Inserting(items)
      PROVE  BuffersInv'
  <2>1. PICK T : items \in Seq(T) /\ chunk \in Seq(T)
    BY <1>1, InsertMoves DEF Over
  <2>2. AllContent(chunk \o items)
    <3>1. AllContent(chunk) /\ AllContent(items)
      BY <1>1 DEF BuffersInv, Inserting
    <3> QED BY <2>1, <3>1, AllContentConcat
  <2>3. UNCHANGED <<call, todo, outbuf, syncing, streamBad, wire, mTotalWritten, chunkBad>>
    BY <1>1 DEF Inserting, Insert, fdVars
  <2>4. chunk' = chunk \/ chunk' = chunk \o items
    BY <1>1 DEF Inserting, Insert
  <2>5. AllContent(chunk')
    BY <2>2, <2>4 DEF BuffersInv
  <2> QED BY <2>3, <2>5 DEF BuffersInv
<1>2. ASSUME NEW c \in {"flush", "close"}, NEW more, Sync(c, more), Flushed(Chunk \o more)
      PROVE  BuffersInv'
  <2>1. /\ todo' = Chunk \o more /\ chunk' = <<>> /\ call' = c /\ call = "none"
        /\ UNCHANGED <<chunkBad, outbuf, syncing, streamBad, wire>>
        /\ mTotalWritten' = mTotalWritten + Len(chunk)
    BY <1>2 DEF Sync
  <2>2. mTotalWritten' \in Nat
    <3>1. Len(chunk) \in Nat
      BY DEF Over
    <3> QED BY <2>1, <3>1 DEF BuffersInv
  <2>3. AllContent(<<>>)
    BY DEF AllContent
  <2>4. outbuf = <<>> /\ ~syncing
    BY <2>1 DEF BuffersInv
  <2>5. Flushed(todo') /\ AllContent(chunk')
    BY <1>2, <2>1, <2>3
  <2>6. call' \in Calls /\ call' \notin {"none", "closed"}
    BY <2>1 DEF Calls
  <2> QED BY <2>1, <2>2, <2>4, <2>5, <2>6 DEF BuffersInv
<1>3. ASSUME Put
      PROVE  BuffersInv'
  <2>1. /\ ~syncing /\ ~streamBad /\ todo # <<>> /\ Head(todo).t # "flush"
        /\ outbuf' = Append(outbuf, Head(todo)) /\ todo' = Tail(todo)
        /\ syncing' = (Len(outbuf) = OutbufSize - 1)
        /\ UNCHANGED <<payload, chunk, mTotalWritten, chunkBad, call, streamBad, wire>>
    BY <1>3 DEF Put, chunkVars
  <2>2. todo \in Seq(S) /\ outbuf \in Seq(S) /\ Head(todo) \in S /\ Len(outbuf) \in Nat
    BY <2>1 DEF Over
  <2>3. Flushed(todo') /\ todo' # <<>>
    BY <2>1, <2>2, FlushedTail DEF BuffersInv
  <2>4. NoFlush(outbuf') /\ Len(outbuf') = Len(outbuf) + 1 /\ outbuf' # <<>>
    BY <2>1, <2>2, NoFlushAppend DEF BuffersInv
  <2>5. Len(outbuf') <= OutbufSize /\ (~syncing' => Len(outbuf') < OutbufSize)
    <3>1. Len(outbuf) < OutbufSize
      BY <2>1 DEF BuffersInv
    <3>2. syncing' <=> Len(outbuf) = OutbufSize - 1
      BY <2>1, Zenon
    <3> QED BY <2>2, <2>4, <3>1, <3>2
  <2>6. call \notin {"none", "closed"} /\ syncing' \in BOOLEAN
    BY <2>1 DEF BuffersInv
  <2> QED BY <2>1, <2>3, <2>4, <2>5, <2>6 DEF BuffersInv
<1>4. ASSUME PutFlush
      PROVE  BuffersInv'
  <2>1. /\ ~syncing /\ ~streamBad /\ todo # <<>>
        /\ todo' = Tail(todo) /\ syncing' = (outbuf # <<>>)
        /\ UNCHANGED <<payload, chunk, mTotalWritten, chunkBad, call, outbuf, streamBad, wire>>
    BY <1>4 DEF PutFlush, chunkVars
  <2>2. Flushed(todo')
    <3>1. todo \in Seq(S)
      BY DEF Over
    <3> QED BY <2>1, <3>1, FlushedTail DEF BuffersInv
  <2>3. call \notin {"none", "closed"} /\ syncing' \in BOOLEAN
    BY <2>1 DEF BuffersInv
  <2> QED BY <2>1, <2>2, <2>3 DEF BuffersInv
<1>5. ASSUME NEW k \in 1 .. Len(outbuf), Write(k)
      PROVE  BuffersInv'
  <2>1. /\ syncing /\ wire' = wire \o SubSeq(outbuf, 1, k)
        /\ outbuf' = SubSeq(outbuf, k + 1, Len(outbuf)) /\ syncing' = (k < Len(outbuf))
        /\ UNCHANGED <<payload, chunk, mTotalWritten, chunkBad, call, todo, streamBad>>
    BY <1>5 DEF Write, chunkVars
  <2>2. outbuf \in Seq(S) /\ wire \in Seq(S) /\ Len(outbuf) \in Nat
    BY DEF Over
  <2>3. /\ NoFlush(SubSeq(outbuf, 1, k)) /\ NoFlush(outbuf') /\ SubSeq(outbuf, 1, k) \in Seq(S)
        /\ Len(outbuf') = Len(outbuf) - k /\ (outbuf' # <<>> <=> k < Len(outbuf))
    BY <2>1, <2>2, NoFlushParts DEF BuffersInv
  <2>4. NoFlush(wire')
    BY <2>1, <2>2, <2>3, NoFlushConcat DEF BuffersInv
  <2>5. Len(outbuf') < OutbufSize
    BY <2>2, <2>3 DEF BuffersInv
  <2>6. call \notin {"none", "closed"} /\ ~streamBad
    BY <2>1 DEF BuffersInv
  <2>7. syncing' \in BOOLEAN /\ (syncing' <=> k < Len(outbuf))
    <3>1. syncing' = (k < Len(outbuf))
      BY <2>1
    <3>2. syncing' \in BOOLEAN
      BY ONLY <3>1
    <3>3. syncing' <=> k < Len(outbuf)
      BY ONLY <3>1, Zenon
    <3> QED BY <3>2, <3>3
  <2>8. syncing' <=> outbuf' # <<>>
    BY ONLY <2>3, <2>7
  <2> QED BY <2>1, <2>2, <2>3, <2>4, <2>5, <2>6, <2>7, <2>8 DEF BuffersInv
<1>6. ASSUME WriteFails
      PROVE  BuffersInv'
  <2>1. NoFlush(<<>>)
    BY DEF NoFlush
  <2>2. /\ outbuf' = <<>> /\ ~syncing' /\ streamBad' /\ syncing' \in BOOLEAN /\ streamBad' \in BOOLEAN
        /\ UNCHANGED <<payload, chunk, mTotalWritten, chunkBad, call, todo, wire>>
    BY <1>6 DEF WriteFails, chunkVars
  <2>3. Len(outbuf') = 0 /\ 0 < OutbufSize /\ 0 <= OutbufSize
    BY <2>2
  <2>4. call \notin {"none", "closed"}
    BY <1>6 DEF BuffersInv, WriteFails
  <2> QED BY <2>1, <2>2, <2>3, <2>4 DEF BuffersInv
<1>7. ASSUME Return
      PROVE  BuffersInv'
  <2>1. Flushed(<<>>)
    BY DEF Flushed
  <2>2. call' \in Calls
    BY <1>7 DEF Return, Calls
  <2>3. chunkBad' \in BOOLEAN /\ (chunkBad' => streamBad)
    BY <1>7 DEF BuffersInv, Return
  <2>4. outbuf = <<>>
    BY <1>7 DEF BuffersInv, Return
  <2> QED BY <1>7, <2>1, <2>2, <2>3, <2>4 DEF BuffersInv, Return
<1>8. CASE UNCHANGED streamVars
  BY <1>8 DEF streamVars, chunkVars, fdVars, BuffersInv
<1>9. ASSUME Flush
      PROVE  BuffersInv'
  <2>1. Chunk \in Seq(S) /\ Flushed(Chunk)
    BY ChunkType, ChunkFlushed DEF BuffersInv
  <2>2. Chunk \o <<>> = Chunk
    BY <2>1
  <2> QED BY <1>2, <1>9, <2>1, <2>2 DEF Flush
<1>10. ASSUME Close
       PROVE  BuffersInv'
  <2>1. Flushed(Chunk \o <<Mark("last"), Mark("flush")>>)
    BY ChunkFlushed DEF BuffersInv
  <2> QED BY <1>2, <1>10, <2>1 DEF Close
<1> QED BY <1>1, <1>3, <1>4, <1>5, <1>6, <1>7, <1>8, <1>9, <1>10 DEF StreamAction, StreamNext

-----------------------------------------------------------------------------
(* What is written and what arrives.                                        *)

(* A sequence is a beginning of whatever continues it.                      *)
LEMMA PrefixConcat ==
    ASSUME NEW S, NEW a \in Seq(S), NEW b \in Seq(S)
    PROVE  IsPrefix(a, a \o b)
<1> DEFINE c == a \o b
<1>1. /\ c \in Seq(S) /\ Len(c) = Len(a) + Len(b) /\ Len(a) \in Nat /\ Len(b) \in Nat
      /\ \A i \in 1 .. Len(a) : c[i] = a[i]
  OBVIOUS
<1> HIDE DEF c
<1>2. SubSeq(a, 1, Len(a)) = SubSeq(c, 1, Len(a))
  BY <1>1
<1> QED BY <1>1, <1>2 DEF IsPrefix, c

(* And so it stays when that is continued.                                  *)
LEMMA PrefixExtends ==
    ASSUME NEW S, NEW a \in Seq(S), NEW p \in Seq(S), NEW q \in Seq(S), IsPrefix(a, p)
    PROVE  IsPrefix(a, p \o q)
<1> DEFINE c == p \o q
<1>1. /\ c \in Seq(S) /\ Len(c) = Len(p) + Len(q) /\ Len(p) \in Nat /\ Len(q) \in Nat
      /\ \A i \in 1 .. Len(p) : c[i] = p[i]
  OBVIOUS
<1> HIDE DEF c
<1>2. Len(a) \in Nat /\ Len(a) <= Len(p)
  BY DEF IsPrefix
<1>3. SubSeq(p, 1, Len(a)) = SubSeq(c, 1, Len(a))
  BY <1>1, <1>2
<1>4. SubSeq(a, 1, Len(a)) = SubSeq(p, 1, Len(a))
  BY DEF IsPrefix
<1>5. SubSeq(a, 1, Len(a)) = SubSeq(c, 1, Len(a)) /\ Len(a) <= Len(c)
  BY <1>1, <1>2, <1>3, <1>4
<1> QED BY <1>5 DEF IsPrefix, c

(* What the client has is a beginning of what is on its way.                *)
LEMMA ReceivedIsPrefix ==
    ASSUME NEW S, NEW w \in Seq(S), NEW b \in Seq(S), NEW t \in Seq(S), NEW c \in Seq(S)
    PROVE  IsPrefix(Content(w), Content((w \o b) \o t) \o c)
<1> DEFINE u == b \o t
<1>1. u \in Seq(S)
  OBVIOUS
<1>2. (w \o b) \o t = w \o u
  BY ONLY w \in Seq(S), b \in Seq(S), t \in Seq(S), ConcatAssociative
<1> HIDE DEF u
<1>3. Content(w \o u) = Content(w) \o Content(u)
  BY <1>1, ContentConcat
<1> DEFINE x == Content(w)
           y == Content(u)
<1>4. x \in Seq(S) /\ y \in Seq(S)
  BY <1>1, ContentType
<1> HIDE DEF x, y
<1>5. (x \o y) \o c = x \o (y \o c) /\ y \o c \in Seq(S)
  BY <1>4
<1>6. IsPrefix(x, x \o (y \o c))
  BY <1>4, <1>5, PrefixConcat
<1> QED BY <1>2, <1>3, <1>5, <1>6 DEF x, y

(* The content of one item.                                                 *)
LEMMA ContentSingle ==
    ASSUME NEW x, ~IsContent(x)
    PROVE  Content(<<x>>) = <<>>
<1>1. <<>> \in Seq({x}) /\ Append(<<>>, x) = <<x>>
  OBVIOUS
<1>2. Content(Append(<<>>, x)) = Content(<<>>)
  BY <1>1, ContentAppend
<1> QED BY <1>1, <1>2, ContentEmpty

(* Framing is not content.                                                  *)
LEMMA FramingIsNone ==
    /\ \A n : ~IsContent(Size(n))
    /\ \A t \in Framing : ~IsContent(Mark(t))
BY DEF IsContent, Size, Mark, Item, Framing

(* The content of two framing items.                                        *)
LEMMA ContentOfTwo ==
    ASSUME NEW x, NEW y, ~IsContent(x), ~IsContent(y)
    PROVE  Content(<<x, y>>) = <<>>
<1> DEFINE a == Append(<<x>>, y)
           b == <<x, y>>
           T == {x, y}
<1>1. <<x>> \in Seq(T) /\ y \in T /\ a = b
  <2>1. x \in T /\ y \in T
    OBVIOUS
  <2> HIDE DEF T
  <2>2. <<x>> \in Seq(T) /\ a \in Seq(T) /\ Len(a) = 2 /\ a[1] = x /\ a[2] = y
    BY <2>1
  <2>3. b \in Seq(T) /\ Len(b) = 2 /\ b[1] = x /\ b[2] = y
    BY <2>1
  <2> HIDE DEF a, b
  <2>4. \A i \in 1 .. Len(a) : a[i] = b[i]
    BY <2>2, <2>3
  <2>5. a = b
    BY <2>2, <2>3, <2>4, SeqEqual
  <2> QED BY <2>1, <2>2, <2>5
<1>2. Content(a) = Content(<<x>>)
  <2> HIDE DEF T
  <2> QED BY <1>1, ContentAppend
<1> QED BY <1>1, <1>2, ContentSingle

(* What chunkbuf::sync inserts has the content of the chunk.                *)
LEMMA ChunkContent ==
    ASSUME NEW S, Over(S), AllContent(chunk)
    PROVE  Content(Chunk) = chunk
<1>1. chunk \in Seq(S) /\ Len(chunk) \in Nat
  BY DEF Over
<1>2. CASE chunk = <<>>
  BY <1>2, ContentEmpty DEF Chunk
<1>3. CASE chunk # <<>>
  <2> DEFINE z == Size(Len(chunk))
             x == Mark("crlf")
             y == Mark("flush")
  <2>1. z \in S /\ x \in S /\ y \in S
    <3> HIDE DEF Size, Mark
    <3> QED BY <1>1 DEF Over, Framing
  <2>2. Chunk = (<<z>> \o chunk) \o <<x, y>>
    BY <1>3 DEF Chunk
  <2>3. Content(<<z>>) = <<>> /\ Content(<<x, y>>) = <<>>
    BY FramingIsNone, ContentSingle, ContentOfTwo DEF Framing
  <2>4. Content(chunk) = chunk
    BY <1>1, ContentWhole DEF AllContent
  <2> HIDE DEF x, y, z
  <2>5. <<z>> \in Seq(S) /\ <<x, y>> \in Seq(S) /\ <<z>> \o chunk \in Seq(S)
    BY <1>1, <2>1
  <2>6. Content(<<z>> \o chunk) = <<>> \o chunk
    BY <1>1, <2>3, <2>4, <2>5, ContentConcat
  <2>7. Content((<<z>> \o chunk) \o <<x, y>>) = Content(<<z>> \o chunk) \o <<>>
    BY <2>3, <2>5, ContentConcat
  <2>8. <<>> \o chunk = chunk /\ chunk \o <<>> = chunk
    BY <1>1
  <2> QED BY <2>2, <2>6, <2>7, <2>8
<1> QED BY <1>2, <1>3

(* Every step keeps account of what was written.                            *)
LEMMA DeliveredInductive ==
    ASSUME NEW S, Over(S), BuffersInv, DeliveredInv, StreamAction
    PROVE  DeliveredInv'
<1> HIDE DEF AllContent, NoFlush, Flushed, IsContent
<1>1. /\ payload \in Seq(S) /\ chunk \in Seq(S) /\ todo \in Seq(S) /\ outbuf \in Seq(S)
      /\ wire \in Seq(S) /\ Content(wire) \in Seq(S) /\ Whole \in Seq(S)
      /\ Content(Whole) \in Seq(S)
  <2>1. /\ payload \in Seq(S) /\ chunk \in Seq(S) /\ todo \in Seq(S) /\ outbuf \in Seq(S)
        /\ wire \in Seq(S)
    BY DEF Over
  <2>2. (wire \o outbuf) \o todo \in Seq(S)
    BY <2>1
  <2>3. Whole \in Seq(S)
    BY <2>2 DEF Whole, Sent
  <2> QED BY <2>1, <2>3, ContentType
\* From the account to what the client has.
<1>2. ASSUME NEW T, Over(T)', payload' = Content(Whole') \o chunk'
      PROVE  DeliveredInv'
  <2>1. wire' \in Seq(T) /\ outbuf' \in Seq(T) /\ todo' \in Seq(T) /\ chunk' \in Seq(T)
    BY <1>2 DEF Over
  <2>2. IsPrefix(Content(wire'), Content((wire' \o outbuf') \o todo') \o chunk')
    BY ONLY <2>1, ReceivedIsPrefix
  <2>3. Content(wire') = Content(wire)'
    BY DEF Content, Pick, IsContent
  <2>4. Content(Whole') = Content(Whole)'
    BY DEF Content, Pick, IsContent
  <2> QED BY <1>2, <2>2, <2>3, <2>4 DEF DeliveredInv, Whole, Sent
\* Once mStream has failed nothing more arrives.
<1>3. ASSUME NEW T, payload \in Seq(T), Content(wire) \in Seq(T), NEW q \in Seq(T),
             wire' = wire, streamBad', payload' = payload \/ payload' = payload \o q
      PROVE  DeliveredInv'
  <2>1. IsPrefix(Content(wire), payload)
    BY DEF DeliveredInv
  <2>2. IsPrefix(Content(wire), payload')
    BY <1>3, <2>1, PrefixExtends
  <2>3. IsPrefix(Content(wire), payload)'
    BY <1>3, <2>2
  <2> QED BY <1>3, <2>3 DEF DeliveredInv
<1>4. ~streamBad => payload = Content(Whole) \o chunk
  BY DEF DeliveredInv
<1>5. ASSUME NEW items, Inserting(items)
      PROVE  DeliveredInv'
  <2>1. PICK T : Over(T)' /\ items \in Seq(T) /\ Over(T)
    BY <1>5, InsertMoves
  <2>2. Whole' = Whole /\ wire' = wire /\ streamBad' = streamBad
    BY <1>5, InsertMoves DEF Inserting, fdVars
  <2>3. /\ payload \in Seq(T) /\ chunk \in Seq(T) /\ wire \in Seq(T) /\ outbuf \in Seq(T)
        /\ todo \in Seq(T)
    BY <2>1 DEF Over
  <2>4. (wire \o outbuf) \o todo \in Seq(T)
    BY <2>3
  <2>5. Content(wire) \in Seq(T) /\ Content(Whole) \in Seq(T)
    BY <2>3, <2>4, ContentType DEF Whole, Sent
  <2>6. CASE streamBad
    <3>1. payload' = payload \/ payload' = payload \o items
      BY <1>5 DEF Inserting, Insert
    <3> QED BY <1>3, <2>1, <2>2, <2>3, <2>5, <2>6, <3>1
  <2>7. CASE ~streamBad
    <3>1. payload' = payload \o items /\ chunk' = chunk \o items
      BY <1>5, <2>7 DEF Inserting, Insert, BuffersInv
    <3>2. (Content(Whole) \o chunk) \o items = Content(Whole) \o (chunk \o items)
      <4>1. Content(Whole) \in Seq(T) /\ chunk \in Seq(T) /\ items \in Seq(T)
        BY <2>1, <2>3, <2>5
      <4> QED BY ONLY <4>1, ConcatAssociative
    <3>3. payload' = Content(Whole') \o chunk'
      BY <1>4, <2>2, <2>7, <3>1, <3>2
    <3> QED BY <1>2, <2>1, <3>3
  <2> QED BY <2>6, <2>7
<1>6. ASSUME NEW c, NEW more \in Seq(S), Sync(c, more), Content(more) = <<>>
      PROVE  DeliveredInv'
  <2>1. /\ Over(S)' /\ Whole = wire /\ Chunk \in Seq(S) /\ Chunk \o more \in Seq(S)
        /\ Whole' = wire \o (Chunk \o more)
    BY <1>6, SyncMoves
  <2>2. chunk' = <<>> /\ UNCHANGED <<payload, wire, streamBad>>
    BY <1>6 DEF Sync
  <2>3. CASE streamBad
    BY <1>1, <1>3, <2>2, <2>3
  <2>4. CASE ~streamBad
    <3>1. Content(Chunk) = chunk
      BY ChunkContent DEF BuffersInv
    <3>2. Content(wire \o (Chunk \o more)) = Content(wire) \o Content(Chunk \o more)
      BY <1>1, <2>1, ContentConcat
    <3>3. Content(Chunk \o more) = Content(Chunk) \o Content(more)
      BY <1>6, <2>1, ContentConcat
    <3>4. chunk \o <<>> = chunk
      BY <1>1
    <3>5. Content(Whole') = Content(wire) \o chunk
      BY <1>6, <2>1, <3>1, <3>2, <3>3, <3>4
    <3>6. (Content(wire) \o chunk) \o <<>> = Content(wire) \o chunk
      <4>1. Content(wire) \o chunk \in Seq(S)
        BY <1>1
      <4> QED BY ONLY <4>1, ConcatEmptySeq
    <3>7. payload' = Content(Whole') \o chunk'
      BY <1>4, <2>1, <2>2, <2>4, <3>5, <3>6
    <3> QED BY <1>2, <2>1, <3>7
  <2> QED BY <2>3, <2>4
<1>7. ASSUME Over(S)', Whole' = Whole \/ Content(Whole') = Content(Whole), ~streamBad,
             UNCHANGED <<payload, chunk>>
      PROVE  DeliveredInv'
  <2>1. Content(Whole') = Content(Whole)
    BY <1>7
  <2>2. payload' = Content(Whole') \o chunk'
    BY <1>4, <1>7, <2>1
  <2> QED BY <1>2, <1>7, <2>2
<1>8. ASSUME Put
      PROVE  DeliveredInv'
  <2>1. Over(S)' /\ Whole' = Whole
    BY <1>8, PutMoves
  <2>2. ~streamBad /\ UNCHANGED <<payload, chunk>>
    BY <1>8 DEF Put, chunkVars
  <2> QED BY <1>7, <2>1, <2>2
<1>9. ASSUME PutFlush
      PROVE  DeliveredInv'
  <2>1. /\ Over(S)' /\ Sent' = Sent /\ Head(todo) \in S /\ Head(todo).t = "flush"
        /\ Whole = (Sent \o <<Head(todo)>>) \o todo'
    BY <1>9, PutFlushMoves
  <2>2. ~IsContent(Head(todo))
    BY <2>1 DEF IsContent, Framing
  <2>3. Sent \in Seq(S) /\ todo' \in Seq(S)
    BY <1>1, <2>1 DEF Sent, Over
  <2>4. Content((Sent \o <<Head(todo)>>) \o todo') = Content(Sent \o todo')
    BY ONLY <2>1, <2>2, <2>3, ContentWithout
  <2>5. Content(Whole') = Content(Whole)
    BY <2>1, <2>4 DEF Whole
  <2>6. ~streamBad /\ UNCHANGED <<payload, chunk>>
    BY <1>9 DEF PutFlush, chunkVars
  <2> QED BY <1>7, <2>1, <2>5, <2>6
<1>10. ASSUME NEW k \in 1 .. Len(outbuf), Write(k)
       PROVE  DeliveredInv'
  <2>1. Over(S)' /\ Whole' = Whole
    BY <1>10, WriteMoves
  <2>2. ~streamBad /\ UNCHANGED <<payload, chunk>>
    BY <1>10 DEF Write, chunkVars, BuffersInv
  <2> QED BY <1>7, <2>1, <2>2
<1>11. ASSUME WriteFails
       PROVE  DeliveredInv'
  <2>1. wire' = wire /\ streamBad' /\ payload' = payload
    BY <1>11 DEF WriteFails, chunkVars
  <2> QED BY <1>1, <1>3, <2>1
<1>12. ASSUME Return
       PROVE  DeliveredInv'
  <2>1. UNCHANGED <<payload, chunk, outbuf, streamBad, wire>> /\ todo' = <<>>
    BY <1>12 DEF Return
  <2>2. CASE streamBad
    BY <1>1, <1>3, <2>1, <2>2
  <2>3. CASE ~streamBad
    <3>1. todo' = todo
      BY <1>12, <2>1, <2>3 DEF Return
    <3>2. Whole' = Whole /\ Over(S)'
      BY <2>1, <3>1 DEF Whole, Sent, Over
    <3> QED BY <1>7, <2>1, <2>3, <3>2
  <2> QED BY <2>2, <2>3
<1>13. ASSUME UNCHANGED streamVars
       PROVE  DeliveredInv'
  <2>1. UNCHANGED <<payload, chunk, todo, outbuf, wire, streamBad>>
    BY <1>13 DEF streamVars, chunkVars, fdVars
  <2> QED BY <2>1 DEF DeliveredInv, Whole, Sent
<1>14. Flush => DeliveredInv'
  <2>1. <<>> \in Seq(S)
    OBVIOUS
  <2> QED BY <1>6, <2>1, ContentEmpty DEF Flush
<1>15. Close => DeliveredInv'
  <2>1. Mark("last") \in S /\ Mark("flush") \in S
    BY ChunkType
  <2>2. <<Mark("last"), Mark("flush")>> \in Seq(S)
    BY <2>1
  <2>3. Content(<<Mark("last"), Mark("flush")>>) = <<>>
    BY FramingIsNone, ContentOfTwo DEF Framing
  <2> QED BY <1>6, <2>2, <2>3 DEF Close
<1> QED BY <1>5, <1>8, <1>9, <1>10, <1>11, <1>12, <1>13, <1>14, <1>15 DEF StreamAction, StreamNext

-----------------------------------------------------------------------------
(* Chunks on the wire.                                                      *)

(* The elements of what has been put together of two, or of three.          *)
LEMMA ConcatElements ==
    ASSUME NEW S, NEW a \in Seq(S), NEW b \in Seq(S)
    PROVE  /\ a \o b \in Seq(S) /\ Len(a) \in Nat /\ Len(b) \in Nat
           /\ Len(a \o b) = Len(a) + Len(b)
           /\ \A i \in 1 .. Len(a) : (a \o b)[i] = a[i]
           /\ \A i \in 1 .. Len(b) : (a \o b)[Len(a) + i] = b[i]
OBVIOUS

(* Complete chunks after complete chunks.                                   *)
LEMMA FramedConcat ==
    ASSUME NEW S, NEW a \in Seq(S), NEW b \in Seq(S), Framed(a), Framed(b),
           Len(b) # 0 => b[1].t \in {"size", "last", "flush"}
    PROVE  Framed(a \o b)
<1> DEFINE q == a \o b
           n == Len(a)
<1>1. /\ n \in Nat /\ Len(b) \in Nat /\ Len(q) = n + Len(b)
      /\ \A i \in 1 .. n : q[i] = a[i]
      /\ \A i \in 1 .. Len(b) : q[n + i] = b[i]
  BY ConcatElements
<1> HIDE DEF q, n, IsContent
<1>2. ASSUME NEW i \in 1 .. Len(q), q[i].t = "size"
      PROVE  /\ q[i].a \in Nat /\ i + q[i].a + 1 <= Len(q)
             /\ \A j \in i + 1 .. i + q[i].a : IsContent(q[j])
             /\ q[i + q[i].a + 1].t = "crlf"
             /\ i + q[i].a + 2 <= Len(q) => q[i + q[i].a + 2].t \in {"size", "last", "flush"}
  <2>1. CASE i <= n
    <3>1. i \in 1 .. n /\ q[i] = a[i]
      BY <1>1, <2>1
    <3> DEFINE m == q[i].a
    <3>2. /\ m \in Nat /\ i + m + 1 <= n /\ a[i + m + 1].t = "crlf"
          /\ \A j \in i + 1 .. i + m : IsContent(a[j])
          /\ i + m + 2 <= n => a[i + m + 2].t \in {"size", "last", "flush"}
      BY <1>2, <3>1 DEF Framed, n
    <3> HIDE DEF m
    <3>3. ASSUME NEW j \in i + 1 .. i + m + 1
          PROVE  q[j] = a[j]
      <4>1. j \in 1 .. n
        BY <1>1, <3>1, <3>2
      <4> QED BY <1>1, <4>1
    <3>4. /\ \A j \in i + 1 .. i + m : IsContent(q[j])
          /\ q[i + m + 1].t = "crlf" /\ i + m + 1 <= Len(q)
      BY <1>1, <3>1, <3>2, <3>3
    <3>5. ASSUME i + m + 2 <= Len(q)
          PROVE  q[i + m + 2].t \in {"size", "last", "flush"}
      <4>1. CASE i + m + 2 <= n
        BY <1>1, <3>1, <3>2, <4>1
      <4>2. CASE i + m + 2 > n
        <5>1. i + m + 2 = n + 1 /\ Len(b) # 0 /\ 1 \in 1 .. Len(b)
          BY <1>1, <3>1, <3>2, <3>5, <4>2
        <5>2. q[i + m + 2] = b[1]
          BY <1>1, <5>1
        <5> QED BY <5>1, <5>2
      <4> QED BY <1>1, <3>1, <3>2, <4>1, <4>2
    <3> QED BY <3>2, <3>4, <3>5 DEF m
  <2>2. CASE i > n
    <3> DEFINE k == i - n
               m == q[i].a
    <3>1. k \in 1 .. Len(b) /\ i = n + k /\ q[i] = b[k]
      <4>1. k \in 1 .. Len(b) /\ i = n + k
        BY <1>1, <2>2
      <4> QED BY <1>1, <4>1
    <3>2. /\ m \in Nat /\ k + m + 1 <= Len(b) /\ b[k + m + 1].t = "crlf"
          /\ \A j \in k + 1 .. k + m : IsContent(b[j])
          /\ k + m + 2 <= Len(b) => b[k + m + 2].t \in {"size", "last", "flush"}
      BY <1>2, <3>1 DEF Framed
    <3> HIDE DEF k, m
    <3>3. \A j \in k + 1 .. Len(b) : q[n + j] = b[j]
      BY <1>1, <3>1
    <3>4. ASSUME NEW j \in i + 1 .. i + m
          PROVE  IsContent(q[j])
      <4>1. j - n \in k + 1 .. k + m /\ j - n \in k + 1 .. Len(b) /\ n + (j - n) = j
        BY <1>1, <3>1, <3>2
      <4>2. q[j] = b[j - n]
        BY <3>3, <4>1
      <4> QED BY <3>2, <4>1, <4>2
    <3>5. q[i + m + 1].t = "crlf" /\ i + m + 1 <= Len(q)
      <4>1. i + m + 1 = n + (k + m + 1) /\ k + m + 1 \in k + 1 .. Len(b) /\ i + m + 1 <= Len(q)
        BY <1>1, <3>1, <3>2
      <4> QED BY <3>2, <3>3, <4>1
    <3>6. ASSUME i + m + 2 <= Len(q)
          PROVE  q[i + m + 2].t \in {"size", "last", "flush"}
      <4>1. i + m + 2 = n + (k + m + 2) /\ k + m + 2 \in k + 1 .. Len(b) /\ k + m + 2 <= Len(b)
        BY <1>1, <3>1, <3>2, <3>6
      <4> QED BY <3>2, <3>3, <4>1
    <3> QED BY <3>2, <3>4, <3>5, <3>6 DEF m
  <2> QED BY <1>1, <2>1, <2>2
<1>3. Framed(q)
  BY <1>2 DEF Framed
<1> QED BY <1>3 DEF q

(* What a flush separates: on both sides of it chunks are complete.         *)
LEMMA FramedSplit ==
    ASSUME NEW S, NEW a \in Seq(S), NEW x \in S, NEW b \in Seq(S), x.t = "flush",
           Framed((a \o <<x>>) \o b)
    PROVE  Framed(a) /\ Framed(b)
<1> DEFINE q == (a \o <<x>>) \o b
           n == Len(a)
<1>1. /\ n \in Nat /\ Len(b) \in Nat /\ Len(q) = n + 1 + Len(b)
      /\ \A i \in 1 .. n : q[i] = a[i]
      /\ q[n + 1] = x
      /\ \A i \in 1 .. Len(b) : q[n + 1 + i] = b[i]
  <2> DEFINE c == a \o <<x>>
  <2>1. /\ c \in Seq(S) /\ n \in Nat /\ Len(c) = n + 1 /\ c[n + 1] = x
        /\ \A i \in 1 .. n : c[i] = a[i]
    OBVIOUS
  <2> HIDE DEF c
  <2>2. /\ Len(b) \in Nat /\ Len(c \o b) = Len(c) + Len(b)
        /\ \A i \in 1 .. Len(c) : (c \o b)[i] = c[i]
        /\ \A i \in 1 .. Len(b) : (c \o b)[Len(c) + i] = b[i]
    <3>1. c \in Seq(S) /\ b \in Seq(S)
      BY <2>1
    <3> QED BY ONLY <3>1, ConcatElements
  <2>3. q = c \o b
    BY DEF c
  <2> HIDE DEF q
  <2>4. \A i \in 1 .. n : q[i] = a[i]
    BY <2>1, <2>2, <2>3
  <2> QED BY <2>1, <2>2, <2>3, <2>4
<1>2. ~IsContent(x)
  BY DEF IsContent, Framing
<1>3. Framed(q)
  OBVIOUS
<1> HIDE DEF q, n, IsContent
<1>4. ASSUME NEW i \in 1 .. n, a[i].t = "size"
      PROVE  /\ a[i].a \in Nat /\ i + a[i].a + 1 <= n
             /\ \A j \in i + 1 .. i + a[i].a : IsContent(a[j])
             /\ a[i + a[i].a + 1].t = "crlf"
             /\ i + a[i].a + 2 <= n => a[i + a[i].a + 2].t \in {"size", "last", "flush"}
  <2> DEFINE m == a[i].a
  <2>1. i \in 1 .. Len(q) /\ q[i] = a[i]
    BY <1>1
  <2>2. /\ m \in Nat /\ i + m + 1 <= Len(q) /\ q[i + m + 1].t = "crlf"
        /\ \A j \in i + 1 .. i + m : IsContent(q[j])
        /\ i + m + 2 <= Len(q) => q[i + m + 2].t \in {"size", "last", "flush"}
    BY <1>3, <1>4, <2>1 DEF Framed
  <2> HIDE DEF m
  <2>3. ~(n + 1 \in i + 1 .. i + m) /\ n + 1 # i + m + 1
    BY <1>1, <1>2, <2>2
  <2>4. i + m + 1 <= n
    BY <1>1, <2>2, <2>3
  <2>5. ASSUME NEW j \in i + 1 .. i + m
        PROVE  IsContent(a[j])
    <3>1. j \in 1 .. n
      BY <1>1, <2>2, <2>4
    <3> QED BY <1>1, <2>2, <3>1
  <2>6. a[i + m + 1].t = "crlf"
    <3>1. i + m + 1 \in 1 .. n
      BY <1>1, <2>2, <2>4
    <3> QED BY <1>1, <2>2, <3>1
  <2>7. ASSUME i + m + 2 <= n
        PROVE  a[i + m + 2].t \in {"size", "last", "flush"}
    <3>1. i + m + 2 \in 1 .. n /\ i + m + 2 <= Len(q)
      BY <1>1, <2>2, <2>7
    <3> QED BY <1>1, <2>2, <3>1
  <2> QED BY <2>2, <2>4, <2>5, <2>6, <2>7 DEF m
<1>5. ASSUME NEW i \in 1 .. Len(b), b[i].t = "size"
      PROVE  /\ b[i].a \in Nat /\ i + b[i].a + 1 <= Len(b)
             /\ \A j \in i + 1 .. i + b[i].a : IsContent(b[j])
             /\ b[i + b[i].a + 1].t = "crlf"
             /\ i + b[i].a + 2 <= Len(b) => b[i + b[i].a + 2].t \in {"size", "last", "flush"}
  <2> DEFINE m == b[i].a
             k == n + 1 + i
  <2>1. k \in 1 .. Len(q) /\ q[k] = b[i]
    BY <1>1
  <2>2. /\ m \in Nat /\ k + m + 1 <= Len(q) /\ q[k + m + 1].t = "crlf"
        /\ \A j \in k + 1 .. k + m : IsContent(q[j])
        /\ k + m + 2 <= Len(q) => q[k + m + 2].t \in {"size", "last", "flush"}
    <3> HIDE DEF k
    <3> QED BY <1>3, <1>5, <2>1 DEF Framed
  <2>3. k = n + 1 + i /\ k \in Nat
    BY <1>1
  <2> HIDE DEF m, k
  <2>4. i + m + 1 <= Len(b)
    BY <1>1, <2>2, <2>3
  <2>5. ASSUME NEW j \in i + 1 .. i + m
        PROVE  IsContent(b[j])
    <3>1. j \in 1 .. Len(b) /\ n + 1 + j \in k + 1 .. k + m
      BY <1>1, <2>2, <2>3, <2>4
    <3> QED BY <1>1, <2>2, <3>1
  <2>6. b[i + m + 1].t = "crlf"
    <3>1. i + m + 1 \in 1 .. Len(b) /\ n + 1 + (i + m + 1) = k + m + 1
      BY <1>1, <2>2, <2>3, <2>4
    <3>2. q[n + 1 + (i + m + 1)] = b[i + m + 1]
      BY <1>1, <3>1
    <3> QED BY <2>2, <3>1, <3>2
  <2>7. ASSUME i + m + 2 <= Len(b)
        PROVE  b[i + m + 2].t \in {"size", "last", "flush"}
    <3>1. i + m + 2 \in 1 .. Len(b) /\ n + 1 + (i + m + 2) = k + m + 2 /\ k + m + 2 <= Len(q)
      BY <1>1, <2>2, <2>3, <2>7
    <3>2. q[n + 1 + (i + m + 2)] = b[i + m + 2]
      BY <1>1, <3>1
    <3> QED BY <2>2, <3>1, <3>2
  <2> QED BY <2>2, <2>4, <2>5, <2>6, <2>7 DEF m
<1> QED BY <1>4, <1>5 DEF Framed, n

(* As far as complete chunks have arrived, without a flush.                 *)
LEMMA FramedArrives ==
    ASSUME NEW S, NEW w \in Seq(S), NEW b \in Seq(S), NEW t \in Seq(S),
           NoFlush(w), Framed((w \o b) \o t)
    PROVE  FramedSoFar(w)
<1> DEFINE u == b \o t
           q == w \o u
           n == Len(w)
<1>1. u \in Seq(S)
  OBVIOUS
<1>2. (w \o b) \o t = q
  BY ONLY w \in Seq(S), b \in Seq(S), t \in Seq(S), ConcatAssociative
<1> HIDE DEF u
<1>3. n \in Nat /\ Len(u) \in Nat /\ Len(q) = n + Len(u) /\ \A i \in 1 .. n : q[i] = w[i]
  BY <1>1, ConcatElements
<1>4. Framed(q)
  BY <1>2
<1> HIDE DEF q, n, IsContent
<1>5. ASSUME NEW i \in 1 .. n, w[i].t = "size"
      PROVE  /\ w[i].a \in Nat
             /\ \A j \in i + 1 .. i + w[i].a : j <= n => IsContent(w[j])
             /\ i + w[i].a + 1 <= n => w[i + w[i].a + 1].t = "crlf"
             /\ i + w[i].a + 2 <= n => w[i + w[i].a + 2].t \in {"size", "last"}
  <2> DEFINE m == w[i].a
  <2>1. i \in 1 .. Len(q) /\ q[i] = w[i]
    BY <1>3
  <2>2. /\ m \in Nat /\ i + m + 1 <= Len(q) /\ q[i + m + 1].t = "crlf"
        /\ \A j \in i + 1 .. i + m : IsContent(q[j])
        /\ i + m + 2 <= Len(q) => q[i + m + 2].t \in {"size", "last", "flush"}
    BY <1>4, <1>5, <2>1 DEF Framed
  <2> HIDE DEF m
  <2>3. ASSUME NEW j \in i + 1 .. i + m, j <= n
        PROVE  IsContent(w[j])
    <3>1. j \in 1 .. n
      BY <1>3, <2>2, <2>3
    <3> QED BY <1>3, <2>2, <3>1
  <2>4. ASSUME i + m + 1 <= n
        PROVE  w[i + m + 1].t = "crlf"
    <3>1. i + m + 1 \in 1 .. n
      BY <1>3, <2>2, <2>4
    <3> QED BY <1>3, <2>2, <3>1
  <2>5. ASSUME i + m + 2 <= n
        PROVE  w[i + m + 2].t \in {"size", "last"}
    <3>1. i + m + 2 \in 1 .. n /\ i + m + 2 <= Len(q)
      BY <1>3, <2>2, <2>5
    <3>2. w[i + m + 2].t # "flush"
      BY <3>1 DEF NoFlush, n
    <3> QED BY <1>3, <2>2, <3>1, <3>2
  <2> QED BY <2>2, <2>3, <2>4, <2>5 DEF m
<1> QED BY <1>5 DEF FramedSoFar, n

(* chunkbuf::sync inserts one complete chunk, or nothing.                   *)
LEMMA ChunkFramed ==
    ASSUME NEW S, Over(S), AllContent(chunk)
    PROVE  Framed(Chunk) /\ (Len(Chunk) # 0 => Chunk[1].t = "size")
<1>1. chunk \in Seq(S)
  BY DEF Over
<1>2. CASE chunk = <<>>
  BY <1>2 DEF Chunk, Framed
<1>3. CASE chunk # <<>>
  <2> DEFINE n == Len(chunk)
             q == Chunk
  <2>1. /\ Len(q) = n + 3 /\ n \in Nat /\ q[1] = Size(n)
        /\ \A i \in 2 .. n + 1 : q[i] = chunk[i - 1]
        /\ q[n + 2] = Mark("crlf") /\ q[n + 3] = Mark("flush")
    BY <1>1, <1>3, ChunkElements
  <2>2. \A i \in 1 .. n : IsContent(chunk[i]) /\ chunk[i].t # "size"
    BY DEF AllContent, IsContent, Framing
  <2> HIDE DEF n, q, IsContent
  <2>3. /\ q[1].t = "size" /\ q[1].a = n /\ q[n + 2].t = "crlf" /\ q[n + 3].t = "flush"
    BY <2>1 DEF Mark, Size, Item
  <2>4. ASSUME NEW i \in 2 .. n + 1
        PROVE  IsContent(q[i]) /\ q[i].t # "size"
    <3>1. i - 1 \in 1 .. n /\ q[i] = chunk[i - 1]
      BY <2>1
    <3> QED BY <2>2, <3>1
  <2>5. ASSUME NEW i \in 1 .. Len(q), q[i].t = "size"
        PROVE  i = 1
    <3>1. i = 1 \/ i \in 2 .. n + 1 \/ i = n + 2 \/ i = n + 3
      BY <2>1
    <3> QED BY <2>3, <2>4, <2>5, <3>1
  <2>6. /\ 1 + n + 1 <= Len(q) /\ 1 + n + 1 = n + 2 /\ 1 + n + 2 = n + 3
        /\ \A j \in 1 + 1 .. 1 + n : IsContent(q[j])
    BY <2>1, <2>4
  <2>7. Framed(q)
    BY <2>1, <2>3, <2>5, <2>6 DEF Framed
  <2> QED BY <2>3, <2>7 DEF q
<1> QED BY <1>2, <1>3

(* Every step keeps the chunks complete.                                    *)
LEMMA FramedInductive ==
    ASSUME NEW S, Over(S), BuffersInv, BuffersInv', FramedInv, StreamAction
    PROVE  FramedInv'
<1> HIDE DEF AllContent, NoFlush, Flushed, IsContent, Framed, FramedSoFar
\* From the chunks on their way to the wire.
<1>1. ASSUME NEW T, Over(T)', Framed(Whole')
      PROVE  FramedInv'
  <2>1. wire' \in Seq(T) /\ outbuf' \in Seq(T) /\ todo' \in Seq(T)
    BY <1>1 DEF Over
  <2>2. NoFlush(wire')
    BY DEF BuffersInv
  <2>3. Framed((wire' \o outbuf') \o todo')
    BY <1>1 DEF Whole, Sent
  <2>4. FramedSoFar(wire')
    BY ONLY <2>1, <2>2, <2>3, FramedArrives
  <2>5. FramedSoFar(wire') = FramedSoFar(wire)' /\ Framed(Whole') = Framed(Whole)'
    BY DEF FramedSoFar, Framed, IsContent
  <2> QED BY <1>1, <2>4, <2>5 DEF FramedInv
\* Once mStream has failed nothing more arrives.
<1>2. ASSUME streamBad', wire' = wire
      PROVE  FramedInv'
  BY <1>2 DEF FramedInv
<1>3. ~streamBad => Framed(Whole)
  BY DEF FramedInv
<1>4. ASSUME NEW T, Over(T)', Whole' = Whole, ~streamBad
      PROVE  FramedInv'
  <2>1. Framed(Whole')
    BY <1>3, <1>4
  <2> QED BY <1>1, <1>4, <2>1
<1>5. ASSUME NEW items, Inserting(items)
      PROVE  FramedInv'
  <2>1. PICK T : Over(T)'
    BY <1>5, InsertMoves
  <2>2. Whole' = Whole /\ wire' = wire /\ streamBad' = streamBad
    BY <1>5, InsertMoves DEF Inserting, fdVars
  <2> QED BY <1>2, <1>4, <2>1, <2>2
<1>6. ASSUME NEW c, NEW more \in Seq(S), Sync(c, more), Framed(more),
             Len(more) # 0 => more[1].t = "last"
      PROVE  FramedInv'
  <2>1. /\ Over(S)' /\ Whole = wire /\ Chunk \in Seq(S) /\ Chunk \o more \in Seq(S)
        /\ Whole' = wire \o (Chunk \o more)
    BY <1>6, SyncMoves
  <2>2. UNCHANGED <<wire, streamBad>>
    BY <1>6 DEF Sync
  <2>3. CASE streamBad
    BY <1>2, <2>2, <2>3
  <2>4. CASE ~streamBad
    <3>1. Framed(Chunk) /\ (Len(Chunk) # 0 => Chunk[1].t = "size")
      BY ChunkFramed DEF BuffersInv
    <3>2. wire \in Seq(S)
      BY DEF Over
    <3> DEFINE q == Chunk
               r == q \o more
    <3>3. q \in Seq(S) /\ Framed(q) /\ (Len(q) # 0 => q[1].t = "size") /\ r \in Seq(S)
      BY <2>1, <3>1
    <3>4. Whole' = wire \o r
      BY <2>1
    <3> HIDE DEF q
    <3>5. Framed(r)
      BY <1>6, <3>3, FramedConcat
    <3>6. Len(r) # 0 => r[1].t \in {"size", "last", "flush"}
      <4>1. /\ Len(q) \in Nat /\ Len(more) \in Nat /\ Len(r) = Len(q) + Len(more)
            /\ \A i \in 1 .. Len(q) : r[i] = q[i]
            /\ \A i \in 1 .. Len(more) : r[Len(q) + i] = more[i]
        <5>1. q \in Seq(S) /\ more \in Seq(S)
          BY <1>6, <3>3
        <5> QED BY ONLY <5>1, ConcatElements
      <4> HIDE DEF r
      <4>2. CASE Len(q) # 0
        <5>1. 1 \in 1 .. Len(q)
          BY <4>1, <4>2
        <5> QED BY <3>3, <4>1, <4>2, <5>1
      <4>3. CASE Len(q) = 0 /\ Len(more) # 0
        <5>1. 1 \in 1 .. Len(more) /\ Len(q) + 1 = 1
          BY <4>1, <4>3
        <5> QED BY <1>6, <4>1, <4>3, <5>1
      <4> QED BY <4>1, <4>2, <4>3
    <3> HIDE DEF r
    <3>7. Framed(wire \o r)
      BY <1>3, <2>1, <2>4, <3>2, <3>3, <3>5, <3>6, FramedConcat
    <3> QED BY <1>1, <2>1, <3>4, <3>7
  <2> QED BY <2>3, <2>4
<1>7. ASSUME Put
      PROVE  FramedInv'
  <2>1. Over(S)' /\ Whole' = Whole
    BY <1>7, PutMoves
  <2>2. ~streamBad
    BY <1>7 DEF Put
  <2> QED BY <1>4, <2>1, <2>2
<1>8. ASSUME PutFlush
      PROVE  FramedInv'
  <2>1. /\ Over(S)' /\ Sent' = Sent /\ Head(todo) \in S /\ Head(todo).t = "flush"
        /\ Whole = (Sent \o <<Head(todo)>>) \o todo'
    BY <1>8, PutFlushMoves
  <2>2. Sent \in Seq(S) /\ todo' \in Seq(S) /\ todo \in Seq(S)
    <3>1. wire \in Seq(S) /\ outbuf \in Seq(S) /\ todo \in Seq(S)
      BY DEF Over
    <3>2. wire \o outbuf \in Seq(S)
      BY <3>1
    <3> QED BY <2>1, <3>1, <3>2 DEF Sent, Over
  <2>3. ~streamBad /\ todo # <<>> /\ todo' = Tail(todo)
    BY <1>8 DEF PutFlush
  <2>4. Framed((Sent \o <<Head(todo)>>) \o todo')
    BY <1>3, <2>1, <2>3
  <2>5. Framed(Sent) /\ Framed(todo')
    BY ONLY <2>1, <2>2, <2>4, FramedSplit
  <2>6. Len(todo') # 0 => todo'[1].t = "last"
    <3>1. /\ Len(todo) \in Nat \ {0} /\ Len(todo') = Len(todo) - 1 /\ Head(todo) = todo[1]
          /\ \A i \in 1 .. Len(todo) - 1 : todo'[i] = todo[i + 1]
      BY <2>2, <2>3
    <3>2. ASSUME Len(todo') # 0
          PROVE  todo'[1] = todo[1 + 1] /\ 1 \in 1 .. Len(todo) - 1
      BY <3>1, <3>2
    <3> QED BY <2>1, <3>1, <3>2 DEF BuffersInv, Flushed
  <2>7. Framed(Sent \o todo')
    BY <2>2, <2>5, <2>6, FramedConcat
  <2>8. Framed(Whole')
    BY <2>1, <2>7 DEF Whole
  <2> QED BY <1>1, <2>1, <2>8
<1>9. ASSUME NEW k \in 1 .. Len(outbuf), Write(k)
      PROVE  FramedInv'
  <2>1. Over(S)' /\ Whole' = Whole
    BY <1>9, WriteMoves
  <2>2. ~streamBad
    BY <1>9 DEF Write, BuffersInv
  <2> QED BY <1>4, <2>1, <2>2
<1>10. ASSUME WriteFails
       PROVE  FramedInv'
  <2>1. wire' = wire /\ streamBad'
    BY <1>10 DEF WriteFails
  <2> QED BY <1>2, <2>1
<1>11. ASSUME Return
       PROVE  FramedInv'
  <2>1. UNCHANGED <<payload, chunk, outbuf, streamBad, wire>> /\ todo' = <<>>
    BY <1>11 DEF Return
  <2>2. CASE streamBad
    BY <1>2, <2>1, <2>2
  <2>3. CASE ~streamBad
    <3>1. todo' = todo
      BY <1>11, <2>1, <2>3 DEF Return
    <3>2. Whole' = Whole /\ Over(S)'
      BY <2>1, <3>1 DEF Whole, Sent, Over
    <3> QED BY <1>4, <2>3, <3>2
  <2> QED BY <2>2, <2>3
<1>12. ASSUME UNCHANGED streamVars
       PROVE  FramedInv'
  <2>1. UNCHANGED <<payload, chunk, todo, outbuf, wire, streamBad>>
    BY <1>12 DEF streamVars, chunkVars, fdVars
  <2> QED BY <2>1 DEF FramedInv, Whole, Sent
<1>13. Flush => FramedInv'
  <2>1. <<>> \in Seq(S) /\ Len(<<>>) = 0
    OBVIOUS
  <2>2. Framed(<<>>)
    BY DEF Framed
  <2> QED BY <1>6, <2>1, <2>2 DEF Flush
<1>14. Close => FramedInv'
  <2> DEFINE more == <<Mark("last"), Mark("flush")>>
  <2>1. Mark("last") \in S /\ Mark("flush") \in S
    BY ChunkType
  <2>2. more \in Seq(S)
    BY <2>1
  <2>3. Len(more) = 2 /\ more[1].t = "last" /\ more[2].t = "flush"
    BY DEF Mark, Item
  <2>4. Close => Sync("close", more)
    BY DEF Close
  <2> HIDE DEF more
  <2>5. Framed(more)
    BY <2>3 DEF Framed
  <2> QED BY <1>6, <2>2, <2>3, <2>4, <2>5
<1> QED BY <1>5, <1>7, <1>8, <1>9, <1>10, <1>11, <1>12, <1>13, <1>14 DEF StreamAction, StreamNext

-----------------------------------------------------------------------------
(* The last chunk.                                                          *)

(* Two sequences without the last chunk.                                    *)
LEMMA NoLastConcat ==
    ASSUME NEW S, NEW a \in Seq(S), NEW b \in Seq(S), NoLast(a), NoLast(b)
    PROVE  NoLast(a \o b)
BY DEF NoLast

(* A sequence without the last chunk, and where it is the last.             *)
LEMMA LastAppended ==
    ASSUME NEW S, NEW a \in Seq(S), NEW x \in S, NEW y \in S, NoLast(a), y.t = "flush"
    PROVE  LastOnly(a) /\ LastOnly(a \o <<x, y>>)
<1> DEFINE q == a \o <<x, y>>
           n == Len(a)
<1>1. /\ n \in Nat /\ Len(q) = n + 2 /\ q[n + 2] = y
      /\ \A i \in 1 .. n : q[i] = a[i]
  OBVIOUS
<1>2. LastOnly(a)
  BY DEF NoLast, LastOnly
<1> HIDE DEF q, n
<1>3. ASSUME NEW i \in 1 .. Len(q), q[i].t = "last", NEW j \in i + 1 .. Len(q)
      PROVE  q[j].t = "flush"
  <2>1. ~(i \in 1 .. n)
    BY <1>1, <1>3 DEF NoLast, n
  <2>2. j = n + 2
    BY <1>1, <1>3, <2>1
  <2> QED BY <1>1, <2>2
<1> QED BY <1>2, <1>3 DEF LastOnly, q

(* A flush is taken out.                                                    *)
LEMMA LastWithout ==
    ASSUME NEW S, NEW a \in Seq(S), NEW x \in S, NEW b \in Seq(S)
    PROVE  /\ LastOnly((a \o <<x>>) \o b) => LastOnly(a \o b)
           /\ NoLast((a \o <<x>>) \o b) => NoLast(a \o b)
<1> DEFINE q == (a \o <<x>>) \o b
           r == a \o b
           n == Len(a)
<1>1. /\ n \in Nat /\ Len(b) \in Nat /\ Len(q) = n + 1 + Len(b)
      /\ \A i \in 1 .. n : q[i] = a[i]
      /\ \A i \in 1 .. Len(b) : q[n + 1 + i] = b[i]
  <2> DEFINE c == a \o <<x>>
  <2>1. /\ c \in Seq(S) /\ n \in Nat /\ Len(c) = n + 1
        /\ \A i \in 1 .. n : c[i] = a[i]
    OBVIOUS
  <2> HIDE DEF c
  <2>2. /\ Len(b) \in Nat /\ Len(c \o b) = Len(c) + Len(b)
        /\ \A i \in 1 .. Len(c) : (c \o b)[i] = c[i]
        /\ \A i \in 1 .. Len(b) : (c \o b)[Len(c) + i] = b[i]
    <3>1. c \in Seq(S) /\ b \in Seq(S)
      BY <2>1
    <3> QED BY ONLY <3>1, ConcatElements
  <2>3. q = c \o b
    BY DEF c
  <2> HIDE DEF q
  <2>4. \A i \in 1 .. n : q[i] = a[i]
    BY <2>1, <2>2, <2>3
  <2> QED BY <2>1, <2>2, <2>3, <2>4
<1>2. /\ Len(r) = n + Len(b)
      /\ \A i \in 1 .. n : r[i] = a[i]
      /\ \A i \in 1 .. Len(b) : r[n + i] = b[i]
  BY ConcatElements
<1> HIDE DEF q, r, n
\* Where an item of r is in q.
<1> DEFINE at(i) == IF i <= n THEN i ELSE i + 1
<1>3. ASSUME NEW i \in 1 .. Len(r)
      PROVE  at(i) \in 1 .. Len(q) /\ q[at(i)] = r[i]
  <2>1. CASE i <= n
    <3>1. i \in 1 .. n /\ at(i) = i /\ i \in 1 .. Len(q)
      BY <1>1, <1>2, <2>1
    <3> QED BY <1>1, <1>2, <3>1
  <2>2. CASE i > n
    <3>1. i - n \in 1 .. Len(b) /\ at(i) = n + 1 + (i - n) /\ i = n + (i - n)
          /\ at(i) \in 1 .. Len(q)
      BY <1>1, <1>2, <2>2
    <3>2. q[n + 1 + (i - n)] = b[i - n] /\ r[n + (i - n)] = b[i - n]
      BY <1>1, <1>2, <3>1
    <3> QED BY <3>1, <3>2
  <2> QED BY <1>1, <2>1, <2>2
<1>4. ASSUME NEW i \in 1 .. Len(r), NEW j \in i + 1 .. Len(r)
      PROVE  at(j) \in at(i) + 1 .. Len(q) /\ j \in 1 .. Len(r)
  BY <1>1, <1>2
<1> HIDE DEF at
<1>5. LastOnly(q) => LastOnly(r)
  <2> SUFFICES ASSUME LastOnly(q), NEW i \in 1 .. Len(r), r[i].t = "last",
                      NEW j \in i + 1 .. Len(r)
               PROVE  r[j].t = "flush"
    BY DEF LastOnly
  <2>1. at(i) \in 1 .. Len(q) /\ q[at(i)].t = "last"
    BY <1>3
  <2>2. at(j) \in at(i) + 1 .. Len(q) /\ q[at(j)] = r[j]
    BY <1>3, <1>4
  <2> QED BY <2>1, <2>2 DEF LastOnly
<1>6. NoLast(q) => NoLast(r)
  BY <1>3 DEF NoLast
<1> QED BY <1>5, <1>6 DEF q, r

(* Where the last chunk has arrived, nothing is in the output buffer, and   *)
(* nothing but a flush remains.                                             *)
LEMMA LastArrives ==
    ASSUME NEW S, NEW w \in Seq(S), NEW b \in Seq(S), NEW t \in Seq(S),
           LastOnly((w \o b) \o t), NoFlush(w), NoFlush(b),
           NEW i \in 1 .. Len(w), w[i].t = "last"
    PROVE  /\ i = Len(w) /\ b = <<>>
           /\ \A j \in 1 .. Len(t) : t[j].t = "flush"
<1> DEFINE u == b \o t
           q == w \o u
           n == Len(w)
<1>1. u \in Seq(S) /\ n \in Nat
  OBVIOUS
<1>2. (w \o b) \o t = q
  BY ONLY w \in Seq(S), b \in Seq(S), t \in Seq(S), ConcatAssociative
<1>3. /\ Len(b) \in Nat /\ Len(t) \in Nat /\ Len(u) = Len(b) + Len(t)
      /\ \A k \in 1 .. Len(b) : u[k] = b[k]
      /\ \A k \in 1 .. Len(t) : u[Len(b) + k] = t[k]
  BY ConcatElements
<1> HIDE DEF u
<1>4. Len(q) = n + Len(u) /\ (\A k \in 1 .. n : q[k] = w[k])
      /\ \A k \in 1 .. Len(u) : q[n + k] = u[k]
  BY <1>1, ConcatElements
<1>5. LastOnly(q)
  BY <1>2
<1> HIDE DEF q, n
<1>6. i \in 1 .. n /\ i \in 1 .. Len(q) /\ q[i].t = "last"
  BY <1>1, <1>3, <1>4 DEF n
<1>7. \A j \in i + 1 .. Len(q) : q[j].t = "flush"
  BY <1>5, <1>6 DEF LastOnly
<1>8. i = n
  <2> SUFFICES ASSUME i # n
               PROVE  FALSE
    OBVIOUS
  <2>1. i + 1 \in i + 1 .. Len(q) /\ i + 1 \in 1 .. n
    BY <1>1, <1>3, <1>4, <1>6
  <2>2. q[i + 1].t = "flush" /\ q[i + 1] = w[i + 1]
    BY <1>4, <1>7, <2>1
  <2> QED BY <2>1, <2>2 DEF NoFlush, n
<1>9. \A k \in 1 .. Len(u) : u[k].t = "flush"
  <2>1. ASSUME NEW k \in 1 .. Len(u)
        PROVE  n + k \in i + 1 .. Len(q)
    BY <1>1, <1>3, <1>4, <1>8
  <2> QED BY <1>4, <1>7, <2>1
<1>10. b = <<>>
  <2> SUFFICES ASSUME b # <<>>
               PROVE  FALSE
    OBVIOUS
  <2>1. Len(b) # 0
    OBVIOUS
  <2>2. 1 \in 1 .. Len(b) /\ 1 \in 1 .. Len(u)
    BY <1>3, <2>1
  <2> QED BY <1>3, <1>9, <2>2 DEF NoFlush
<1>11. ASSUME NEW j \in 1 .. Len(t)
       PROVE  t[j].t = "flush"
  <2>1. Len(b) + j \in 1 .. Len(u)
    BY <1>3
  <2> QED BY <1>3, <1>9, <2>1
<1> QED BY <1>8, <1>10, <1>11 DEF n

(* Every step keeps the last chunk the last.                                *)
LEMMA LastInductive ==
    ASSUME NEW S, Over(S), BuffersInv, LastInv, StreamAction
    PROVE  LastInv'
<1> HIDE DEF AllContent, NoFlush, Flushed, IsContent, NoLast, LastOnly
<1>1. /\ ~streamBad => LastOnly(Whole)
      /\ ~streamBad => NoLast(Whole) \/ (call \in {"close", "closed"} /\ chunk = <<>>)
      /\ streamBad => NoLast(wire)
  BY DEF LastInv
<1>2. ASSUME streamBad', wire' = wire, NoLast(wire)
      PROVE  LastInv'
  BY <1>2 DEF LastInv
<1>3. ASSUME ~streamBad, streamBad' = streamBad, LastOnly(Whole'), NoLast(Whole) => NoLast(Whole'),
             NoLast(Whole) \/ (call' \in {"close", "closed"} /\ chunk' = <<>>)
      PROVE  LastInv'
  <2>1. NoLast(Whole') = NoLast(Whole)' /\ LastOnly(Whole') = LastOnly(Whole)'
    BY DEF NoLast, LastOnly
  <2> QED BY <1>3, <2>1 DEF LastInv
<1>4. ASSUME NEW items, Inserting(items)
      PROVE  LastInv'
  <2>1. Whole' = Whole /\ wire' = wire /\ streamBad' = streamBad /\ call = "none"
    BY <1>4, InsertMoves DEF Inserting, fdVars
  <2>2. CASE streamBad
    BY <1>1, <1>2, <2>1, <2>2
  <2>3. CASE ~streamBad
    BY <1>1, <1>3, <2>1, <2>3
  <2> QED BY <2>2, <2>3
<1>5. ASSUME NEW c, NEW more \in Seq(S), Sync(c, more),
             LastOnly((wire \o Chunk) \o more),
             NoLast(more) \/ c = "close"
      PROVE  LastInv'
  <2>1. /\ Over(S)' /\ Whole = wire /\ Chunk \in Seq(S) /\ Chunk \o more \in Seq(S)
        /\ Whole' = wire \o (Chunk \o more) /\ wire \in Seq(S)
    BY <1>5, SyncMoves DEF Over
  <2>2. UNCHANGED <<wire, streamBad>> /\ chunk' = <<>> /\ call' = c /\ call = "none"
    BY <1>5 DEF Sync
  <2>3. CASE streamBad
    BY <1>1, <1>2, <2>2, <2>3
  <2>4. CASE ~streamBad
    <3>1. (wire \o Chunk) \o more = wire \o (Chunk \o more)
      <4>1. wire \in Seq(S) /\ Chunk \in Seq(S) /\ more \in Seq(S)
        BY <1>5, <2>1
      <4> QED BY ONLY <4>1, ConcatAssociative
    <3>2. LastOnly(Whole')
      BY <1>5, <2>1, <3>1
    <3>3. CASE c = "close"
      <4>1. LastOnly(Whole') = LastOnly(Whole)'
        BY DEF LastOnly
      <4> QED BY <2>2, <2>4, <3>2, <3>3, <4>1 DEF LastInv
    <3>4. CASE NoLast(more)
      <4>1. NoLast(Chunk)
        BY ChunkFlushed DEF BuffersInv, NoLast
      <4>2. NoLast(Chunk \o more)
        BY <1>5, <2>1, <3>4, <4>1, NoLastConcat
      <4>3. NoLast(wire)
        BY <1>1, <2>1, <2>2, <2>4
      <4>4. NoLast(wire \o (Chunk \o more))
        BY <2>1, <4>2, <4>3, NoLastConcat
      <4>5. NoLast(Whole') /\ NoLast(Whole)
        BY <2>1, <4>3, <4>4
      <4> QED BY <1>3, <2>2, <2>4, <3>2, <4>5
    <3> QED BY <1>5, <3>3, <3>4
  <2> QED BY <2>3, <2>4
<1>6. ASSUME Put
      PROVE  LastInv'
  <2>1. Whole' = Whole
    BY <1>6, PutMoves
  <2>2. ~streamBad /\ UNCHANGED <<streamBad, call, chunk>>
    BY <1>6 DEF Put, chunkVars
  <2> QED BY <1>1, <1>3, <2>1, <2>2
<1>7. ASSUME PutFlush
      PROVE  LastInv'
  <2>1. /\ Over(S)' /\ Sent' = Sent /\ Head(todo) \in S
        /\ Whole = (Sent \o <<Head(todo)>>) \o todo'
    BY <1>7, PutFlushMoves
  <2>2. Sent \in Seq(S) /\ todo' \in Seq(S)
    <3>1. wire \in Seq(S) /\ outbuf \in Seq(S)
      BY DEF Over
    <3>2. wire \o outbuf \in Seq(S)
      BY <3>1
    <3> QED BY <2>1, <3>2 DEF Sent, Over
  <2>3. ~streamBad /\ UNCHANGED <<streamBad, call, chunk>>
    BY <1>7 DEF PutFlush, chunkVars
  <2>4. /\ LastOnly((Sent \o <<Head(todo)>>) \o todo') => LastOnly(Sent \o todo')
        /\ NoLast((Sent \o <<Head(todo)>>) \o todo') => NoLast(Sent \o todo')
    BY ONLY <2>1, <2>2, LastWithout
  <2>5. LastOnly(Whole') /\ (NoLast(Whole) => NoLast(Whole'))
    BY <1>1, <2>1, <2>3, <2>4 DEF Whole
  <2> QED BY <1>1, <1>3, <2>3, <2>5
<1>8. ASSUME NEW k \in 1 .. Len(outbuf), Write(k)
      PROVE  LastInv'
  <2>1. Whole' = Whole
    BY <1>8, WriteMoves
  <2>2. ~streamBad /\ UNCHANGED <<streamBad, call, chunk>>
    BY <1>8 DEF Write, BuffersInv, chunkVars
  <2> QED BY <1>1, <1>3, <2>1, <2>2
<1>9. ASSUME WriteFails
      PROVE  LastInv'
  <2>1. wire' = wire /\ streamBad' /\ syncing
    BY <1>9 DEF WriteFails
  <2>2. outbuf # <<>> /\ ~streamBad /\ NoFlush(wire) /\ NoFlush(outbuf)
    BY <2>1 DEF BuffersInv
  <2>3. wire \in Seq(S) /\ outbuf \in Seq(S) /\ todo \in Seq(S)
    BY DEF Over
  <2>4. LastOnly((wire \o outbuf) \o todo)
    BY <1>1, <2>2 DEF Whole, Sent
  <2>5. \A i \in 1 .. Len(wire) : wire[i].t # "last"
    BY ONLY <2>2, <2>3, <2>4, LastArrives
  <2>6. NoLast(wire)
    BY <2>5 DEF NoLast
  <2> QED BY <1>2, <2>1, <2>6
<1>10. ASSUME Return
       PROVE  LastInv'
  <2>1. UNCHANGED <<payload, chunk, outbuf, streamBad, wire>> /\ todo' = <<>>
        /\ call' = (IF call = "close" THEN "closed" ELSE "none") /\ call # "closed"
    BY <1>10 DEF Return
  <2>2. CASE streamBad
    BY <1>1, <1>2, <2>1, <2>2
  <2>3. CASE ~streamBad
    <3>1. todo' = todo
      BY <1>10, <2>1, <2>3 DEF Return
    <3>2. Whole' = Whole
      BY <2>1, <3>1 DEF Whole, Sent
    <3> QED BY <1>1, <1>3, <2>1, <2>3, <3>2
  <2> QED BY <2>2, <2>3
<1>11. ASSUME UNCHANGED streamVars
       PROVE  LastInv'
  <2>1. UNCHANGED <<payload, chunk, call, todo, outbuf, wire, streamBad>>
    BY <1>11 DEF streamVars, chunkVars, fdVars
  <2> QED BY <2>1 DEF LastInv, Whole, Sent
<1>12. ASSUME Flush
       PROVE  LastInv'
  <2>1. <<>> \in Seq(S) /\ wire \in Seq(S) /\ Chunk \in Seq(S) /\ Mark("flush") \in S
    BY ChunkType DEF Over
  <2>2. NoLast(<<>>)
    BY DEF NoLast
  <2>3. CASE streamBad
    BY <1>1, <1>2, <1>12, <2>3 DEF Flush, Sync
  <2>4. CASE ~streamBad
    <3>1. NoLast(wire)
      BY <1>1, <1>12, <2>1, <2>4, SyncMoves DEF Flush, Sync
    <3>2. NoLast(Chunk)
      BY ChunkFlushed DEF BuffersInv, NoLast
    <3>3. NoLast(wire \o Chunk) /\ wire \o Chunk \in Seq(S)
      BY <2>1, <3>1, <3>2, NoLastConcat
    <3>4. (wire \o Chunk) \o <<>> = wire \o Chunk
      BY ONLY <3>3, ConcatEmptySeq
    <3>5. LastOnly(wire \o Chunk)
      BY <3>3 DEF NoLast, LastOnly
    <3> QED BY <1>5, <1>12, <2>1, <2>2, <3>4, <3>5 DEF Flush
  <2> QED BY <2>3, <2>4
<1>13. ASSUME Close
       PROVE  LastInv'
  <2> DEFINE x == Mark("last")
             y == Mark("flush")
  <2>1. x \in S /\ y \in S /\ wire \in Seq(S) /\ Chunk \in Seq(S) /\ y.t = "flush"
    BY ChunkType DEF Over, Mark, Item
  <2>2. Sync("close", <<x, y>>)
    BY <1>13 DEF Close
  <2> HIDE DEF x, y
  <2>3. <<x, y>> \in Seq(S)
    BY <2>1
  <2>4. CASE streamBad
    BY <1>1, <1>2, <2>2, <2>4 DEF Sync
  <2>5. CASE ~streamBad
    <3>1. NoLast(wire)
      <4>1. call = "none"
        BY <2>2 DEF Sync
      <4> QED BY <1>1, <2>2, <2>3, <2>5, <4>1, SyncMoves
    <3>2. NoLast(Chunk)
      BY ChunkFlushed DEF BuffersInv, NoLast
    <3>3. NoLast(wire \o Chunk) /\ wire \o Chunk \in Seq(S)
      BY <2>1, <3>1, <3>2, NoLastConcat
    <3>4. LastOnly((wire \o Chunk) \o <<x, y>>)
      BY ONLY <2>1, <3>3, LastAppended
    <3> QED BY <1>5, <2>2, <2>3, <3>4
  <2> QED BY <2>4, <2>5
<1> QED BY <1>4, <1>6, <1>7, <1>8, <1>9, <1>10, <1>11, <1>12, <1>13 DEF StreamAction, StreamNext

(* Every step goes on with sequences.                                       *)
LEMMA OverInductive ==
    ASSUME NEW S, Over(S), BuffersInv, StreamAction
    PROVE  \E T : Over(T)'
<1>1. ASSUME NEW items, Inserting(items)
      PROVE  \E T : Over(T)'
  BY <1>1, InsertMoves
<1>2. ASSUME Flush
      PROVE  Over(S)'
  <2>1. <<>> \in Seq(S)
    OBVIOUS
  <2> QED BY <1>2, <2>1, SyncMoves DEF Flush
<1>3. ASSUME Close
      PROVE  Over(S)'
  <2>1. Mark("last") \in S /\ Mark("flush") \in S
    BY ChunkType
  <2>2. <<Mark("last"), Mark("flush")>> \in Seq(S)
    BY <2>1
  <2> QED BY <1>3, <2>2, SyncMoves DEF Close
<1>4. Put => Over(S)'
  BY PutMoves
<1>5. PutFlush => Over(S)'
  BY PutFlushMoves
<1>6. ASSUME NEW k \in 1 .. Len(outbuf), Write(k)
      PROVE  Over(S)'
  BY <1>6, WriteMoves
<1>7. <<>> \in Seq(S)
  OBVIOUS
<1>8. ASSUME WriteFails
      PROVE  Over(S)'
  <2>1. outbuf' = <<>> /\ UNCHANGED <<payload, chunk, todo, wire>>
    BY <1>8 DEF WriteFails, chunkVars
  <2> QED BY <1>7, <2>1 DEF Over
<1>9. ASSUME Return
      PROVE  Over(S)'
  <2>1. todo' = <<>> /\ UNCHANGED <<payload, chunk, outbuf, wire>>
    BY <1>9 DEF Return
  <2> QED BY <1>7, <2>1 DEF Over
<1>10. ASSUME UNCHANGED streamVars
       PROVE  Over(S)'
  <2>1. UNCHANGED <<payload, chunk, todo, outbuf, wire>>
    BY <1>10 DEF streamVars, chunkVars, fdVars
  <2> QED BY <2>1 DEF Over
<1> QED BY <1>1, <1>2, <1>3, <1>4, <1>5, <1>6, <1>8, <1>9, <1>10 DEF StreamAction, StreamNext

-----------------------------------------------------------------------------
(* What the encoders insert.                                                *)

\* A sequence of content, whatever its items say.
ContentSeq(s) == \E T : (\A x \in T : IsContent(x)) /\ s \in Seq(T)

(* It consists of content.                                                  *)
LEMMA ContentSeqElements ==
    ASSUME NEW s, ContentSeq(s)
    PROVE  AllContent(s) /\ \E T : s \in Seq(T)
<1>1. PICK T : (\A x \in T : IsContent(x)) /\ s \in Seq(T)
  BY DEF ContentSeq
<1>2. \A i \in 1 .. Len(s) : s[i] \in T
  BY <1>1
<1> QED BY <1>1, <1>2 DEF AllContent

(* Nothing, one piece and two pieces of content.                            *)
LEMMA ContentSeqSmall ==
    ASSUME NEW x, NEW y, IsContent(x), IsContent(y)
    PROVE  ContentSeq(<<>>) /\ ContentSeq(<<x>>) /\ ContentSeq(<<x, y>>)
<1> DEFINE T == {x, y}
<1>1. x \in T /\ y \in T /\ \A z \in T : IsContent(z)
  OBVIOUS
<1> HIDE DEF T, IsContent
<1>2. <<>> \in Seq(T) /\ <<x>> \in Seq(T) /\ <<x, y>> \in Seq(T)
  BY <1>1
<1> QED BY <1>1, <1>2 DEF ContentSeq

(* One sequence of content after another.                                   *)
LEMMA ContentSeqConcat ==
    ASSUME NEW a, NEW b, ContentSeq(a), ContentSeq(b)
    PROVE  ContentSeq(a \o b)
<1> HIDE DEF IsContent
<1>1. PICK T : (\A x \in T : IsContent(x)) /\ a \in Seq(T)
  BY DEF ContentSeq
<1>2. PICK U : (\A x \in U : IsContent(x)) /\ b \in Seq(U)
  BY DEF ContentSeq
<1> DEFINE V == T \cup U
<1>3. a \in Seq(V) /\ b \in Seq(V) /\ \A x \in V : IsContent(x)
  BY <1>1, <1>2, SeqMonotonic
<1> HIDE DEF V
<1>4. a \o b \in Seq(V)
  BY <1>3
<1> QED BY <1>3, <1>4 DEF ContentSeq

(* A part of a sequence of content, and what follows it.                    *)
LEMMA ContentSeqParts ==
    ASSUME NEW s, ContentSeq(s), NEW k \in 0 .. Len(s)
    PROVE  ContentSeq(SubSeq(s, 1, k)) /\ ContentSeq(SubSeq(s, k + 1, Len(s)))
<1> HIDE DEF IsContent
<1>1. PICK T : (\A x \in T : IsContent(x)) /\ s \in Seq(T)
  BY DEF ContentSeq
<1>2. SubSeq(s, 1, k) \in Seq(T) /\ SubSeq(s, k + 1, Len(s)) \in Seq(T)
  BY <1>1
<1> QED BY <1>1, <1>2 DEF ContentSeq

(* What the encoders insert is no framing.                                  *)
LEMMA EncoderItems ==
    /\ \A a, b, c : \A t \in {"header", "line", "end", "page", "image", "contents", "endstream",
                              "pages", "kid", "catalog", "info", "xref", "entry", "trailer",
                              "startxref"} : IsContent(Item(t, a, b, c))
    /\ \A t \in {"header", "end", "endstream"} : IsContent(Mark(t))
BY DEF IsContent, Item, Mark, Framing

(* The lines of a PDF.                                                      *)
LEMMA PdfLineInserts ==
    ASSUME PdfWriteLine
    PROVE  \E items : ContentSeq(items) /\ Insert(items)
<1> DEFINE obj   == IF DocumentBegins THEN 1 ELSE mObj
           inObj == IF ImageBegins THEN obj + 2 ELSE obj
           i1 == When(DocumentBegins, <<Mark("header")>>)
           i2 == When(ImageBegins, PdfImageBegin(obj))
           i3 == <<Line>>
           i4 == When(ImageEnds, PdfImageEnd(inObj))
           items == i1 \o i2 \o i3 \o i4
<1>1. Insert(items)
  BY DEF PdfWriteLine
<1> HIDE DEF IsContent
<1>2. ContentSeq(i1)
  BY EncoderItems, ContentSeqSmall DEF When
<1>3. ContentSeq(i2)
  BY EncoderItems, ContentSeqSmall DEF When, PdfImageBegin
<1>4. ContentSeq(i3)
  BY EncoderItems, ContentSeqSmall DEF Line
<1>5. ContentSeq(i4)
  BY EncoderItems, ContentSeqSmall DEF When, PdfImageEnd
<1> HIDE DEF i1, i2, i3, i4
<1>6. ContentSeq(items)
  BY <1>2, <1>3, <1>4, <1>5, ContentSeqConcat
<1> QED BY <1>1, <1>6

(* The lines of a JPEG or PNG file, and what the library keeps.             *)
LEMMA ImageLineInserts ==
    ASSUME ImageWriteLine, ContentSeq(held)
    PROVE  /\ \E items : ContentSeq(items) /\ Insert(items)
           /\ ContentSeq(held')
<1> HIDE DEF IsContent
<1> DEFINE i1 == When(ImageBegins, <<Mark("header")>>)
           i2 == <<Line>>
           i3 == When(ImageEnds, <<Mark("end")>>)
<1>1. ContentSeq(i1)
  BY EncoderItems, ContentSeqSmall DEF When
<1>2. ContentSeq(i2)
  BY EncoderItems, ContentSeqSmall DEF Line
<1>3. ContentSeq(i3)
  BY EncoderItems, ContentSeqSmall DEF When
<1>4. ImageItems = held \o i1 \o i2 \o i3
  BY DEF ImageItems
<1> HIDE DEF i1, i2, i3
<1>5. ContentSeq(ImageItems)
  BY <1>1, <1>2, <1>3, <1>4, ContentSeqConcat
<1>6. PICK k \in IF ImageEnds THEN {Len(ImageItems)} ELSE 0 .. Len(ImageItems) :
        /\ Insert(SubSeq(ImageItems, 1, k))
        /\ held' = SubSeq(ImageItems, k + 1, Len(ImageItems))
  BY DEF ImageWriteLine, PassOn
<1>7. k \in 0 .. Len(ImageItems)
  <2>1. PICK T : ImageItems \in Seq(T)
    BY <1>5 DEF ContentSeq
  <2>2. Len(ImageItems) \in Nat
    BY <2>1
  <2> QED BY <1>6, <2>2
<1>8. ContentSeq(SubSeq(ImageItems, 1, k)) /\ ContentSeq(SubSeq(ImageItems, k + 1, Len(ImageItems)))
  BY <1>5, <1>7, ContentSeqParts
<1> QED BY <1>6, <1>8

(* The objects that are defined go into a sequence.                         *)
LEMMA DefobjType ==
    ASSUME NEW T, NEW items \in Seq(T), NEW at
    PROVE  \E R : Defobj(items, at) \in Seq(R)
<1> DEFINE f == [k \in 1 .. Len(items) |-> [id |-> items[k].a, offset |-> at + k - 1]]
           R == {f[k] : k \in 1 .. Len(items)}
<1>1. Len(items) \in Nat
  OBVIOUS
<1>2. f \in [1 .. Len(items) -> R]
  OBVIOUS
<1> HIDE DEF R
<1>3. f \in Seq(R)
  <2> HIDE DEF f
  <2> QED BY <1>1, <1>2
<1> HIDE DEF f
<1>4. Pick(f, {k \in 1 .. Len(items) : items[k].t \in PdfObjects}) \in Seq(R)
  BY <1>3, PickType
<1> QED BY <1>4 DEF Defobj, f

(* A function on the first n numbers, of which there may be none.           *)
LEMMA NumberedSeq ==
    ASSUME NEW n \in Int, NEW T, NEW f \in [1 .. n -> T]
    PROVE  f \in Seq(T)
<1>1. CASE n \in Nat
  BY <1>1
<1>2. CASE n \notin Nat
  <2>1. 1 .. n = 1 .. 0
    BY <1>2
  <2>2. f \in [1 .. 0 -> T] /\ 0 \in Nat
    BY <2>1
  <2> QED BY ONLY <2>2
<1> QED BY <1>1, <1>2

(* The page tree.                                                           *)
LEMMA PdfTreeContent ==
    ASSUME mObj \in Int
    PROVE  ContentSeq(PdfTree)
<1> HIDE DEF IsContent
<1> DEFINE n == mObj \div 3
           kids == [k \in 1 .. n |-> Item("kid", 3 * k - 1, 0, 0)]
           T == {Item("kid", 3 * k - 1, 0, 0) : k \in 1 .. n}
           i1 == <<Item("pages", 1, mCurrentImage, 0)>>
           i3 == <<Item("catalog", mObj + 1, 1, 0), Item("info", mObj + 2, 0, 0)>>
<1>1. n \in Int /\ kids \in [1 .. n -> T]
  <2>1. n \in Int
    OBVIOUS
  <2> HIDE DEF n, Item
  <2> QED BY <2>1
<1>2. \A x \in T : IsContent(x)
  <2> HIDE DEF n
  <2> QED BY EncoderItems
<1>3. PdfTree = i1 \o kids \o i3
  BY DEF PdfTree
<1>4. ContentSeq(i1)
  BY EncoderItems, ContentSeqSmall
<1>5. ContentSeq(i3)
  BY EncoderItems, ContentSeqSmall
<1> HIDE DEF n, kids, T, i1, i3
<1>6. ContentSeq(kids)
  BY <1>1, <1>2, NumberedSeq DEF ContentSeq
<1> QED BY <1>3, <1>4, <1>5, <1>6, ContentSeqConcat

(* The table.                                                               *)
LEMMA PdfTableContent ==
    ASSUME NEW R, NEW objs \in Seq(R), NEW at
    PROVE  ContentSeq(PdfTable(objs, at))
<1> HIDE DEF IsContent
<1> DEFINE n == Len(objs)
           sorted == ById(objs)
           entries == [o \in 1 .. n |-> Item("entry", sorted[o].offset, 0, 0)]
           T == {Item("entry", sorted[o].offset, 0, 0) : o \in 1 .. n}
           i1 == <<Item("xref", n + 1, 0, 0)>>
           i3 == <<Item("trailer", n + 1, mObj + 1, mObj + 2), Item("startxref", at, 0, 0)>>
<1>1. PdfTable(objs, at) = i1 \o entries \o i3
  BY DEF PdfTable
<1>2. n \in Nat
  OBVIOUS
<1> HIDE DEF sorted, n
<1>3. entries \in [1 .. n -> T]
  <2> HIDE DEF Item
  <2> QED OBVIOUS
<1>4. \A x \in T : IsContent(x)
  BY EncoderItems
<1>5. ContentSeq(i1)
  BY EncoderItems, ContentSeqSmall
<1>6. ContentSeq(i3)
  BY EncoderItems, ContentSeqSmall
<1> HIDE DEF entries, T, i1, i3
<1>7. ContentSeq(entries)
  BY <1>2, <1>3, <1>4, NumberedSeq DEF ContentSeq
<1> QED BY <1>1, <1>5, <1>6, <1>7, ContentSeqConcat

(* The end of a PDF.                                                        *)
LEMMA PdfEndInserts ==
    ASSUME PdfDocumentEnd, mObj \in Int, NEW R, mObjects \in Seq(R)
    PROVE  \E items : ContentSeq(items) /\ Insert(items)
<1> HIDE DEF IsContent
<1> DEFINE at == Tellp - mBegin
           more == Defobj(PdfTree, at)
           objs == mObjects \o more
           items == PdfTree \o PdfTable(objs, at + Len(PdfTree))
<1>1. Insert(items)
  BY DEF PdfDocumentEnd
<1> HIDE DEF at
<1>2. ContentSeq(PdfTree)
  BY PdfTreeContent
<1>3. PICK T : PdfTree \in Seq(T)
  BY <1>2 DEF ContentSeq
<1>4. PICK P : more \in Seq(P)
  BY <1>3, DefobjType
<1> HIDE DEF more
<1> DEFINE Q == P \cup R
<1>5. mObjects \in Seq(Q) /\ more \in Seq(Q)
  BY <1>4, SeqMonotonic
<1> HIDE DEF Q
<1>6. objs \in Seq(Q)
  BY <1>5
<1> HIDE DEF objs
<1>7. ContentSeq(PdfTable(objs, at + Len(PdfTree)))
  BY <1>6, PdfTableContent
<1>8. ContentSeq(items)
  BY <1>2, <1>7, ContentSeqConcat
<1> QED BY <1>1, <1>8

-----------------------------------------------------------------------------
(* The document.                                                            *)

States == {"processing", "pending", "completed", "aborted", "canceled"}
Places == {"loop", "flush", "flushed", "thrown", "close", "over"}

\* Types of what the encoder keeps; and the chunk is empty wherever the loop has
\* just flushed it.  The list of objects is sorted at the end and then not used.
EncoderInv ==
    /\ mKind \in {"single", "adfSingle", "adfConcat"}
    /\ mState \in States /\ pc \in Places
    /\ mCurrentLine \in 0 .. Height - 1 /\ mCurrentImage \in Nat
    /\ frames \in Seq(0 .. MaxRows) /\ Len(frames) \in 1 .. MaxFrames
    /\ mObj \in Int
    /\ pc \notin {"close", "over"} => \E R : mObjects \in Seq(R)
    /\ ContentSeq(held)
    /\ pc \in {"loop", "flushed", "over"} => chunk = <<>>
    /\ pc = "thrown" => mState \in {"aborted", "canceled"}

IInv ==
    /\ \E S : Over(S)
    /\ BuffersInv /\ DeliveredInv /\ FramedInv /\ LastInv
    /\ EncoderInv

(* An encoder that throws has inserted a part of the file, or nothing.       *)
LEMMA ThrowInserts ==
    ASSUME WriteThrows, ContentSeq(held)
    PROVE  /\ call = "none" /\ UNCHANGED <<call, fdVars>>
           /\ \/ UNCHANGED chunkVars
              \/ \E items : ContentSeq(items) /\ Insert(items)
<1> HIDE DEF IsContent
<1>1. call = "none" /\ UNCHANGED <<call, fdVars>> /\ (UNCHANGED chunkVars \/ ThrowsHalfway)
  BY DEF WriteThrows, Free
<1>2. ASSUME ThrowsHalfway
      PROVE  \E items : ContentSeq(items) /\ Insert(items)
  <2> DEFINE i1 == When(ImageBegins, <<Mark("header")>>)
             i2 == <<Line>>
             i3 == When(ImageEnds, <<Mark("end")>>)
  <2>1. ContentSeq(i1)
    BY EncoderItems, ContentSeqSmall DEF When
  <2>2. ContentSeq(i2)
    BY EncoderItems, ContentSeqSmall DEF Line
  <2>3. ContentSeq(i3)
    BY EncoderItems, ContentSeqSmall DEF When
  <2>4. ImageItems = held \o i1 \o i2 \o i3
    BY DEF ImageItems
  <2> HIDE DEF i1, i2, i3
  <2>5. ContentSeq(ImageItems)
    BY <2>1, <2>2, <2>3, <2>4, ContentSeqConcat
  <2>6. PICK k \in IF MustThrow THEN {0} ELSE 0 .. Len(ImageItems) : Insert(SubSeq(ImageItems, 1, k))
    BY <1>2 DEF ThrowsHalfway
  <2>7. k \in 0 .. Len(ImageItems)
    <3>1. PICK T : ImageItems \in Seq(T)
      BY <2>5 DEF ContentSeq
    <3>2. Len(ImageItems) \in Nat
      BY <3>1
    <3> QED BY <2>6, <3>2
  <2>8. ContentSeq(SubSeq(ImageItems, 1, k))
    BY <2>5, <2>7, ContentSeqParts
  <2> QED BY <2>6, <2>8
<1> QED BY <1>1, <1>2

(* Every step of the document is one of the stream.                         *)
LEMMA NextIsStreamAction ==
    ASSUME EncoderInv, [Next]_vars
    PROVE  StreamAction
<1> HIDE DEF IsContent
<1>1. ASSUME NEW items, ContentSeq(items), Insert(items), call = "none", UNCHANGED <<call, fdVars>>
      PROVE  StreamAction
  <2>1. Inserting(items)
    BY <1>1, ContentSeqElements DEF Inserting
  <2> QED BY <2>1 DEF StreamAction
<1>2. ASSUME WriteLine
      PROVE  StreamAction
  <2>1. call = "none" /\ UNCHANGED <<call, fdVars>>
    BY <1>2 DEF WriteLine, Free
  <2>2. \E items : ContentSeq(items) /\ Insert(items)
    <3>1. CASE mDocumentFormat = "pdf"
      <4>1. PdfWriteLine
        BY <1>2, <3>1 DEF WriteLine
      <4> QED BY <4>1, PdfLineInserts
    <3>2. CASE mDocumentFormat # "pdf"
      <4>1. ImageWriteLine
        BY <1>2, <3>2 DEF WriteLine
      <4> QED BY <4>1, ImageLineInserts DEF EncoderInv
    <3> QED BY <3>1, <3>2
  <2> QED BY <1>1, <2>1, <2>2
<1>3. ASSUME EndDocument
      PROVE  StreamAction
  <2>1. call = "none" /\ UNCHANGED <<call, fdVars>> /\ pc \in {"loop", "thrown"}
    BY <1>3 DEF EndDocument, Free
  <2>2. CASE mDocumentFormat = "pdf"
    <3>1. PdfDocumentEnd
      BY <1>3, <2>2 DEF EndDocument
    <3>2. PICK R : mObjects \in Seq(R)
      BY <2>1 DEF EncoderInv
    <3>3. \E items : ContentSeq(items) /\ Insert(items)
      BY <3>1, <3>2, PdfEndInserts DEF EncoderInv
    <3> QED BY <1>1, <2>1, <3>3
  <2>3. CASE mDocumentFormat # "pdf"
    <3>1. UNCHANGED chunkVars
      BY <1>3, <2>3 DEF EndDocument
    <3> QED BY <2>1, <3>1 DEF StreamAction, streamVars
  <2> QED BY <2>2, <2>3
<1>4. LineFlushed \/ ImageOver \/ Cancel => UNCHANGED streamVars
  BY DEF LineFlushed, ImageOver, Cancel
<1>9. ASSUME WriteThrows
      PROVE  StreamAction
  <2>1. CASE UNCHANGED chunkVars
    BY <1>9, <2>1 DEF WriteThrows, StreamAction, streamVars
  <2>2. CASE \E items : ContentSeq(items) /\ Insert(items)
    BY <1>1, <1>9, <2>2, ThrowInserts DEF EncoderInv
  <2> QED BY <1>9, <2>1, <2>2, ThrowInserts DEF EncoderInv
<1>5. FlushLine => Flush
  BY DEF FlushLine
<1>6. CloseResponse => Close
  BY DEF CloseResponse
<1>7. StreamStep => StreamNext
  BY DEF StreamStep
<1>8. UNCHANGED vars => UNCHANGED streamVars
  BY DEF vars
<1> QED BY <1>2, <1>3, <1>4, <1>5, <1>6, <1>7, <1>8, <1>9 DEF Next, StreamAction

(* One line more in the last image.                                         *)
LEMMA FramesCount ==
    ASSUME EncoderInv, Last(frames) < MaxRows,
           frames' = [frames EXCEPT ![Len(frames)] = @ + 1]
    PROVE  frames' \in Seq(0 .. MaxRows) /\ Len(frames') = Len(frames)
<1>1. frames \in Seq(0 .. MaxRows) /\ Len(frames) \in 1 .. MaxFrames
  BY DEF EncoderInv
<1>2. frames[Len(frames)] \in 0 .. MaxRows /\ frames[Len(frames)] < MaxRows
  BY <1>1 DEF Last
<1>3. frames[Len(frames)] + 1 \in 0 .. MaxRows
  BY <1>2
<1> QED BY <1>1, <1>3

(* Every step keeps the encoder's types.                                    *)
LEMMA EncoderInductive ==
    ASSUME EncoderInv, [Next]_vars
    PROVE  EncoderInv'
<1> HIDE DEF IsContent, ContentSeq, States, Places
<1>1. ASSUME WriteLine
      PROVE  EncoderInv'
  <2>1. /\ pc = "loop" /\ Last(frames) < MaxRows /\ CountLine /\ pc' = "flush"
        /\ frames' = [frames EXCEPT ![Len(frames)] = @ + 1]
        /\ UNCHANGED <<mKind, mState>>
    BY <1>1 DEF WriteLine, ticketVars, jobVars
  <2>2. frames' \in Seq(0 .. MaxRows) /\ Len(frames') = Len(frames)
    BY <2>1, FramesCount
  <2>3. mCurrentLine' \in 0 .. Height - 1 /\ mCurrentImage' \in Nat
    BY <2>1 DEF CountLine, ImageEnds, EncoderInv
  <2>4. PICK R : mObjects \in Seq(R)
    BY <2>1 DEF EncoderInv
  <2>5. mObj' \in Int /\ (\E T : mObjects' \in Seq(T)) /\ ContentSeq(held')
    <3>1. CASE mDocumentFormat = "pdf"
      <4> DEFINE obj   == IF DocumentBegins THEN 1 ELSE mObj
                 inObj == IF ImageBegins THEN obj + 2 ELSE obj
                 i1 == When(DocumentBegins, <<Mark("header")>>)
                 i2 == When(ImageBegins, PdfImageBegin(obj))
                 i3 == <<Line>>
                 i4 == When(ImageEnds, PdfImageEnd(inObj))
                 items == i1 \o i2 \o i3 \o i4
                 old == IF DocumentBegins THEN <<>> ELSE mObjects
                 more == Defobj(items, Tellp - mBegin')
      <4>1. PdfWriteLine
        BY <1>1, <3>1 DEF WriteLine
      <4>2. /\ mObjects' = old \o more /\ held' = held
            /\ mObj' = IF ImageEnds THEN inObj + 1 ELSE inObj
        BY <4>1 DEF PdfWriteLine
      <4>3. ContentSeq(items)
        <5>1. ContentSeq(i1)
          BY EncoderItems, ContentSeqSmall DEF When
        <5>2. ContentSeq(i2)
          BY EncoderItems, ContentSeqSmall DEF When, PdfImageBegin
        <5>3. ContentSeq(i3)
          BY EncoderItems, ContentSeqSmall DEF Line
        <5>4. ContentSeq(i4)
          BY EncoderItems, ContentSeqSmall DEF When, PdfImageEnd
        <5> HIDE DEF i1, i2, i3, i4
        <5> QED BY <5>1, <5>2, <5>3, <5>4, ContentSeqConcat
      <4>4. mObj' \in Int
        BY <4>2 DEF EncoderInv
      <4>5. old \in Seq(R)
        BY <2>4
      <4> HIDE DEF items
      <4>6. PICK T : items \in Seq(T)
        BY <4>3 DEF ContentSeq
      <4>7. PICK P : more \in Seq(P)
        BY <4>6, DefobjType
      <4> DEFINE Q == P \cup R
      <4> HIDE DEF old, more
      <4>8. old \in Seq(Q) /\ more \in Seq(Q)
        BY <4>5, <4>7, SeqMonotonic
      <4> HIDE DEF Q
      <4>9. old \o more \in Seq(Q)
        BY <4>8
      <4> QED BY <4>2, <4>4, <4>9 DEF EncoderInv
    <3>2. CASE mDocumentFormat # "pdf"
      <4>1. ImageWriteLine
        BY <1>1, <3>2 DEF WriteLine
      <4>2. UNCHANGED <<mObj, mObjects>>
        BY <4>1 DEF ImageWriteLine, pdfVars
      <4>3. ContentSeq(held')
        BY <4>1, ImageLineInserts DEF EncoderInv
      <4> QED BY <2>4, <4>2, <4>3 DEF EncoderInv
    <3> QED BY <3>1, <3>2
  <2>6. pc' \in Places
    BY <2>1 DEF Places
  <2> QED BY <2>1, <2>2, <2>3, <2>5, <2>6 DEF EncoderInv, ContentSeq
<1>2. ASSUME WriteThrows
      PROVE  EncoderInv'
  <2>1. /\ Last(frames) < MaxRows /\ frames' = [frames EXCEPT ![Len(frames)] = @ + 1]
        /\ mState' = "aborted" /\ pc' = "thrown" /\ pc = "loop"
        /\ UNCHANGED <<mKind, mCurrentLine, mCurrentImage, mObj, mObjects, held>>
    BY <1>2 DEF WriteThrows, ticketVars, encoderVars, lineVars, pdfVars
  <2>2. frames' \in Seq(0 .. MaxRows) /\ Len(frames') = Len(frames)
    BY <2>1, FramesCount
  <2>3. mState' \in States /\ pc' \in Places
    BY <2>1 DEF States, Places
  <2> QED BY <2>1, <2>2, <2>3 DEF EncoderInv, ContentSeq
<1>3. ASSUME NEW s \in States, mState' = s, pc' = pc, s \in {mState, "canceled"},
             UNCHANGED <<frames, mKind, mCurrentLine, mCurrentImage, mObj, mObjects, held, chunk>>
      PROVE  EncoderInv'
  BY <1>3 DEF EncoderInv, ContentSeq
<1>4. ASSUME FlushLine
      PROVE  EncoderInv'
  <2>1. /\ pc = "flush" /\ pc' \in {"flush", "flushed"} /\ chunk' = <<>>
        /\ UNCHANGED <<mKind, mState, frames, mCurrentLine, mCurrentImage, mObj, mObjects, held>>
    BY <1>4 DEF FlushLine, Flush, Sync, ticketVars, jobVars, encoderVars, lineVars, pdfVars
  <2> QED BY <2>1 DEF EncoderInv, ContentSeq, Places
<1>5. ASSUME LineFlushed
      PROVE  EncoderInv'
  <2>1. /\ pc = "flushed" /\ pc' = "loop" /\ mState' = (IF chunkBad THEN "aborted" ELSE mState)
        /\ UNCHANGED <<mKind, frames, mCurrentLine, mCurrentImage, mObj, mObjects, held, chunk>>
    BY <1>5 DEF LineFlushed, streamVars, chunkVars, ticketVars, encoderVars, lineVars, pdfVars
  <2>2. mState' \in States
    BY <2>1 DEF EncoderInv, States
  <2> QED BY <2>1, <2>2 DEF EncoderInv, ContentSeq, Places
<1>6. ASSUME ImageOver
      PROVE  EncoderInv'
  <2>1. PICK s \in Outcomes :
            /\ s = "processing" => Len(frames) < MaxFrames
            /\ mState' = IF mCurrentLine # 0 THEN "aborted" ELSE s
            /\ frames' = IF mState' = "processing" THEN Append(frames, 0) ELSE frames
    BY <1>6 DEF ImageOver
  <2>2. pc = "loop" /\ UNCHANGED <<mKind, pc, mCurrentLine, mCurrentImage, mObj, mObjects, held, chunk>>
    BY <1>6 DEF ImageOver, streamVars, chunkVars, ticketVars, encoderVars, lineVars, pdfVars
  <2>3. s \in States
    BY <2>1 DEF Outcomes, States, EncoderInv
  <2>4. mState' \in States
    BY <2>1, <2>3 DEF States
  <2>5. frames' \in Seq(0 .. MaxRows) /\ Len(frames') \in 1 .. MaxFrames
    <3>1. frames \in Seq(0 .. MaxRows) /\ Len(frames) \in 1 .. MaxFrames
      BY DEF EncoderInv
    <3>2. CASE mState' = "processing"
      <4>1. Len(frames) < MaxFrames /\ frames' = Append(frames, 0)
        BY <2>1, <3>2
      <4>2. 0 \in 0 .. MaxRows
        OBVIOUS
      <4>3. Append(frames, 0) \in Seq(0 .. MaxRows) /\ Len(Append(frames, 0)) = Len(frames) + 1
        BY <3>1, <4>2
      <4> QED BY <3>1, <4>1, <4>3
    <3>3. CASE mState' # "processing"
      BY <2>1, <3>1, <3>3
    <3> QED BY <3>2, <3>3
  <2> QED BY <2>2, <2>4, <2>5 DEF EncoderInv, ContentSeq
<1>7. ASSUME Cancel
      PROVE  EncoderInv'
  <2>1. /\ mState' = "canceled"
        /\ UNCHANGED <<pc, mKind, frames, mCurrentLine, mCurrentImage, mObj, mObjects, held, chunk>>
    BY <1>7 DEF Cancel, streamVars, chunkVars, ticketVars, encoderVars, lineVars, pdfVars
  <2>2. mState' \in States
    BY <2>1 DEF States
  <2> QED BY <1>3, <2>1, <2>2
<1>8. ASSUME EndDocument
      PROVE  EncoderInv'
  <2>1. /\ pc' = "close" /\ pc \in {"loop", "thrown"}
        /\ UNCHANGED <<mKind, mState, frames, mCurrentLine, mCurrentImage, held>>
    BY <1>8 DEF EndDocument, ticketVars, jobVars, lineVars
  <2>2. mObj' \in Int
    <3>1. mObj' = mObj + 2 \/ mObj' = mObj
      BY <1>8 DEF EndDocument, PdfDocumentEnd, pdfVars
    <3> QED BY <3>1 DEF EncoderInv
  <2> QED BY <2>1, <2>2 DEF EncoderInv, ContentSeq, Places
<1>9. ASSUME CloseResponse
      PROVE  EncoderInv'
  <2>1. /\ pc' = "over" /\ chunk' = <<>>
        /\ UNCHANGED <<mKind, mState, frames, mCurrentLine, mCurrentImage, mObj, held>>
    BY <1>9 DEF CloseResponse, Close, Sync, ticketVars, jobVars, encoderVars, lineVars, pdfVars
  <2> QED BY <2>1 DEF EncoderInv, ContentSeq, Places
<1>10. ASSUME StreamStep
       PROVE  EncoderInv'
  <2>1. UNCHANGED <<pc, mState, mKind, frames, mCurrentLine, mCurrentImage, mObj, mObjects, held>>
    BY <1>10 DEF StreamStep, ticketVars, jobVars, encoderVars, lineVars, pdfVars
  <2>2. chunk' = chunk
    BY <1>10 DEF StreamStep, StreamNext, Put, PutFlush, Write, WriteFails, Return, chunkVars
  <2>3. mState \in States
    BY DEF EncoderInv
  <2> QED BY <1>3, <2>1, <2>2, <2>3
<1>11. ASSUME UNCHANGED vars
       PROVE  EncoderInv'
  <2>1. UNCHANGED <<pc, mState, mKind, frames, mCurrentLine, mCurrentImage, mObj, mObjects, held, chunk>>
    BY <1>11 DEF vars, streamVars, chunkVars, ticketVars, jobVars, encoderVars, lineVars, pdfVars
  <2>2. mState \in States
    BY DEF EncoderInv
  <2> QED BY <1>3, <2>1, <2>2
<1> QED BY <1>1, <1>2, <1>4, <1>5, <1>6, <1>7, <1>8, <1>9, <1>10, <1>11 DEF Next

(* At first the headers are on their way, and a flush behind them.          *)
LEMMA InitIInv ==
    ASSUME Init
    PROVE  IInv
<1> DEFINE x == Mark("head")
           y == Mark("flush")
           S == {Mark(t) : t \in Framing} \cup {Size(n) : n \in Nat}
<1>1. /\ payload = <<>> /\ chunk = <<>> /\ outbuf = <<>> /\ wire = <<>> /\ todo = <<x, y>>
      /\ call = "send" /\ mTotalWritten = 0
      /\ chunkBad = FALSE /\ streamBad = FALSE /\ syncing = FALSE
  BY DEF Init, StreamInit
<1>2. x \in S /\ y \in S /\ x.t = "head" /\ y.t = "flush"
  BY DEF Framing, Mark, Item
<1>3. ~IsContent(x) /\ ~IsContent(y)
  BY <1>2 DEF IsContent, Framing
<1>4. Over(S)
  <2>1. {Mark(t) : t \in Framing} \cup {Size(n) : n \in Nat} \subseteq S
    OBVIOUS
  <2> HIDE DEF x, y, S
  <2>2. <<x, y>> \in Seq(S) /\ <<>> \in Seq(S)
    BY <1>2
  <2> QED BY <1>1, <2>1, <2>2 DEF Over
<1> HIDE DEF x, y, S, IsContent
<1> DEFINE q == <<x, y>>
<1>5. Len(q) = 2 /\ q[1].t = "head" /\ q[2].t = "flush" /\ q # <<>>
  BY <1>2
<1>6. Whole = q
  BY <1>1 DEF Whole, Sent
<1>7. Content(q) = <<>>
  BY <1>3, ContentOfTwo
<1> HIDE DEF q
<1>8. BuffersInv
  <2>1. AllContent(<<>>) /\ NoFlush(<<>>)
    BY DEF AllContent, NoFlush
  <2>2. todo = q
    BY <1>1 DEF q
  <2>3. Flushed(q)
    BY <1>5 DEF Flushed
  <2>4. Len(outbuf) = 0
    BY <1>1
  <2>5. call \in Calls /\ call \notin {"none", "closed"}
    BY <1>1 DEF Calls
  <2>6. {chunkBad, streamBad, syncing} \subseteq BOOLEAN /\ ~chunkBad /\ ~streamBad /\ ~syncing
    BY <1>1
  <2>7. Flushed(todo) /\ AllContent(chunk) /\ NoFlush(wire) /\ NoFlush(outbuf)
    BY <1>1, <2>1, <2>2, <2>3
  <2>8. mTotalWritten \in Nat /\ outbuf = <<>> /\ Len(outbuf) <= OutbufSize /\ Len(outbuf) < OutbufSize
    BY <1>1, <2>4
  <2> HIDE DEF AllContent, NoFlush, Flushed
  <2> QED BY ONLY <2>5, <2>6, <2>7, <2>8 DEF BuffersInv
<1>9. DeliveredInv
  <2>1. Content(<<>>) = <<>> /\ IsPrefix(<<>>, <<>>)
    BY ContentEmpty DEF IsPrefix
  <2>2. <<>> \o <<>> = <<>>
    OBVIOUS
  <2>3. Content(Whole) = <<>>
    BY <1>6, <1>7
  <2> QED BY <1>1, <2>1, <2>2, <2>3 DEF DeliveredInv
<1>10. FramedInv
  <2>1. FramedSoFar(<<>>)
    BY DEF FramedSoFar
  <2>2. Framed(q)
    BY <1>5 DEF Framed
  <2> QED BY <1>1, <1>6, <2>1, <2>2 DEF FramedInv
<1>11. LastInv
  <2>1. NoLast(q) /\ LastOnly(q)
    BY <1>5 DEF NoLast, LastOnly
  <2> QED BY <1>1, <1>6, <2>1 DEF LastInv
<1>12. EncoderInv
  <2>1. /\ mKind \in {"single", "adfSingle", "adfConcat"}
        /\ mState = "processing" /\ pc = "loop" /\ mCurrentLine = 0 /\ mCurrentImage = 0
        /\ mObj \in Indeterminate /\ mObjects = <<>> /\ held = <<>> /\ frames = <<0>>
    BY DEF Init
  <2>2. frames \in Seq(0 .. MaxRows) /\ Len(frames) \in 1 .. MaxFrames
    BY <2>1
  <2>3. ContentSeq(<<>>)
    BY EncoderItems, ContentSeqSmall
  <2>4. \E R : mObjects \in Seq(R)
    BY <2>1
  <2>5. mObj \in Int
    BY <2>1
  <2>6. mCurrentLine \in 0 .. Height - 1 /\ mCurrentImage \in Nat
    BY <2>1
  <2>7. mState \in States /\ pc \in Places
    BY <2>1 DEF States, Places
  <2>8. chunk = <<>>
    BY <1>1
  <2> HIDE DEF ContentSeq
  <2> QED BY <2>1, <2>2, <2>3, <2>4, <2>5, <2>6, <2>7, <2>8 DEF EncoderInv
<1> QED BY <1>4, <1>8, <1>9, <1>10, <1>11, <1>12 DEF IInv

(* The inductive invariant.                                                 *)
LEMMA IInvInductive ==
    ASSUME IInv, [Next]_vars
    PROVE  IInv'
<1> HIDE DEF Next, vars, Over, BuffersInv, DeliveredInv, FramedInv, LastInv, EncoderInv, StreamAction
<1>1. PICK S : Over(S)
  BY DEF IInv
<1>2. BuffersInv /\ DeliveredInv /\ FramedInv /\ LastInv /\ EncoderInv
  BY DEF IInv
<1>3. StreamAction
  BY <1>2, NextIsStreamAction
<1>4. \E T : Over(T)'
  BY <1>1, <1>2, <1>3, OverInductive
<1>5. BuffersInv'
  BY <1>1, <1>2, <1>3, BuffersInductive
<1>6. DeliveredInv'
  BY <1>1, <1>2, <1>3, DeliveredInductive
<1>7. FramedInv'
  BY <1>1, <1>2, <1>3, <1>5, FramedInductive
<1>8. LastInv'
  BY <1>1, <1>2, <1>3, LastInductive
<1>9. EncoderInv'
  BY <1>2, EncoderInductive
<1>10. (\E T : Over(T))'
  BY <1>4 DEF Over
<1> QED BY <1>5, <1>6, <1>7, <1>8, <1>9, <1>10 DEF IInv

(* It holds always: whatever is inserted reaches the wire by way of the      *)
(* three buffers, and none of the calls changes their concatenation.        *)
THEOREM Accounting == Spec => []IInv
<1>1. Init => IInv
  BY InitIInv
<1>2. IInv /\ [Next]_vars => IInv'
  BY IInvInductive
<1> QED BY <1>1, <1>2, PTL DEF Spec

(* The encoder and the stream keep their types, and fdbuf never holds more  *)
(* than its size, whatever it is and however little write() takes.          *)
THEOREM TypeCorrect == Spec => []TypeOK
<1>1. IInv => TypeOK
  <2> SUFFICES ASSUME IInv
               PROVE  TypeOK
    OBVIOUS
  <2>1. PICK S : outbuf \in Seq(S)
    BY DEF IInv, Over
  <2>2. Len(outbuf) \in 0 .. OutbufSize
    <3>1. Len(outbuf) \in Nat
      BY <2>1
    <3> QED BY <3>1 DEF IInv, BuffersInv
  <2>3. call \in Calls /\ {chunkBad, streamBad, syncing} \subseteq BOOLEAN
    BY DEF IInv, BuffersInv
  <2>4. EncoderInv
    BY DEF IInv
  <2> QED BY <2>2, <2>3, <2>4 DEF TypeOK, EncoderInv, Calls, States, Places
<1> QED BY <1>1, Accounting, PTL

(* What the client has is a beginning of the document, in chunks as long as *)
(* they say, for every size of the buffer, every partial write and every    *)
(* moment of a failure (fdbuf::sync, chunkbuf::sync).                       *)
THEOREM WellFramedHolds == Spec => []WellFramed
<1>1. IInv => WellFramed
  <2> SUFFICES ASSUME IInv
               PROVE  WellFramed
    OBVIOUS
  <2> HIDE DEF IsContent
  <2>1. IsPrefix(Received, payload)
    BY DEF IInv, DeliveredInv, Received
  <2>2. FramedSoFar(wire)
    BY DEF IInv, FramedInv
  <2>3. PICK S : wire \in Seq(S)
    BY DEF IInv, Over
  <2>4. Len(wire) \in Nat
    BY <2>3
  <2>5. ASSUME NEW i \in 1 .. Len(wire), wire[i].t = "size", NEW end, end = i + wire[i].a + 1
        PROVE  /\ \A j \in i + 1 .. end - 1 : j <= Len(wire) => IsContent(wire[j])
               /\ end <= Len(wire) => wire[end].t = "crlf"
               /\ end + 1 <= Len(wire) => wire[end + 1].t \in {"size", "last"}
    <3> DEFINE m == wire[i].a
    <3>1. /\ m \in Nat
          /\ \A j \in i + 1 .. i + m : j <= Len(wire) => IsContent(wire[j])
          /\ i + m + 1 <= Len(wire) => wire[i + m + 1].t = "crlf"
          /\ i + m + 2 <= Len(wire) => wire[i + m + 2].t \in {"size", "last"}
      BY <2>2, <2>5 DEF FramedSoFar
    <3>2. end = i + m + 1
      BY <2>5
    <3> HIDE DEF m
    <3>3. end - 1 = i + m /\ end + 1 = i + m + 2
      BY <2>4, <3>1, <3>2
    <3> QED BY <3>1, <3>2, <3>3
  <2> QED BY <2>1, <2>5 DEF WellFramed
<1> QED BY <1>1, Accounting, PTL

(* When the loop goes on after a flush, the socket has accepted everything  *)
(* written so far (finishTransfer).                                         *)
THEOREM FlushedIsDeliveredHolds == Spec => []FlushedIsDelivered
<1>1. IInv => FlushedIsDelivered
  <2> SUFFICES ASSUME IInv, pc = "loop", call = "none", ~streamBad
               PROVE  Received = payload
    BY DEF FlushedIsDelivered, Free
  <2>1. PICK S : wire \in Seq(S)
    BY DEF IInv, Over
  <2>2. chunk = <<>>
    BY DEF IInv, EncoderInv
  <2>3. todo = <<>> /\ outbuf = <<>>
    BY DEF IInv, BuffersInv
  <2>4. payload = Content(Whole) \o chunk
    BY DEF IInv, DeliveredInv
  <2>5. (wire \o <<>>) \o <<>> = wire
    BY <2>1
  <2>6. Whole = wire
    BY <2>3, <2>5 DEF Whole, Sent
  <2>7. Content(wire) \in Seq(S)
    BY <2>1, ContentType
  <2>8. Content(wire) \o <<>> = Content(wire)
    BY ONLY <2>7, ConcatEmptySeq
  <2> QED BY <2>2, <2>4, <2>6, <2>8 DEF Received
<1> QED BY <1>1, Accounting, PTL

(* A client that sees the last chunk has the document to its end, and       *)
(* nothing comes after it (chunkbuf::~chunkbuf).                            *)
THEOREM LastChunkMeansAllHolds == Spec => []LastChunkMeansAll
<1>1. IInv => LastChunkMeansAll
  <2> SUFFICES ASSUME IInv, Mark("last") \in Range(wire)
               PROVE  Received = payload /\ Last(wire) = Mark("last")
    BY DEF LastChunkMeansAll
  <2> HIDE DEF IsContent
  <2>1. PICK S : Over(S)
    BY DEF IInv
  <2>2. wire \in Seq(S) /\ outbuf \in Seq(S) /\ todo \in Seq(S)
    BY <2>1 DEF Over
  <2>3. PICK i \in 1 .. Len(wire) : wire[i] = Mark("last")
    BY <2>2 DEF Range
  <2>4. wire[i].t = "last"
    BY <2>3 DEF Mark, Item
  <2>5. ~NoLast(wire)
    BY <2>4 DEF NoLast
  <2>6. ~streamBad /\ LastOnly(Whole)
    BY <2>5 DEF IInv, LastInv
  <2>7. NoFlush(wire) /\ NoFlush(outbuf) /\ Flushed(todo)
    BY DEF IInv, BuffersInv
  <2>8. LastOnly((wire \o outbuf) \o todo)
    BY <2>6 DEF Whole, Sent
  <2>9. i = Len(wire) /\ outbuf = <<>> /\ \A j \in 1 .. Len(todo) : todo[j].t = "flush"
    BY ONLY <2>2, <2>4, <2>7, <2>8, LastArrives
  <2>10. Whole = wire \o todo
    <3>1. wire \o <<>> = wire
      BY <2>2
    <3> QED BY <2>9, <3>1 DEF Whole, Sent
  <2>11. chunk = <<>>
    <3>1. ~NoLast(wire \o todo)
      <4>1. /\ Len(wire) \in Nat /\ Len(todo) \in Nat
            /\ Len(wire \o todo) = Len(wire) + Len(todo) /\ (wire \o todo)[i] = wire[i]
        BY ONLY <2>2, i \in 1 .. Len(wire), ConcatElements
      <4>2. i \in 1 .. Len(wire \o todo)
        BY <4>1
      <4> QED BY <2>4, <4>1, <4>2 DEF NoLast
    <3> QED BY <2>6, <2>10, <3>1 DEF IInv, LastInv
  <2>12. Content(todo) = <<>>
    <3>1. Len(todo) \in Nat
      BY <2>2
    <3>2. Len(todo) <= 1
      <4> SUFFICES ASSUME Len(todo) > 1
                   PROVE  FALSE
        BY <3>1
      <4>1. 1 \in 1 .. Len(todo) /\ 2 \in 1 .. Len(todo) /\ 1 \in 1 .. Len(todo) - 1 /\ 1 + 1 = 2
        BY <3>1
      <4>2. todo[1].t = "flush" /\ todo[2].t = "flush"
        BY <2>9, <4>1
      <4> QED BY <2>7, <4>1, <4>2 DEF Flushed
    <3>3. CASE todo = <<>>
      BY <3>3, ContentEmpty
    <3>4. CASE todo # <<>>
      <4>1. Len(todo) = 1
        <5>1. Len(todo) # 0
          BY <2>2, <3>4, EmptySeq
        <5> DEFINE n == Len(todo)
        <5>2. n \in Nat /\ n <= 1 /\ n # 0
          BY <3>1, <3>2, <5>1
        <5> HIDE DEF n
        <5>3. n = 1
          BY ONLY <5>2
        <5> QED BY <5>3 DEF n
      <4>2. todo = <<todo[1]>>
        BY <2>2, <4>1
      <4>3. todo[1].t = "flush"
        BY <2>9, <4>1
      <4>4. ~IsContent(todo[1])
        BY <4>3 DEF IsContent, Framing
      <4>5. Content(<<todo[1]>>) = <<>>
        BY <4>4, ContentSingle
      <4> QED BY <4>2, <4>5
    <3> QED BY <3>3, <3>4
  <2>13. payload = Content(Whole) \o chunk
    BY <2>6 DEF IInv, DeliveredInv
  <2>14. Content(wire) \in Seq(S) /\ Content(wire \o todo) = Content(wire) \o Content(todo)
    BY <2>2, ContentType, ContentConcat
  <2>15. Content(wire) \o <<>> = Content(wire)
    BY ONLY <2>14, ConcatEmptySeq
  <2>16. Received = payload
    BY <2>10, <2>11, <2>12, <2>13, <2>14, <2>15 DEF Received
  <2>17. Last(wire) = Mark("last")
    BY <2>3, <2>9 DEF Last
  <2> QED BY <2>16, <2>17
<1> QED BY <1>1, Accounting, PTL

-----------------------------------------------------------------------------
(* The objects of a PDF: what has been defined, and where.                  *)

ObjDef == [id : Int, offset : Int]

(* The length of a function on the first n numbers.                         *)
LEMMA NumberedLen ==
    ASSUME NEW n \in Nat, NEW R, NEW f \in [1 .. n -> R]
    PROVE  f \in Seq(R) /\ Len(f) = n /\ DOMAIN f = 1 .. n
OBVIOUS

\* h is f on the first n numbers and goes on with g.
GoesOn(h, f, n, g, m) ==
    /\ h = [k \in 1 .. n + m |-> h[k]]
    /\ \A k \in 1 .. n : h[k] = f[k]
    /\ \A k \in 1 .. m : h[n + k] = g[k]

(* Two functions on the first n numbers.                                    *)
LEMMA NumberedConcat ==
    ASSUME NEW n \in Nat, NEW m \in Nat, NEW R, NEW f \in [1 .. n -> R], NEW g \in [1 .. m -> R],
           NEW h, GoesOn(h, f, n, g, m)
    PROVE  h = f \o g
<1>1. f \in Seq(R) /\ Len(f) = n /\ g \in Seq(R) /\ Len(g) = m
  BY NumberedLen
<1> USE DEF GoesOn
<1> DEFINE v == f \o g
<1>2. v \in Seq(R) /\ Len(v) = n + m /\ \A k \in 1 .. n : v[k] = f[k]
  BY ONLY n \in Nat, m \in Nat, <1>1, ConcatElements
<1>3. \A k \in 1 .. m : v[n + k] = g[k]
  BY ONLY n \in Nat, m \in Nat, <1>1, ConcatElements
<1> HIDE DEF v
<1>4. v = [k \in 1 .. n + m |-> v[k]]
  BY <1>2
<1>5. ASSUME NEW k \in 1 .. n + m
      PROVE  h[k] = v[k]
  <2>1. CASE k \in 1 .. n
    BY <1>2, <2>1
  <2>2. CASE k \notin 1 .. n
    <3>1. k - n \in 1 .. m /\ n + (k - n) = k
      BY <2>2
    <3> QED BY <1>3, <3>1
  <2> QED BY <2>1, <2>2
<1>6. [k \in 1 .. n + m |-> h[k]] = [k \in 1 .. n + m |-> v[k]]
  BY <1>5
<1> QED BY <1>4, <1>6 DEF v

(* The definitions in two pieces of a document.                             *)
LEMMA DefobjConcat ==
    ASSUME NEW T, NEW s \in Seq(T), NEW t \in Seq(T), NEW at \in Int
    PROVE  Defobj(s \o t, at) = Defobj(s, at) \o Defobj(t, at + Len(s))
<1> DEFINE Def(x, k, a) == [id |-> x[k].a, offset |-> a + k - 1]
           u == s \o t
           ds == [k \in 1 .. Len(s) |-> Def(s, k, at)]
           dt == [k \in 1 .. Len(t) |-> Def(t, k, at + Len(s))]
           du == [k \in 1 .. Len(u) |-> Def(u, k, at)]
           a1 == {k \in 1 .. Len(s) : s[k].t \in PdfObjects}
           bs == {k \in 1 .. Len(t) : t[k].t \in PdfObjects}
           cs == {k \in 1 .. Len(u) : u[k].t \in PdfObjects}
           R == {ds[k] : k \in 1 .. Len(s)} \cup {dt[k] : k \in 1 .. Len(t)}
<1>1. /\ u \in Seq(T) /\ Len(s) \in Nat /\ Len(t) \in Nat /\ Len(u) = Len(s) + Len(t)
      /\ \A k \in 1 .. Len(s) : u[k] = s[k]
      /\ \A k \in 1 .. Len(t) : u[Len(s) + k] = t[k]
  BY ConcatElements
<1> HIDE DEF u
<1>2. /\ ds \in [1 .. Len(s) -> R] /\ dt \in [1 .. Len(t) -> R]
      /\ \A k \in 1 .. Len(s) : ds[k] = Def(s, k, at)
      /\ \A k \in 1 .. Len(t) : dt[k] = Def(t, k, at + Len(s))
      /\ \A k \in 1 .. Len(u) : du[k] = Def(u, k, at)
      /\ DOMAIN du = 1 .. Len(u)
  <2> HIDE DEF Def
  <2> QED OBVIOUS
<1>3. \A k \in 1 .. Len(s) : Def(u, k, at) = Def(s, k, at)
  BY <1>1
<1>4. \A k \in 1 .. Len(t) : Def(u, Len(s) + k, at) = Def(t, k, at + Len(s))
  BY <1>1
<1>5. Defobj(s, at) = Pick(ds, a1) /\ Defobj(t, at + Len(s)) = Pick(dt, bs) /\ Defobj(u, at) = Pick(du, cs)
  BY Zenon DEF Defobj
<1> HIDE DEF ds, dt, R, Def
<1>6. ds \in Seq(R) /\ Len(ds) = Len(s) /\ dt \in Seq(R) /\ Len(dt) = Len(t)
  <2> DEFINE n == Len(s)
             m == Len(t)
  <2>1. n \in Nat /\ m \in Nat /\ ds \in [1 .. n -> R] /\ dt \in [1 .. m -> R]
    BY <1>1, <1>2
  <2> HIDE DEF n, m
  <2>2. ds \in Seq(R) /\ Len(ds) = n /\ dt \in Seq(R) /\ Len(dt) = m
    BY ONLY <2>1, NumberedLen
  <2> QED BY <2>2 DEF n, m
<1>7. du = ds \o dt
  <2> DEFINE n == Len(s)
             m == Len(t)
  <2>1. n \in Nat /\ m \in Nat /\ ds \in [1 .. n -> R] /\ dt \in [1 .. m -> R]
    BY <1>1, <1>2
  <2>2. du = [k \in 1 .. n + m |-> du[k]]
    BY <1>1, <1>2
  <2>3. \A k \in 1 .. n : du[k] = ds[k]
    <3> HIDE DEF du
    <3> QED BY <1>1, <1>2, <1>3
  <2>4. \A k \in 1 .. m : du[n + k] = dt[k]
    <3>1. \A k \in 1 .. m : n + k \in 1 .. Len(u)
      BY <1>1
    <3> HIDE DEF du
    <3> QED BY <1>2, <1>4, <3>1
  <2> HIDE DEF n, m, du
  <2>5. GoesOn(du, ds, n, dt, m)
    BY <2>2, <2>3, <2>4 DEF GoesOn
  <2> QED BY ONLY <2>1, <2>5, NumberedConcat
<1> HIDE DEF du
<1>8. Positions(Len(ds), 0, cs, a1) /\ Positions(Len(dt), Len(ds), cs, bs)
  BY <1>1, <1>6 DEF Positions
<1> HIDE DEF a1, bs, cs
<1>9. Pick(ds \o dt, cs) = Pick(ds, a1) \o Pick(dt, bs)
  <2>1. ds \in Seq(R) /\ dt \in Seq(R)
    BY <1>6
  <2> QED BY ONLY <1>8, <2>1, PickConcat
<1> QED BY <1>5, <1>7, <1>9 DEF u

(* Pieces without a definition, and one that is a definition.               *)
LEMMA DefobjNone ==
    ASSUME NEW T, NEW s \in Seq(T), NEW at \in Int, \A k \in 1 .. Len(s) : s[k].t \notin PdfObjects
    PROVE  Defobj(s, at) = <<>>
<1> DEFINE d == [k \in 1 .. Len(s) |-> [id |-> s[k].a, offset |-> at + k - 1]]
           a1 == {k \in 1 .. Len(s) : s[k].t \in PdfObjects}
           R == {d[k] : k \in 1 .. Len(s)}
<1>1. Len(s) \in Nat /\ d \in [1 .. Len(s) -> R]
  <2>1. Len(s) \in Nat
    OBVIOUS
  <2>2. d \in [1 .. Len(s) -> R]
    OBVIOUS
  <2> QED BY <2>1, <2>2
<1>2. \A k \in 1 .. Len(s) : k \notin a1
  OBVIOUS
<1>3. Defobj(s, at) = Pick(d, a1)
  BY Zenon DEF Defobj
<1> HIDE DEF d, a1, R
<1>4. d \in Seq(R) /\ Len(d) = Len(s)
  BY <1>1
<1> QED BY <1>2, <1>3, <1>4, PickNone

(* One definition.                                                          *)
LEMMA DefobjOne ==
    ASSUME NEW S, NEW s \in Seq(S), Len(s) = 1, NEW at \in Int,
           s[1].t \in PdfObjects, s[1].a \in Int
    PROVE  /\ Defobj(s, at) \in Seq(ObjDef) /\ Len(Defobj(s, at)) = 1
           /\ Defobj(s, at)[1] = [id |-> s[1].a, offset |-> at]
<1> DEFINE d == [k \in 1 .. Len(s) |-> [id |-> s[k].a, offset |-> at + k - 1]]
           a1 == {k \in 1 .. Len(s) : s[k].t \in PdfObjects}
<1>1. Defobj(s, at) = Pick(d, a1)
  BY Zenon DEF Defobj
<1>2. d \in Seq(ObjDef) /\ Len(d) = 1 /\ d[1] = [id |-> s[1].a, offset |-> at]
  BY DEF ObjDef
<1>3. 1 .. 1 \subseteq a1
  OBVIOUS
<1> HIDE DEF d, a1
<1>4. Pick(d, a1) = d
  BY <1>2, <1>3, PickAll
<1> QED BY <1>1, <1>2, <1>4

\* The definition of object n in a document p, by the list of objects.
Definition(p, objs, n) == p[objs[n - 1].offset + 1]

\* Objects are listed by their numbers, from 2, and each is found at its offset.
Defined(p, objs) ==
    \A n \in 2 .. Len(objs) + 1 :
       /\ objs[n - 1].id = n /\ objs[n - 1].offset \in 0 .. Len(p) - 1
       /\ Definition(p, objs, n).t \in PdfObjects /\ Definition(p, objs, n).a = n

\* Every image has three objects: a page, which names the other two, the image
\* and, once it is complete, the contents.  open is 1 inside an image.
Pages(p, objs, images, open) ==
    /\ \A n \in 1 .. images + open :
          /\ Definition(p, objs, 3 * n - 1) = Item("page", 3 * n - 1, 3 * n + 1, 3 * n)
          /\ Definition(p, objs, 3 * n).t = "image"
    /\ \A n \in 1 .. images : Definition(p, objs, 3 * n + 1).t = "contents"

\* The end has not been written.
NoEnd(p) == \A i \in 1 .. Len(p) : p[i].t \notin {"xref", "kid"}

Layout(p, objs, images, open) ==
    /\ Len(objs) = 3 * images + 2 * open
    /\ NoEnd(p) /\ Defined(p, objs) /\ Pages(p, objs, images, open)

\* The definition of image n, and the lines of its scan after it.
ImageAt(objs, n) == objs[3 * n - 1].offset + 1
LinesAt(p, i, n, lines) ==
    i + lines <= Len(p) /\ \A l \in 1 .. lines : p[i + l] = Item("line", n, l, 0)

\* The images hold the lines of their scans, the last one as many as it has.
Complete(p, objs, n) ==
    /\ LinesAt(p, ImageAt(objs, n), n, Height)
    /\ ImageAt(objs, n) + Height + 1 <= Len(p)
    /\ p[ImageAt(objs, n) + Height + 1].t = "endstream"
Images(p, objs, images, lines, open) ==
    /\ \A n \in 1 .. images : Complete(p, objs, n)
    /\ open = 1 => /\ Len(p) = ImageAt(objs, images + 1) + lines
                  /\ LinesAt(p, ImageAt(objs, images + 1), images + 1, lines)

Extends(s, t) == Len(s) <= Len(t) /\ \A i \in 1 .. Len(s) : t[i] = s[i]

(* Definitions stay where they are.                                         *)
LEMMA DefinitionsKept ==
    ASSUME NEW S, NEW p \in Seq(S), NEW q \in Seq(S), Extends(p, q),
           NEW objs \in Seq(ObjDef), NEW more \in Seq(ObjDef), Extends(objs, more),
           Defined(p, objs)
    PROVE  \A n \in 2 .. Len(objs) + 1 :
              /\ more[n - 1] = objs[n - 1] /\ Definition(q, more, n) = Definition(p, objs, n)
              /\ objs[n - 1].offset \in Nat /\ objs[n - 1].offset < Len(p)
<1> SUFFICES ASSUME NEW n \in 2 .. Len(objs) + 1
             PROVE  /\ more[n - 1] = objs[n - 1] /\ Definition(q, more, n) = Definition(p, objs, n)
                    /\ objs[n - 1].offset \in Nat /\ objs[n - 1].offset < Len(p)
  OBVIOUS
<1>1. Len(p) \in Nat /\ Len(objs) \in Nat /\ n - 1 \in 1 .. Len(objs)
  OBVIOUS
<1>2. more[n - 1] = objs[n - 1]
  BY <1>1 DEF Extends
<1> DEFINE o == objs[n - 1].offset
<1>3. o \in 0 .. Len(p) - 1
  BY DEF Defined
<1> HIDE DEF o
<1>4. o \in Nat /\ o < Len(p) /\ o + 1 \in 1 .. Len(p)
  BY <1>1, <1>3
<1>5. q[o + 1] = p[o + 1]
  BY <1>4 DEF Extends
<1> QED BY <1>2, <1>4, <1>5 DEF Definition, o

(* A piece that defines nothing, before or inside an image.                 *)
LEMMA LayoutPiece ==
    ASSUME NEW S, NEW p \in Seq(S), NEW q \in Seq(S), Extends(p, q),
           NEW objs \in Seq(ObjDef), NEW images \in Nat, NEW open \in 0 .. 1,
           Layout(p, objs, images, open),
           Len(q) = Len(p) + 1, q[Len(p) + 1].t \notin {"xref", "kid"}
    PROVE  Layout(q, objs, images, open)
<1>1. Len(p) \in Nat /\ Len(objs) \in Nat /\ Len(objs) = 3 * images + 2 * open
  BY DEF Layout
<1>2. \A n \in 2 .. Len(objs) + 1 :
         /\ Definition(q, objs, n) = Definition(p, objs, n)
         /\ objs[n - 1].offset \in Nat /\ objs[n - 1].offset < Len(p)
  <2>1. Extends(objs, objs) /\ Defined(p, objs)
    BY <1>1 DEF Extends, Layout
  <2> QED BY <2>1, DefinitionsKept
<1>3. NoEnd(q)
  BY <1>1 DEF NoEnd, Layout, Extends
<1>4. Defined(q, objs)
  BY <1>1, <1>2 DEF Defined, Layout
<1>5. Pages(q, objs, images, open)
  <2>1. ASSUME NEW n \in 1 .. images + open
        PROVE  3 * n - 1 \in 2 .. Len(objs) + 1 /\ 3 * n \in 2 .. Len(objs) + 1
    BY <1>1
  <2>2. ASSUME NEW n \in 1 .. images
        PROVE  3 * n + 1 \in 2 .. Len(objs) + 1
    BY <1>1
  <2> QED BY <1>2, <2>1, <2>2 DEF Pages, Layout
<1> QED BY <1>1, <1>3, <1>4, <1>5 DEF Layout

(* Two pieces more.                                                         *)
LEMMA NoEndPiece ==
    ASSUME NEW S, NEW p \in Seq(S), NEW q \in Seq(S), Extends(p, q), NoEnd(p), Len(q) = Len(p) + 2,
           q[Len(p) + 1].t \notin {"xref", "kid"}, q[Len(p) + 2].t \notin {"xref", "kid"}
    PROVE  NoEnd(q)
<1> SUFFICES ASSUME NEW i \in 1 .. Len(q)
             PROVE  q[i].t \notin {"xref", "kid"}
  BY DEF NoEnd
<1>1. Len(p) \in Nat
  OBVIOUS
<1>2. CASE i \in 1 .. Len(p)
  BY <1>2 DEF NoEnd, Extends
<1>3. CASE i \notin 1 .. Len(p)
  <2>1. i = Len(p) + 1 \/ i = Len(p) + 2
    BY <1>1, <1>3
  <2> QED BY <2>1
<1> QED BY <1>2, <1>3

(* The beginning of an image: its page and the image itself.                *)
LEMMA LayoutBegin ==
    ASSUME NEW S, NEW p \in Seq(S), NEW q \in Seq(S), Extends(p, q),
           NEW objs \in Seq(ObjDef), NEW more \in Seq(ObjDef), Extends(objs, more),
           NEW images \in Nat, Layout(p, objs, images, 0), NEW o, o = 3 * images + 1,
           Len(q) = Len(p) + 2, q[Len(p) + 1] = Item("page", o + 1, o + 3, o + 2),
           q[Len(p) + 2] = Item("image", o + 2, 0, 0),
           Len(more) = Len(objs) + 2, more[Len(objs) + 1] = [id |-> o + 1, offset |-> Len(p)],
           more[Len(objs) + 2] = [id |-> o + 2, offset |-> Len(p) + 1]
    PROVE  Layout(q, more, images, 1)
<1>1. /\ Len(p) \in Nat /\ Len(objs) \in Nat /\ Len(objs) = 3 * images
      /\ o = Len(objs) + 1
  BY DEF Layout
<1>2. \A n \in 2 .. Len(objs) + 1 :
         /\ more[n - 1] = objs[n - 1] /\ Definition(q, more, n) = Definition(p, objs, n)
         /\ objs[n - 1].offset \in Nat /\ objs[n - 1].offset < Len(p)
  <2>1. Defined(p, objs)
    BY DEF Layout
  <2> QED BY <2>1, DefinitionsKept
<1>3. /\ more[(o + 1) - 1].id = o + 1 /\ more[(o + 1) - 1].offset = Len(p)
      /\ more[(o + 2) - 1].id = o + 2 /\ more[(o + 2) - 1].offset = Len(p) + 1
  <2>1. (o + 1) - 1 = Len(objs) + 1 /\ (o + 2) - 1 = Len(objs) + 2
    BY <1>1
  <2> QED BY <2>1
<1>4. /\ Definition(q, more, o + 1) = Item("page", o + 1, o + 3, o + 2)
      /\ Definition(q, more, o + 2) = Item("image", o + 2, 0, 0)
  <2>1. Len(p) + 1 + 1 = Len(p) + 2
    BY <1>1
  <2> QED BY <1>3, <2>1 DEF Definition
<1>5. NoEnd(q)
  <2>1. q[Len(p) + 1].t = "page" /\ q[Len(p) + 2].t = "image"
    BY DEF Item
  <2>2. NoEnd(p)
    BY DEF Layout
  <2> QED BY <1>1, <2>1, <2>2, NoEndPiece
<1>6. Defined(q, more)
  <2> SUFFICES ASSUME NEW n \in 2 .. Len(more) + 1
               PROVE  /\ more[n - 1].id = n /\ more[n - 1].offset \in 0 .. Len(q) - 1
                      /\ Definition(q, more, n).t \in PdfObjects /\ Definition(q, more, n).a = n
    BY DEF Defined
  <2>1. CASE n \in 2 .. Len(objs) + 1
    <3>1. /\ objs[n - 1].id = n
          /\ Definition(p, objs, n).t \in PdfObjects /\ Definition(p, objs, n).a = n
      BY <2>1 DEF Defined, Layout
    <3>2. /\ more[n - 1] = objs[n - 1] /\ Definition(q, more, n) = Definition(p, objs, n)
          /\ objs[n - 1].offset \in Nat /\ objs[n - 1].offset < Len(p)
      BY <1>2, <2>1
    <3> QED BY <1>1, <3>1, <3>2
  <2>2. CASE n = o + 1
    BY <1>1, <1>3, <1>4, <2>2 DEF Item, PdfObjects
  <2>3. CASE n = o + 2
    BY <1>1, <1>3, <1>4, <2>3 DEF Item, PdfObjects
  <2>4. n \in 2 .. Len(objs) + 1 \/ n = o + 1 \/ n = o + 2
    BY ONLY <1>1, Len(more) = Len(objs) + 2, n \in 2 .. Len(more) + 1
  <2> QED BY ONLY <2>1, <2>2, <2>3, <2>4
<1>7. Pages(q, more, images, 1)
  <2>1. ASSUME NEW n \in 1 .. images
        PROVE  /\ 3 * n - 1 \in 2 .. Len(objs) + 1 /\ 3 * n \in 2 .. Len(objs) + 1
               /\ 3 * n + 1 \in 2 .. Len(objs) + 1 /\ n \in 1 .. images + 0
    BY ONLY <1>1, n \in 1 .. images, images \in Nat
  <2>2. ASSUME NEW n \in 1 .. images + 1
        PROVE  /\ Definition(q, more, 3 * n - 1) = Item("page", 3 * n - 1, 3 * n + 1, 3 * n)
               /\ Definition(q, more, 3 * n).t = "image"
    <3>1. CASE n \in 1 .. images
      BY <1>2, <2>1, <3>1 DEF Pages, Layout
    <3>2. CASE n = images + 1
      <4>1. 3 * n - 1 = o + 1 /\ 3 * n = o + 2 /\ 3 * n + 1 = o + 3
        BY <3>2
      <4>2. Item("image", o + 2, 0, 0).t = "image"
        BY DEF Item
      <4> QED BY ONLY <1>4, <4>1, <4>2
    <3> QED BY <3>1, <3>2
  <2>3. \A n \in 1 .. images : Definition(q, more, 3 * n + 1).t = "contents"
    BY <1>2, <2>1 DEF Pages, Layout
  <2> QED BY <2>2, <2>3 DEF Pages
<1> QED BY <1>1, <1>5, <1>6, <1>7 DEF Layout

(* The end of an image, and its contents.                                   *)
LEMMA LayoutEnd ==
    ASSUME NEW S, NEW p \in Seq(S), NEW q \in Seq(S), Extends(p, q),
           NEW objs \in Seq(ObjDef), NEW more \in Seq(ObjDef), Extends(objs, more),
           NEW images \in Nat, Layout(p, objs, images, 1), NEW o, o = 3 * images + 3,
           Len(q) = Len(p) + 2, q[Len(p) + 1] = Mark("endstream"),
           q[Len(p) + 2] = Item("contents", o + 1, 0, 0),
           Len(more) = Len(objs) + 1, more[Len(objs) + 1] = [id |-> o + 1, offset |-> Len(p) + 1]
    PROVE  Layout(q, more, images + 1, 0)
<1>1. /\ Len(p) \in Nat /\ Len(objs) \in Nat /\ Len(objs) = 3 * images + 2
      /\ o = Len(objs) + 1
  BY DEF Layout
<1>2. \A n \in 2 .. Len(objs) + 1 :
         /\ more[n - 1] = objs[n - 1] /\ Definition(q, more, n) = Definition(p, objs, n)
         /\ objs[n - 1].offset \in Nat /\ objs[n - 1].offset < Len(p)
  <2>1. Defined(p, objs)
    BY DEF Layout
  <2> QED BY <2>1, DefinitionsKept
<1>3. more[(o + 1) - 1].id = o + 1 /\ more[(o + 1) - 1].offset = Len(p) + 1
  <2>1. (o + 1) - 1 = Len(objs) + 1
    BY <1>1
  <2> QED BY <2>1
<1>4. Definition(q, more, o + 1) = Item("contents", o + 1, 0, 0)
  <2>1. Len(p) + 1 + 1 = Len(p) + 2
    BY <1>1
  <2> QED BY <1>3, <2>1 DEF Definition
<1>5. NoEnd(q)
  <2>1. q[Len(p) + 1].t = "endstream" /\ q[Len(p) + 2].t = "contents"
    BY DEF Item, Mark
  <2>2. NoEnd(p)
    BY DEF Layout
  <2> QED BY <1>1, <2>1, <2>2, NoEndPiece
<1>6. Defined(q, more)
  <2> SUFFICES ASSUME NEW n \in 2 .. Len(more) + 1
               PROVE  /\ more[n - 1].id = n /\ more[n - 1].offset \in 0 .. Len(q) - 1
                      /\ Definition(q, more, n).t \in PdfObjects /\ Definition(q, more, n).a = n
    BY DEF Defined
  <2>1. CASE n \in 2 .. Len(objs) + 1
    <3>1. /\ objs[n - 1].id = n
          /\ Definition(p, objs, n).t \in PdfObjects /\ Definition(p, objs, n).a = n
      BY <2>1 DEF Defined, Layout
    <3>2. /\ more[n - 1] = objs[n - 1] /\ Definition(q, more, n) = Definition(p, objs, n)
          /\ objs[n - 1].offset \in Nat /\ objs[n - 1].offset < Len(p)
      BY <1>2, <2>1
    <3> QED BY <1>1, <3>1, <3>2
  <2>2. CASE n = o + 1
    BY <1>1, <1>3, <1>4, <2>2 DEF Item, PdfObjects
  <2> QED BY <1>1, <2>1, <2>2
<1>7. Pages(q, more, images + 1, 0)
  <2>1. ASSUME NEW n \in 1 .. images + 1
        PROVE  /\ 3 * n - 1 \in 2 .. Len(objs) + 1 /\ 3 * n \in 2 .. Len(objs) + 1
               /\ n \in 1 .. images => 3 * n + 1 \in 2 .. Len(objs) + 1
               /\ n \notin 1 .. images => 3 * n + 1 = o + 1
    BY <1>1
  <2>2. \A n \in 1 .. images + 1 :
           /\ Definition(q, more, 3 * n - 1) = Item("page", 3 * n - 1, 3 * n + 1, 3 * n)
           /\ Definition(q, more, 3 * n).t = "image"
    BY <1>2, <2>1 DEF Pages, Layout
  <2>3. ASSUME NEW n \in 1 .. images + 1
        PROVE  Definition(q, more, 3 * n + 1).t = "contents"
    <3>1. CASE n \in 1 .. images
      BY <1>2, <2>1, <3>1 DEF Pages, Layout
    <3>2. CASE n \notin 1 .. images
      <4>1. Item("contents", o + 1, 0, 0).t = "contents"
        BY DEF Item
      <4>2. 3 * n + 1 = o + 1
        BY <2>1, <3>2
      <4> QED BY ONLY <1>4, <4>1, <4>2
    <3> QED BY <3>1, <3>2
  <2>4. images + 1 + 0 = images + 1
    OBVIOUS
  <2> QED BY <2>2, <2>3, <2>4 DEF Pages
<1> QED BY <1>1, <1>5, <1>6, <1>7 DEF Layout

(* Lines stay where they are.                                               *)
LEMMA LinesKept ==
    ASSUME NEW S, NEW p \in Seq(S), NEW q \in Seq(S), Extends(p, q), NEW i \in Nat, NEW n,
           NEW lines \in Nat, LinesAt(p, i, n, lines)
    PROVE  LinesAt(q, i, n, lines)
<1>1. Len(p) \in Nat /\ Len(q) \in Nat
  OBVIOUS
<1>2. ASSUME NEW l \in 1 .. lines
      PROVE  q[i + l] = Item("line", n, l, 0)
  <2>1. i + l \in 1 .. Len(p)
    BY <1>1 DEF LinesAt
  <2>2. q[i + l] = p[i + l]
    BY <2>1 DEF Extends
  <2> QED BY <2>2 DEF LinesAt
<1>3. i + lines <= Len(q)
  BY <1>1 DEF LinesAt, Extends
<1> QED BY <1>2, <1>3 DEF LinesAt

(* The place of an image is one of the document, and does not change.       *)
LEMMA ImageAtKept ==
    ASSUME NEW S, NEW p \in Seq(S), NEW objs \in Seq(ObjDef), NEW more \in Seq(ObjDef), Extends(objs, more),
           NEW images \in Nat, NEW open \in 0 .. 1, Layout(p, objs, images, open),
           NEW n \in 1 .. images + open
    PROVE  ImageAt(objs, n) \in 1 .. Len(p) /\ ImageAt(more, n) = ImageAt(objs, n)
<1>1. 3 * n \in 2 .. Len(objs) + 1 /\ 3 * n - 1 \in 1 .. Len(objs) /\ Len(p) \in Nat
  BY DEF Layout
<1>2. more[3 * n - 1] = objs[3 * n - 1]
  BY <1>1 DEF Extends
<1>3. objs[3 * n - 1].offset \in 0 .. Len(p) - 1
  BY <1>1 DEF Layout, Defined
<1> QED BY ONLY <1>1, <1>2, <1>3 DEF ImageAt

(* A complete image stays complete.                                         *)
LEMMA CompleteKept ==
    ASSUME NEW S, NEW p \in Seq(S), NEW q \in Seq(S), Extends(p, q),
           NEW objs \in Seq(ObjDef), NEW more \in Seq(ObjDef), Extends(objs, more),
           NEW images \in Nat, NEW open \in 0 .. 1, Layout(p, objs, images, open),
           NEW n \in 1 .. images, Complete(p, objs, n)
    PROVE  Complete(q, more, n)
<1> DEFINE i == ImageAt(objs, n)
<1>1. i \in 1 .. Len(p) /\ ImageAt(more, n) = i
  <2>1. n \in 1 .. images + open
    OBVIOUS
  <2> QED BY <2>1, ImageAtKept
<1>2. LinesAt(p, i, n, Height) /\ i + Height + 1 <= Len(p) /\ p[i + Height + 1].t = "endstream"
  BY DEF Complete
<1> HIDE DEF i
<1>3. Len(p) \in Nat /\ Len(q) \in Nat /\ i \in Nat /\ i + Height + 1 \in 1 .. Len(p)
  BY <1>1, <1>2
<1>4. LinesAt(q, i, n, Height)
  BY <1>2, <1>3, LinesKept
<1>5. q[i + Height + 1] = p[i + Height + 1] /\ Len(p) <= Len(q)
  BY <1>3 DEF Extends
<1>6. i + Height + 1 <= Len(q)
  BY <1>3, <1>5
<1> QED BY <1>1, <1>2, <1>4, <1>5, <1>6 DEF Complete

(* The beginning of an image, which has no lines yet.                       *)
LEMMA ImagesBegin ==
    ASSUME NEW S, NEW p \in Seq(S), NEW q \in Seq(S), Extends(p, q),
           NEW objs \in Seq(ObjDef), NEW more \in Seq(ObjDef), Extends(objs, more),
           NEW images \in Nat, Layout(p, objs, images, 0), Images(p, objs, images, 0, 0),
           Len(q) = Len(p) + 2, NEW o,
           more[Len(objs) + 2] = [id |-> o, offset |-> Len(p) + 1]
    PROVE  Images(q, more, images, 0, 1)
<1>1. \A n \in 1 .. images : Complete(q, more, n)
  BY CompleteKept DEF Images
<1>2. 3 * (images + 1) - 1 = Len(objs) + 2 /\ Len(p) \in Nat
  BY DEF Layout
<1>3. ImageAt(more, images + 1) = Len(p) + 2
  <2>1. more[3 * (images + 1) - 1].offset = Len(p) + 1
    BY <1>2
  <2> QED BY <1>2, <2>1 DEF ImageAt
<1>4. LinesAt(q, Len(p) + 2, images + 1, 0) /\ Len(q) = Len(p) + 2 + 0
  BY <1>2 DEF LinesAt
<1> QED BY <1>1, <1>3, <1>4 DEF Images

(* A line of an image.                                                      *)
LEMMA ImagesLine ==
    ASSUME NEW S, NEW p \in Seq(S), NEW q \in Seq(S), Extends(p, q), NEW objs \in Seq(ObjDef),
           NEW images \in Nat, NEW lines \in Nat, Layout(p, objs, images, 1),
           Images(p, objs, images, lines, 1), Len(q) = Len(p) + 1,
           q[Len(p) + 1] = Item("line", images + 1, lines + 1, 0)
    PROVE  Images(q, objs, images, lines + 1, 1)
<1>1. Extends(objs, objs)
  BY DEF Extends
<1>2. \A n \in 1 .. images : Complete(q, objs, n)
  BY <1>1, CompleteKept DEF Images
<1> DEFINE i == ImageAt(objs, images + 1)
<1>3. i \in 1 .. Len(p)
  <2>1. images + 1 \in 1 .. images + 1
    OBVIOUS
  <2> QED BY <1>1, <2>1, ImageAtKept
<1>4. Len(p) = i + lines /\ LinesAt(p, i, images + 1, lines)
  BY DEF Images
<1> HIDE DEF i
<1>5. Len(p) \in Nat /\ i \in Nat /\ Len(q) = i + (lines + 1)
  BY <1>3, <1>4
<1>6. LinesAt(q, i, images + 1, lines)
  BY <1>4, <1>5, LinesKept
<1>7. LinesAt(q, i, images + 1, lines + 1)
  <2>1. ASSUME NEW l \in 1 .. lines + 1
        PROVE  q[i + l] = Item("line", images + 1, l, 0)
    <3>1. CASE l \in 1 .. lines
      BY <1>6, <3>1 DEF LinesAt
    <3>2. CASE l \notin 1 .. lines
      <4>1. l = lines + 1 /\ i + l = Len(p) + 1
        BY <1>4, <1>5, <3>2
      <4> QED BY <4>1
    <3> QED BY <3>1, <3>2
  <2>2. i + (lines + 1) <= Len(q)
    BY <1>5
  <2> QED BY <2>1, <2>2 DEF LinesAt
<1> QED BY <1>2, <1>5, <1>7 DEF Images, i

(* The end of an image that has all its lines.                              *)
LEMMA ImagesEnd ==
    ASSUME NEW S, NEW p \in Seq(S), NEW q \in Seq(S), Extends(p, q),
           NEW objs \in Seq(ObjDef), NEW more \in Seq(ObjDef), Extends(objs, more),
           NEW images \in Nat, Layout(p, objs, images, 1), Images(p, objs, images, Height, 1),
           Len(q) = Len(p) + 2, q[Len(p) + 1] = Mark("endstream")
    PROVE  Images(q, more, images + 1, 0, 0)
<1>1. \A n \in 1 .. images : Complete(q, more, n)
  BY CompleteKept DEF Images
<1> DEFINE i == ImageAt(objs, images + 1)
<1>2. i \in 1 .. Len(p) /\ ImageAt(more, images + 1) = i
  <2>1. images + 1 \in 1 .. images + 1
    OBVIOUS
  <2> QED BY <2>1, ImageAtKept
<1>3. Len(p) = i + Height /\ LinesAt(p, i, images + 1, Height)
  BY DEF Images
<1> HIDE DEF i
<1>4. Len(p) \in Nat /\ i \in Nat /\ i + Height + 1 = Len(p) + 1 /\ i + Height + 1 <= Len(q)
  BY <1>2, <1>3
<1>5. LinesAt(q, i, images + 1, Height)
  BY <1>3, <1>4, LinesKept
<1>6. q[i + Height + 1].t = "endstream"
  BY <1>4 DEF Mark, Item
<1>7. Complete(q, more, images + 1)
  BY <1>2, <1>4, <1>5, <1>6 DEF Complete
<1>8. \A n \in 1 .. images + 1 : Complete(q, more, n)
  BY <1>1, <1>7
<1> QED BY <1>8 DEF Images
-----------------------------------------------------------------------------
(* The steps of PdfEncoder, one after the other.                            *)

(* What follows a sequence leaves it in its place.                          *)
LEMMA ConcatExtends ==
    ASSUME NEW S, NEW a \in Seq(S), NEW b \in Seq(S)
    PROVE  a \o b \in Seq(S) /\ Extends(a, a \o b) /\ a \o <<>> = a
<1>1. a \o b \in Seq(S) /\ Extends(a, a \o b)
  <2>1. /\ a \o b \in Seq(S) /\ Len(a) \in Nat /\ Len(b) \in Nat
        /\ Len(a \o b) = Len(a) + Len(b)
        /\ \A i \in 1 .. Len(a) : (a \o b)[i] = a[i]
    BY ConcatElements
  <2> DEFINE c == a \o b
  <2> HIDE DEF c
  <2>2. c \in Seq(S) /\ Extends(a, c)
    BY <2>1 DEF Extends, c
  <2> QED BY <2>2 DEF c
<1>2. a \o <<>> = a
  BY ConcatEmptySeq
<1> QED BY <1>1, <1>2

(* One piece, or two, at the end.                                           *)
LEMMA ConcatOne ==
    ASSUME NEW S, NEW a \in Seq(S), NEW b \in Seq(S), Len(b) = 1
    PROVE  /\ a \o b \in Seq(S) /\ Extends(a, a \o b)
           /\ Len(a \o b) = Len(a) + 1 /\ (a \o b)[Len(a) + 1] = b[1]
<1>1. a \o b \in Seq(S) /\ Extends(a, a \o b)
  BY ConcatExtends
<1>2. /\ Len(a \o b) = Len(a) + Len(b)
      /\ \A i \in 1 .. Len(b) : (a \o b)[Len(a) + i] = b[i]
  BY ONLY a \in Seq(S), b \in Seq(S), ConcatElements
<1> DEFINE c == a \o b
<1> HIDE DEF c
<1>3. Len(c) = Len(a) + 1 /\ c[Len(a) + 1] = b[1]
  BY <1>2 DEF c
<1> QED BY <1>1, <1>3 DEF c

(* Two elements more, at the end.                                           *)
LEMMA ConcatTwo ==
    ASSUME NEW S, NEW a \in Seq(S), NEW b \in Seq(S), Len(b) = 2
    PROVE  /\ a \o b \in Seq(S) /\ Extends(a, a \o b) /\ Len(a \o b) = Len(a) + 2
           /\ (a \o b)[Len(a) + 1] = b[1] /\ (a \o b)[Len(a) + 2] = b[2]
<1>1. a \o b \in Seq(S) /\ Extends(a, a \o b)
  BY ConcatExtends
<1>2. /\ Len(a \o b) = Len(a) + Len(b)
      /\ \A i \in 1 .. Len(b) : (a \o b)[Len(a) + i] = b[i]
  BY ConcatElements
<1> DEFINE c == a \o b
<1> HIDE DEF c
<1>3. Len(c) = Len(a) + 2 /\ c[Len(a) + 1] = b[1] /\ c[Len(a) + 2] = b[2]
  BY <1>2 DEF c
<1> QED BY <1>1, <1>3 DEF c

(* Two definitions.                                                         *)
LEMMA DefobjTwo ==
    ASSUME NEW S, NEW s \in Seq(S), Len(s) = 2, NEW at \in Int,
           s[1].t \in PdfObjects, s[2].t \in PdfObjects, s[1].a \in Int, s[2].a \in Int
    PROVE  /\ Defobj(s, at) \in Seq(ObjDef) /\ Len(Defobj(s, at)) = 2
           /\ Defobj(s, at)[1] = [id |-> s[1].a, offset |-> at]
           /\ Defobj(s, at)[2] = [id |-> s[2].a, offset |-> at + 1]
<1> DEFINE d == [k \in 1 .. Len(s) |-> [id |-> s[k].a, offset |-> at + k - 1]]
           a1 == {k \in 1 .. Len(s) : s[k].t \in PdfObjects}
<1>1. Defobj(s, at) = Pick(d, a1)
  BY Zenon DEF Defobj
<1>2. /\ d \in Seq(ObjDef) /\ Len(d) = 2 /\ d[1] = [id |-> s[1].a, offset |-> at]
      /\ d[2] = [id |-> s[2].a, offset |-> at + 1]
  BY DEF ObjDef
<1>3. 1 .. 2 \subseteq a1
  OBVIOUS
<1> HIDE DEF d, a1
<1>4. Pick(d, a1) = d
  BY <1>2, <1>3, PickAll
<1> QED BY <1>1, <1>2, <1>4

(* A definition after something else.                                       *)
LEMMA DefobjSecond ==
    ASSUME NEW S, NEW s \in Seq(S), Len(s) = 2, NEW at \in Int,
           s[1].t \notin PdfObjects, s[2].t \in PdfObjects, s[2].a \in Int
    PROVE  /\ Defobj(s, at) \in Seq(ObjDef) /\ Len(Defobj(s, at)) = 1
           /\ Defobj(s, at)[1] = [id |-> s[2].a, offset |-> at + 1]
<1> DEFINE d == [k \in 1 .. Len(s) |-> [id |-> s[k].a, offset |-> at + k - 1]]
           a1 == {k \in 1 .. Len(s) : s[k].t \in PdfObjects}
           y == [id |-> s[2].a, offset |-> at + 1]
           R == {d[1], y}
           e == <<d[1]>>
<1>1. Defobj(s, at) = Pick(d, a1)
  BY Zenon DEF Defobj
<1>2. d \in [1 .. 2 -> R] /\ d[2] = y
  OBVIOUS
<1>3. 1 \notin a1 /\ 2 \in a1
  OBVIOUS
<1>4. y \in ObjDef
  BY DEF ObjDef
<1> HIDE DEF d, a1, y
<1>5. /\ e \in Seq(R) /\ Len(e) = 1 /\ e[1] = d[1] /\ y \in R
      /\ Append(e, y) = [k \in 1 .. 2 |-> IF k = 1 THEN d[1] ELSE y]
  OBVIOUS
<1> HIDE DEF e, R
<1>6. d = Append(e, y)
  BY <1>2, <1>5
<1>7. \A m \in 1 .. Len(e) : m \notin a1
  BY <1>3, <1>5
<1>8. Pick(e, a1) = <<>>
  BY <1>5, <1>7, PickNone
<1>9. Len(e) + 1 \in a1
  BY <1>3, <1>5
<1>10. \A m \in 1 .. Len(e) : m \in a1 <=> m \in a1
  OBVIOUS
<1>11. Pick(Append(e, y), a1) = Append(<<>>, y)
  <2>1. e \in Seq(R) /\ y \in R
    BY <1>5
  <2>2. Pick(Append(e, y), a1) = IF Len(e) + 1 \in a1 THEN Append(Pick(e, a1), y) ELSE Pick(e, a1)
    BY ONLY <1>10, <2>1, PickAppend
  <2> QED BY <1>8, <1>9, <2>2
<1>12. Append(<<>>, y) \in Seq(ObjDef) /\ Len(Append(<<>>, y)) = 1 /\ Append(<<>>, y)[1] = y
  BY <1>4
<1> QED BY <1>1, <1>6, <1>11, <1>12 DEF y

\* What onDocumentBegin inserts after p.
HeaderStage(S, p, objs, images, open, first, i, q) ==
    /\ p \in Seq(S) /\ objs \in Seq(ObjDef) /\ images \in Nat /\ open \in 0 .. 1
    /\ Layout(p, objs, images, open) /\ first \in BOOLEAN
    /\ (first => images = 0 /\ open = 0) /\ i \in Seq(S)
    /\ i = When(first, <<Mark("header")>>) /\ q = p \o i

(* onDocumentBegin: the header.                                             *)
LEMMA StageHeader ==
    ASSUME NEW S, NEW p, NEW objs, NEW images, NEW open, NEW first, NEW i, NEW q,
           HeaderStage(S, p, objs, images, open, first, i, q)
    PROVE  /\ Defobj(i, Len(p)) = <<>> /\ q \in Seq(S) /\ Layout(q, objs, images, open)
           /\ \A lines : Images(p, objs, images, lines, open) => Images(q, objs, images, lines, open)
<1> SUFFICES ASSUME p \in Seq(S), objs \in Seq(ObjDef), images \in Nat, open \in 0 .. 1,
                    Layout(p, objs, images, open), first \in BOOLEAN,
                    (first => images = 0 /\ open = 0), i \in Seq(S),
                    i = When(first, <<Mark("header")>>), q = p \o i
             PROVE  /\ Defobj(i, Len(p)) = <<>> /\ q \in Seq(S) /\ Layout(q, objs, images, open)
                 /\ \A lines : Images(p, objs, images, lines, open) => Images(q, objs, images, lines, open)
  BY DEF HeaderStage
<1>0. Len(p) \in Int
  OBVIOUS
<1>1. CASE first
  <2>1. Len(i) = 1 /\ i[1].t = "header"
    BY <1>1 DEF When, Mark, Item
  <2>2. \A k \in 1 .. Len(i) : i[k].t \notin PdfObjects
    BY <2>1 DEF PdfObjects
  <2>3. Defobj(i, Len(p)) = <<>>
    BY <1>0, <2>2, DefobjNone
  <2>4. q \in Seq(S) /\ Extends(p, q) /\ Len(q) = Len(p) + 1 /\ q[Len(p) + 1] = i[1]
    <3>1. Len(i) = 1
      BY <2>1
    <3> QED BY ONLY p \in Seq(S), i \in Seq(S), q = p \o i, <3>1, ConcatOne
  <2>5. q[Len(p) + 1].t \notin {"xref", "kid"}
    BY <2>1, <2>4
  <2>6. Layout(q, objs, images, open)
    BY <2>4, <2>5, LayoutPiece
  <2>7. ASSUME NEW lines
        PROVE  Images(q, objs, images, lines, open)
    <3>1. images = 0 /\ open = 0
      BY <1>1
    <3>2. 1 .. images = {} /\ open # 1
      BY ONLY <3>1
    <3> QED BY ONLY <3>2 DEF Images
  <2> QED BY <2>3, <2>4, <2>6, <2>7
<1>2. CASE ~first
  <2>1. i = <<>>
    BY <1>2 DEF When
  <2>2. q = p
    BY ONLY p \in Seq(S), <2>1, q = p \o i, ConcatEmptySeq
  <2>3. \A k \in 1 .. Len(i) : i[k].t \notin PdfObjects
    BY <2>1
  <2>4. Defobj(i, Len(p)) = <<>>
    BY <1>0, <2>3, DefobjNone
  <2> QED BY <2>2, <2>4
<1> QED BY <1>1, <1>2

\* What onImageBegin inserts after p, and the objects it adds.
BeginStage(S, p, objs, images, begins, open, i, q, d, more) ==
    /\ p \in Seq(S) /\ objs \in Seq(ObjDef) /\ images \in Nat /\ begins \in BOOLEAN
    /\ open = (IF begins THEN 0 ELSE 1) /\ Layout(p, objs, images, open) /\ i \in Seq(S)
    /\ i = When(begins, PdfImageBegin(3 * images + 1)) /\ q = p \o i
    /\ d = Defobj(i, Len(p)) /\ more = objs \o d

(* onImageBegin: a page and an image.                                       *)
LEMMA StageBegin ==
    ASSUME NEW S, NEW p, NEW objs, NEW images, NEW begins, NEW open, NEW i, NEW q, NEW d, NEW more,
           BeginStage(S, p, objs, images, begins, open, i, q, d, more)
    PROVE  /\ q \in Seq(S) /\ d \in Seq(ObjDef) /\ more \in Seq(ObjDef)
           /\ Layout(q, more, images, 1)
           /\ \A lines : /\ begins => lines = 0
                        /\ Images(p, objs, images, lines, open)
                        => Images(q, more, images, lines, 1)
<1> SUFFICES ASSUME p \in Seq(S), objs \in Seq(ObjDef), images \in Nat, begins \in BOOLEAN,
                    open = (IF begins THEN 0 ELSE 1), Layout(p, objs, images, open), i \in Seq(S),
                    i = When(begins, PdfImageBegin(3 * images + 1)), q = p \o i,
                    d = Defobj(i, Len(p)), more = objs \o d
             PROVE  /\ q \in Seq(S) /\ d \in Seq(ObjDef) /\ more \in Seq(ObjDef)
                 /\ Layout(q, more, images, 1)
                 /\ \A lines : /\ begins => lines = 0
                              /\ Images(p, objs, images, lines, open)
                              => Images(q, more, images, lines, 1)
  BY DEF BeginStage
<1>0. Len(p) \in Int /\ Len(p) \in Nat
  OBVIOUS
<1>1. CASE begins
  <2> DEFINE o == 3 * images + 1
             x == Item("page", o + 1, o + 3, o + 2)
             y == Item("image", o + 2, 0, 0)
  <2>1. Len(i) = 2 /\ i[1] = x /\ i[2] = y
    BY <1>1 DEF When, PdfImageBegin
  <2>2. x.t \in PdfObjects /\ y.t \in PdfObjects /\ x.a = o + 1 /\ y.a = o + 2
    BY DEF Item, PdfObjects
  <2>3. o \in Int
    OBVIOUS
  <2> HIDE DEF x, y, o
  <2>4. /\ Len(i) = 2 /\ i[1].t \in PdfObjects /\ i[2].t \in PdfObjects
        /\ i[1].a \in Int /\ i[2].a \in Int
    BY <2>1, <2>2, <2>3
  <2>5. /\ d \in Seq(ObjDef) /\ Len(d) = 2 /\ d[1] = [id |-> i[1].a, offset |-> Len(p)]
        /\ d[2] = [id |-> i[2].a, offset |-> Len(p) + 1]
    <3>1. Len(p) \in Int
      BY <1>0
    <3> QED BY ONLY i \in Seq(S), <2>4, <3>1, d = Defobj(i, Len(p)), DefobjTwo
  <2>6. d[1] = [id |-> o + 1, offset |-> Len(p)] /\ d[2] = [id |-> o + 2, offset |-> Len(p) + 1]
    BY <2>1, <2>2, <2>5
  <2>8. /\ q \in Seq(S) /\ Extends(p, q) /\ Len(q) = Len(p) + 2
        /\ q[Len(p) + 1] = i[1] /\ q[Len(p) + 2] = i[2]
    BY ONLY p \in Seq(S), i \in Seq(S), <2>4, q = p \o i, ConcatTwo
  <2>9. /\ more \in Seq(ObjDef) /\ Extends(objs, more) /\ Len(more) = Len(objs) + 2
        /\ more[Len(objs) + 1] = d[1] /\ more[Len(objs) + 2] = d[2]
    BY ONLY objs \in Seq(ObjDef), <2>5, more = objs \o d, ConcatTwo
  <2>11. Layout(p, objs, images, 0) /\ o = 3 * images + 1
    BY <1>1 DEF o
  <2>12. Layout(q, more, images, 1)
    <3>1. /\ q[Len(p) + 1] = Item("page", o + 1, o + 3, o + 2)
          /\ q[Len(p) + 2] = Item("image", o + 2, 0, 0)
      BY <2>1, <2>8 DEF x, y
    <3>2. /\ more[Len(objs) + 1] = [id |-> o + 1, offset |-> Len(p)]
          /\ more[Len(objs) + 2] = [id |-> o + 2, offset |-> Len(p) + 1]
      BY <2>6, <2>9
    <3> QED BY ONLY p \in Seq(S), objs \in Seq(ObjDef), images \in Nat,
                    <2>8, <2>9, <2>11, <3>1, <3>2, LayoutBegin
  <2>13. ASSUME Images(p, objs, images, 0, 0)
         PROVE  Images(q, more, images, 0, 1)
    <3>1. more[Len(objs) + 2] = [id |-> o + 2, offset |-> Len(p) + 1]
      BY <2>6, <2>9
    <3> QED BY ONLY p \in Seq(S), objs \in Seq(ObjDef), images \in Nat,
                    <2>8, <2>9, <2>11, <2>13, <3>1, ImagesBegin
  <2> QED BY <1>1, <2>5, <2>8, <2>9, <2>12, <2>13
<1>2. CASE ~begins
  <2>1. i = <<>>
    BY <1>2 DEF When
  <2>2. \A k \in 1 .. Len(i) : i[k].t \notin PdfObjects
    BY <2>1
  <2>3. d = <<>>
    BY <1>0, <2>2, DefobjNone
  <2>4. q = p
    BY ONLY p \in Seq(S), <2>1, q = p \o i, ConcatEmptySeq
  <2>5. more = objs
    BY ONLY objs \in Seq(ObjDef), <2>3, more = objs \o d, ConcatEmptySeq
  <2>6. open = 1 /\ <<>> \in Seq(ObjDef)
    BY <1>2
  <2> QED BY ONLY p \in Seq(S), objs \in Seq(ObjDef), Layout(p, objs, images, open),
                  <2>3, <2>4, <2>5, <2>6
<1> QED BY <1>1, <1>2

\* What onWriteLine inserts after p.
LineStage(S, p, objs, images, x, i, q) ==
    /\ p \in Seq(S) /\ objs \in Seq(ObjDef) /\ images \in Nat
    /\ Layout(p, objs, images, 1) /\ x \in S /\ x.t = "line" /\ i = <<x>> /\ q = p \o i

(* onWriteLine: a line.                                                     *)
LEMMA StageLine ==
    ASSUME NEW S, NEW p, NEW objs, NEW images, NEW x, NEW i, NEW q,
           LineStage(S, p, objs, images, x, i, q)
    PROVE  /\ i \in Seq(S) /\ Defobj(i, Len(p)) = <<>> /\ q \in Seq(S) /\ Layout(q, objs, images, 1)
           /\ \A lines \in Nat : /\ x = Item("line", images + 1, lines + 1, 0)
                                 /\ Images(p, objs, images, lines, 1)
                                 => Images(q, objs, images, lines + 1, 1)
<1> SUFFICES ASSUME p \in Seq(S), objs \in Seq(ObjDef), images \in Nat, Layout(p, objs, images, 1),
                    x \in S, x.t = "line", i = <<x>>, q = p \o i
             PROVE  /\ i \in Seq(S) /\ Defobj(i, Len(p)) = <<>> /\ q \in Seq(S) /\ Layout(q, objs, images, 1)
                 /\ \A lines \in Nat : /\ x = Item("line", images + 1, lines + 1, 0)
                                       /\ Images(p, objs, images, lines, 1)
                                       => Images(q, objs, images, lines + 1, 1)
  BY DEF LineStage
<1>0. Len(p) \in Int
  OBVIOUS
<1>1. i \in Seq(S) /\ Len(i) = 1 /\ i[1] = x
  OBVIOUS
<1>2. \A k \in 1 .. Len(i) : i[k].t \notin PdfObjects
  BY <1>1 DEF PdfObjects
<1>3. Defobj(i, Len(p)) = <<>>
  BY <1>0, <1>1, <1>2, DefobjNone
<1>4. q \in Seq(S) /\ Extends(p, q) /\ Len(q) = Len(p) + 1 /\ q[Len(p) + 1] = i[1]
  BY ONLY p \in Seq(S), <1>1, q = p \o i, ConcatOne
<1>5. q[Len(p) + 1] = x /\ q[Len(p) + 1].t \notin {"xref", "kid"}
  BY <1>1, <1>4
<1>6. Layout(q, objs, images, 1)
  <2>1. 1 \in 0 .. 1
    OBVIOUS
  <2> QED BY ONLY p \in Seq(S), objs \in Seq(ObjDef), images \in Nat, Layout(p, objs, images, 1),
                  <1>4, <1>5, <2>1, LayoutPiece
<1>7. ASSUME NEW lines \in Nat, x = Item("line", images + 1, lines + 1, 0),
             Images(p, objs, images, lines, 1)
      PROVE  Images(q, objs, images, lines + 1, 1)
  BY <1>4, <1>5, <1>7, ImagesLine
<1> QED BY <1>1, <1>3, <1>4, <1>6, <1>7

\* What onImageEnd inserts after p, and the objects it adds.
EndStage(S, p, objs, images, ends, i, q, d, more, n, open) ==
    /\ p \in Seq(S) /\ objs \in Seq(ObjDef) /\ images \in Nat
    /\ Layout(p, objs, images, 1) /\ ends \in BOOLEAN /\ i \in Seq(S)
    /\ i = When(ends, PdfImageEnd(3 * images + 3)) /\ q = p \o i /\ d = Defobj(i, Len(p))
    /\ more = objs \o d /\ n = (IF ends THEN images + 1 ELSE images)
    /\ open = (IF ends THEN 0 ELSE 1)

(* onImageEnd: the end of an image, and the contents of its page.           *)
LEMMA StageEnd ==
    ASSUME NEW S, NEW p, NEW objs, NEW images, NEW ends, NEW i, NEW q, NEW d, NEW more, NEW n, NEW open,
           EndStage(S, p, objs, images, ends, i, q, d, more, n, open)
    PROVE  /\ q \in Seq(S) /\ d \in Seq(ObjDef) /\ more \in Seq(ObjDef)
           /\ Layout(q, more, n, open)
           /\ \A lines : /\ ends => lines = Height
                        /\ Images(p, objs, images, lines, 1)
                        => Images(q, more, n, IF ends THEN 0 ELSE lines, open)
<1> SUFFICES ASSUME p \in Seq(S), objs \in Seq(ObjDef), images \in Nat, Layout(p, objs, images, 1),
                    ends \in BOOLEAN, i \in Seq(S), i = When(ends, PdfImageEnd(3 * images + 3)),
                    q = p \o i, d = Defobj(i, Len(p)), more = objs \o d,
                    n = (IF ends THEN images + 1 ELSE images), open = (IF ends THEN 0 ELSE 1)
             PROVE  /\ q \in Seq(S) /\ d \in Seq(ObjDef) /\ more \in Seq(ObjDef)
                 /\ Layout(q, more, n, open)
                 /\ \A lines : /\ ends => lines = Height
                              /\ Images(p, objs, images, lines, 1)
                              => Images(q, more, n, IF ends THEN 0 ELSE lines, open)
  BY DEF EndStage
<1>0. Len(p) \in Int /\ Len(p) \in Nat
  OBVIOUS
<1>1. CASE ends
  <2> DEFINE o == 3 * images + 3
             x == Mark("endstream")
             y == Item("contents", o + 1, 0, 0)
  <2>1. Len(i) = 2 /\ i[1] = x /\ i[2] = y
    BY <1>1 DEF When, PdfImageEnd
  <2>2. x.t \notin PdfObjects /\ y.t \in PdfObjects /\ y.a = o + 1
    BY DEF Item, Mark, PdfObjects
  <2>3. o \in Int
    OBVIOUS
  <2> HIDE DEF x, y, o
  <2>4. Len(i) = 2 /\ i[1].t \notin PdfObjects /\ i[2].t \in PdfObjects /\ i[2].a \in Int
    BY <2>1, <2>2, <2>3
  <2>5. d \in Seq(ObjDef) /\ Len(d) = 1 /\ d[1] = [id |-> i[2].a, offset |-> Len(p) + 1]
    <3>1. Len(p) \in Int
      BY <1>0
    <3> QED BY ONLY i \in Seq(S), <2>4, <3>1, d = Defobj(i, Len(p)), DefobjSecond
  <2>6. d[1] = [id |-> o + 1, offset |-> Len(p) + 1]
    BY <2>1, <2>2, <2>5
  <2>8. /\ q \in Seq(S) /\ Extends(p, q) /\ Len(q) = Len(p) + 2
        /\ q[Len(p) + 1] = i[1] /\ q[Len(p) + 2] = i[2]
    BY ONLY p \in Seq(S), i \in Seq(S), <2>4, q = p \o i, ConcatTwo
  <2>9. /\ more \in Seq(ObjDef) /\ Extends(objs, more) /\ Len(more) = Len(objs) + 1
        /\ more[Len(objs) + 1] = d[1]
    BY ONLY objs \in Seq(ObjDef), <2>5, more = objs \o d, ConcatOne
  <2>11. o = 3 * images + 3
    BY DEF o
  <2>12. Layout(q, more, images + 1, 0)
    BY <2>1, <2>6, <2>8, <2>9, <2>11, LayoutEnd DEF x, y
  <2>13. ASSUME Images(p, objs, images, Height, 1)
         PROVE  Images(q, more, images + 1, 0, 0)
    BY <2>1, <2>8, <2>9, <2>13, ImagesEnd DEF x
  <2> QED BY <1>1, <2>5, <2>8, <2>9, <2>12, <2>13
<1>2. CASE ~ends
  <2>1. i = <<>>
    BY <1>2 DEF When
  <2>2. \A k \in 1 .. Len(i) : i[k].t \notin PdfObjects
    BY <2>1
  <2>3. d = <<>>
    BY <1>0, <2>2, DefobjNone
  <2>4. q = p
    BY ONLY p \in Seq(S), <2>1, q = p \o i, ConcatEmptySeq
  <2>5. more = objs
    BY ONLY objs \in Seq(ObjDef), <2>3, more = objs \o d, ConcatEmptySeq
  <2>6. open = 1 /\ n = images /\ <<>> \in Seq(ObjDef)
    BY <1>2
  <2>7. ASSUME NEW lines, Images(p, objs, images, lines, 1)
        PROVE  Images(q, more, n, IF ends THEN 0 ELSE lines, open)
    BY ONLY <1>2, <2>4, <2>5, <2>6, <2>7
  <2> QED BY ONLY p \in Seq(S), objs \in Seq(ObjDef), Layout(p, objs, images, 1),
                  <2>3, <2>4, <2>5, <2>6, <2>7
<1> QED BY <1>1, <1>2

\* The pieces a and b in a document, after p, at once or one by one.
Pieces(S, p, a, b, c, q) ==
    /\ p \in Seq(S) /\ a \in Seq(S) /\ b \in Seq(S) /\ q \in Seq(S)
    /\ c = a \o b /\ q = p \o a
OneByOne(S, p, a, b, c, q) ==
    /\ c \in Seq(S) /\ p \o c = q \o b
    /\ Defobj(c, Len(p)) = Defobj(a, Len(p)) \o Defobj(b, Len(q))

(* Two pieces inserted at once, or one after the other.                     *)
LEMMA DefobjStep ==
    ASSUME NEW S, NEW p, NEW a, NEW b, NEW c, NEW q, Pieces(S, p, a, b, c, q)
    PROVE  OneByOne(S, p, a, b, c, q)
<1>0. /\ p \in Seq(S) /\ a \in Seq(S) /\ b \in Seq(S) /\ q \in Seq(S)
      /\ c = a \o b /\ q = p \o a
  BY DEF Pieces
<1>1. /\ c \in Seq(S) /\ Len(p) \in Nat /\ Len(a) \in Nat /\ Len(q) = Len(p) + Len(a)
  BY ONLY <1>0, ConcatElements
<1>2. p \o c = q \o b
  BY ONLY <1>0, ConcatAssociative
<1>3. Defobj(c, Len(p)) = Defobj(a, Len(p)) \o Defobj(b, Len(p) + Len(a))
  <2>1. Len(p) \in Int
    BY <1>1
  <2> QED BY ONLY <1>0, <2>1, DefobjConcat
<1>4. Defobj(c, Len(p)) = Defobj(a, Len(p)) \o Defobj(b, Len(q))
  BY ONLY <1>1, <1>3
<1> QED BY ONLY <1>1, <1>2, <1>4, Zenon DEF OneByOne

\* The pieces that writeLine inserts after p, and the objects it adds.
LinePieces(S, p, objs, images, line, first, begins, ends, open, x, i1, i2, i4, items, q, more, n, now) ==
    /\ p \in Seq(S) /\ objs \in Seq(ObjDef) /\ images \in Nat /\ line \in Nat
    /\ first \in BOOLEAN /\ begins \in BOOLEAN /\ ends \in BOOLEAN
    /\ (first => images = 0 /\ begins) /\ (begins => line = 0)
    /\ (ends => line + 1 = Height) /\ open = (IF begins THEN 0 ELSE 1)
    /\ Layout(p, objs, images, open) /\ x \in S /\ x.t = "line" /\ i1 \in Seq(S)
    /\ i1 = When(first, <<Mark("header")>>) /\ i2 \in Seq(S)
    /\ i2 = When(begins, PdfImageBegin(3 * images + 1)) /\ i4 \in Seq(S)
    /\ i4 = When(ends, PdfImageEnd(3 * images + 3)) /\ items = i1 \o i2 \o <<x>> \o i4
    /\ q = p \o items /\ more = objs \o Defobj(items, Len(p))
    /\ n = (IF ends THEN images + 1 ELSE images) /\ now = (IF ends THEN 0 ELSE 1)

(* ImageEncoder::writeLine with a PdfEncoder keeps the layout.              *)
LEMMA WriteLineLayout ==
    ASSUME NEW S, NEW p, NEW objs, NEW images, NEW line, NEW first, NEW begins, NEW ends, NEW open,
           NEW x, NEW i1, NEW i2, NEW i4, NEW items, NEW q, NEW more, NEW n, NEW now,
           LinePieces(S, p, objs, images, line, first, begins, ends, open, x, i1, i2, i4, items, q, more, n, now)
    PROVE  /\ q \in Seq(S) /\ more \in Seq(ObjDef) /\ Layout(q, more, n, now)
           /\ x = Item("line", images + 1, line + 1, 0) /\ Images(p, objs, images, line, open)
              => Images(q, more, n, IF ends THEN 0 ELSE line + 1, now)
<1>types. /\ p \in Seq(S) /\ objs \in Seq(ObjDef) /\ images \in Nat /\ line \in Nat
          /\ Layout(p, objs, images, open)
  BY Zenon DEF LinePieces
<1>bools. first \in BOOLEAN /\ begins \in BOOLEAN /\ ends \in BOOLEAN
  BY Zenon DEF LinePieces
<1>when. /\ (first => images = 0 /\ begins) /\ (begins => line = 0) /\ (ends => line + 1 = Height)
      /\ open = (IF begins THEN 0 ELSE 1)
  BY Zenon DEF LinePieces
<1>line. x \in S /\ x.t = "line"
  BY Zenon DEF LinePieces
<1>h1. i1 \in Seq(S) /\ i1 = When(first, <<Mark("header")>>)
  BY Zenon DEF LinePieces
<1>h2. i2 \in Seq(S) /\ i2 = When(begins, PdfImageBegin(3 * images + 1))
  BY Zenon DEF LinePieces
<1>h4. i4 \in Seq(S) /\ i4 = When(ends, PdfImageEnd(3 * images + 3))
  BY Zenon DEF LinePieces
<1>whole. items = i1 \o i2 \o <<x>> \o i4
  BY Zenon DEF LinePieces
<1>grown. q = p \o items /\ more = objs \o Defobj(items, Len(p))
  BY Zenon DEF LinePieces
<1>next. n = (IF ends THEN images + 1 ELSE images) /\ now = (IF ends THEN 0 ELSE 1)
  BY Zenon DEF LinePieces
<1> DEFINE i3 == <<x>>
           a == i1 \o i2
           b == a \o i3
           q1 == p \o i1
           q2 == q1 \o i2
           q3 == q2 \o i3
           q4 == q3 \o i4
           d1 == Defobj(i1, Len(p))
           d2 == Defobj(i2, Len(q1))
           d3 == Defobj(i3, Len(q2))
           d4 == Defobj(i4, Len(q3))
           objs2 == objs \o d2
           objs4 == objs2 \o d4
<1>a. a = i1 \o i2
  OBVIOUS
<1>b. b = a \o i3
  OBVIOUS
<1>items. items = b \o i4
  BY <1>whole, Zenon
<1>i3. i3 = <<x>>
  OBVIOUS
<1>q1. q1 = p \o i1
  OBVIOUS
<1>q2. q2 = q1 \o i2
  OBVIOUS
<1>q3. q3 = q2 \o i3
  OBVIOUS
<1>q4. q4 = q3 \o i4
  OBVIOUS
<1>d1. d1 = Defobj(i1, Len(p))
  OBVIOUS
<1>d2. d2 = Defobj(i2, Len(q1))
  OBVIOUS
<1>d3. d3 = Defobj(i3, Len(q2))
  OBVIOUS
<1>d4. d4 = Defobj(i4, Len(q3))
  OBVIOUS
<1>objs2. objs2 = objs \o d2
  OBVIOUS
<1>objs4. objs4 = objs2 \o d4
  OBVIOUS
<1> HIDE DEF i3, a, b, q1, q2, q3, q4, d1, d2, d3, d4, objs2, objs4
<1>2. /\ d1 = <<>> /\ q1 \in Seq(S) /\ Layout(q1, objs, images, open)
      /\ \A lines : Images(p, objs, images, lines, open) => Images(q1, objs, images, lines, open)
  <2>1. open \in 0 .. 1 /\ (first => images = 0 /\ open = 0)
    BY ONLY <1>bools, <1>when, <1>types
  <2>s. HeaderStage(S, p, objs, images, open, first, i1, q1)
    BY ONLY <1>h1, <1>types, <1>bools, <1>q1, <1>d1, <2>1 DEF HeaderStage
  <2> QED BY ONLY <1>d1, <2>s, StageHeader
<1>3. /\ q2 \in Seq(S) /\ d2 \in Seq(ObjDef) /\ objs2 \in Seq(ObjDef) /\ Layout(q2, objs2, images, 1)
      /\ \A lines : /\ begins => lines = 0
                   /\ Images(q1, objs, images, lines, open)
                   => Images(q2, objs2, images, lines, 1)
  <2>s. BeginStage(S, q1, objs, images, begins, open, i2, q2, d2, objs2)
    BY ONLY <1>h2, <1>when, <1>types, <1>bools, <1>q2, <1>d2, <1>objs2, <1>2 DEF BeginStage
  <2> QED BY ONLY <2>s, StageBegin
<1>4. /\ i3 \in Seq(S) /\ d3 = <<>> /\ q3 \in Seq(S) /\ Layout(q3, objs2, images, 1)
      /\ \A lines \in Nat : /\ x = Item("line", images + 1, lines + 1, 0)
                            /\ Images(q2, objs2, images, lines, 1)
                            => Images(q3, objs2, images, lines + 1, 1)
  <2>s. LineStage(S, q2, objs2, images, x, i3, q3)
    BY ONLY <1>types, <1>line, <1>i3, <1>q3, <1>d3, <1>3 DEF LineStage
  <2> QED BY ONLY <1>d3, <2>s, StageLine
<1>5. /\ q4 \in Seq(S) /\ d4 \in Seq(ObjDef) /\ objs4 \in Seq(ObjDef) /\ Layout(q4, objs4, n, now)
      /\ \A lines : /\ ends => lines = Height
                   /\ Images(q3, objs2, images, lines, 1)
                   => Images(q4, objs4, n, IF ends THEN 0 ELSE lines, now)
  <2>s. EndStage(S, q3, objs2, images, ends, i4, q4, d4, objs4, n, now)
    BY ONLY <1>h4, <1>next, <1>bools, <1>types, <1>q4, <1>d4, <1>objs4, <1>3, <1>4 DEF EndStage
  <2> QED BY ONLY <2>s, StageEnd
<1>6. a \in Seq(S) /\ p \o a = q2 /\ Defobj(a, Len(p)) = d1 \o d2
  <2>s. Pieces(S, p, i1, i2, a, q1)
    BY ONLY <1>h1, <1>h2, <1>types, <1>a, <1>q1, <1>q2, <1>d1, <1>d2, <1>2 DEF Pieces
  <2>o. OneByOne(S, p, i1, i2, a, q1)
    BY ONLY <2>s, DefobjStep
  <2>t. /\ a \in Seq(S) /\ p \o a = q1 \o i2
        /\ Defobj(a, Len(p)) = Defobj(i1, Len(p)) \o Defobj(i2, Len(q1))
    BY ONLY <2>o, Zenon DEF OneByOne
  <2> QED BY ONLY <1>q2, <1>d1, <1>d2, <2>t, Zenon
<1>7. b \in Seq(S) /\ p \o b = q3 /\ Defobj(b, Len(p)) = (d1 \o d2) \o d3
  <2>s. Pieces(S, p, a, i3, b, q2)
    BY ONLY <1>types, <1>b, <1>q3, <1>d3, <1>3, <1>4, <1>6 DEF Pieces
  <2>o. OneByOne(S, p, a, i3, b, q2)
    BY ONLY <2>s, DefobjStep
  <2>t. /\ b \in Seq(S) /\ p \o b = q2 \o i3
        /\ Defobj(b, Len(p)) = Defobj(a, Len(p)) \o Defobj(i3, Len(q2))
    BY ONLY <2>o, Zenon DEF OneByOne
  <2> QED BY ONLY <1>q3, <1>d3, <1>6, <2>t, Zenon
<1>8. p \o items = q4 /\ Defobj(items, Len(p)) = ((d1 \o d2) \o d3) \o d4
  <2>s. Pieces(S, p, b, i4, items, q3)
    BY ONLY <1>h4, <1>types, <1>items, <1>q4, <1>d4, <1>4, <1>7 DEF Pieces
  <2>o. OneByOne(S, p, b, i4, items, q3)
    BY ONLY <2>s, DefobjStep
  <2>t. /\ items \in Seq(S) /\ p \o items = q3 \o i4
        /\ Defobj(items, Len(p)) = Defobj(b, Len(p)) \o Defobj(i4, Len(q3))
    BY ONLY <2>o, Zenon DEF OneByOne
  <2> QED BY ONLY <1>q4, <1>d4, <1>7, <2>t, Zenon
<1>9. (d1 \o d2) \o d3 = d2
  <2>1. <<>> \o d2 = d2 /\ d2 \o <<>> = d2
    BY ONLY <1>3, ConcatEmptySeq
  <2> QED BY ONLY <1>2, <1>4, <2>1
<1>10. objs \o (d2 \o d4) = objs4
  <2>1. objs \in Seq(ObjDef) /\ d2 \in Seq(ObjDef) /\ d4 \in Seq(ObjDef)
    BY <1>types, <1>3, <1>5
  <2>2. objs \o (d2 \o d4) = (objs \o d2) \o d4
    BY ONLY <2>1, ConcatAssociative
  <2> QED BY ONLY <1>objs2, <1>objs4, <2>2
<1>11. q = q4 /\ more = objs4
  BY ONLY <1>grown, <1>8, <1>9, <1>10
<1>12. ASSUME x = Item("line", images + 1, line + 1, 0), Images(p, objs, images, line, open)
       PROVE  Images(q4, objs4, n, IF ends THEN 0 ELSE line + 1, now)
  <2>1. Images(q2, objs2, images, line, 1)
    BY ONLY <1>when, <1>2, <1>3, <1>12
  <2>2. Images(q3, objs2, images, line + 1, 1)
    BY ONLY <1>types, <1>4, <1>12, <2>1
  <2> QED BY ONLY <1>when, <1>bools, <1>5, <2>2
<1> QED BY ONLY <1>5, <1>11, <1>12

-----------------------------------------------------------------------------
(* The end of a PDF.                                                        *)

\* pos says where in objs each of the numbers from 1 to n is.
Numbered(objs, n, pos) ==
    /\ Len(objs) = n /\ pos \in [1 .. n -> 1 .. n]
    /\ \A m \in 1 .. n : objs[pos[m]].id = m
    /\ \A k \in 1 .. n : objs[k].id \in 1 .. n /\ pos[objs[k].id] = k

(* The objects before one of them, when all numbers are there once.         *)
LEMMA ObjectsBefore ==
    ASSUME NEW objs, NEW n \in Nat, NEW pos, Numbered(objs, n, pos), NEW k \in 1 .. n
    PROVE  Cardinality({j \in 1 .. n : ObjLess(objs, j, k)}) = objs[k].id - 1
<1> DEFINE m == objs[k].id
           B == {j \in 1 .. n : ObjLess(objs, j, k)}
           f == [i \in 1 .. m - 1 |-> pos[i]]
<1>1. m \in 1 .. n /\ m - 1 \in Nat
  BY DEF Numbered
<1>2. ASSUME NEW j \in 1 .. n
      PROVE  ObjLess(objs, j, k) <=> objs[j].id < m
  <2>1. objs[j].id = m => j = k
    BY DEF Numbered
  <2>2. objs[j].id = m => ~(j < k)
    BY <2>1
  <2> QED BY <2>2 DEF ObjLess
<1>3. B = {j \in 1 .. n : objs[j].id < m}
  BY <1>2
<1> HIDE DEF m
<1>4. \A i \in 1 .. m - 1 : i \in 1 .. n /\ pos[i] \in 1 .. n /\ objs[pos[i]].id = i /\ f[i] = pos[i]
  BY <1>1 DEF Numbered
<1> HIDE DEF B, f
<1>5. \A i \in 1 .. m - 1 : f[i] \in B
  BY <1>1, <1>3, <1>4
<1>6. f \in [1 .. m - 1 -> B]
  BY <1>5 DEF f
<1>7. f \in Injection(1 .. m - 1, B)
  <2>1. \A a, b \in 1 .. m - 1 : f[a] = f[b] => a = b
    BY <1>4
  <2> QED BY <1>6, <2>1 DEF Injection, IsInjective
<1>8. f \in Surjection(1 .. m - 1, B)
  <2>1. ASSUME NEW j \in B
        PROVE  \E i \in 1 .. m - 1 : f[i] = j
    <3>1. j \in 1 .. n /\ objs[j].id < m /\ objs[j].id \in 1 .. n /\ pos[objs[j].id] = j
      BY <1>3 DEF Numbered
    <3>2. objs[j].id \in 1 .. m - 1
      BY <1>1, <3>1
    <3> QED BY <1>4, <3>1, <3>2
  <2> QED BY <1>6, <2>1 DEF Surjection
<1>9. ExistsBijection(1 .. m - 1, B)
  BY <1>7, <1>8 DEF ExistsBijection, Bijection
<1>10. Cardinality(B) = m - 1
  BY <1>1, <1>9, FS_CountingElements
<1> QED BY <1>10 DEF B, m

(* std::sort puts them in order.                                            *)
LEMMA ByIdSorts ==
    ASSUME NEW objs, NEW n \in Nat, NEW pos, Numbered(objs, n, pos)
    PROVE  \A m \in 1 .. n : ById(objs)[m] = objs[pos[m]]
<1> DEFINE before == [k \in 1 .. Len(objs) |->
                         Cardinality({j \in 1 .. Len(objs) : ObjLess(objs, j, k)})]
           Place(m) == CHOOSE k \in 1 .. Len(objs) : before[k] = m - 1
<1>1. ById(objs) = [m \in 1 .. Len(objs) |-> objs[Place(m)]]
  BY Zenon DEF ById
<1>2. Len(objs) = n
  BY DEF Numbered
<1>3. \A k \in 1 .. n : before[k] = objs[k].id - 1
  BY <1>2, ObjectsBefore
<1> HIDE DEF before
<1>4. ASSUME NEW m \in 1 .. n
      PROVE  Place(m) = pos[m]
  <2>1. pos[m] \in 1 .. n /\ objs[pos[m]].id = m
    BY DEF Numbered
  <2>2. before[pos[m]] = m - 1
    BY <1>3, <2>1
  <2>3. Place(m) \in 1 .. n /\ before[Place(m)] = m - 1
    BY <1>2, <2>1, <2>2
  <2> HIDE DEF Place
  <2>4. objs[Place(m)].id \in 1 .. n /\ pos[objs[Place(m)].id] = Place(m)
    BY <2>3 DEF Numbered
  <2>5. objs[Place(m)].id - 1 = m - 1
    BY <1>3, <2>3
  <2>6. objs[Place(m)].id = m
    BY <2>4, <2>5
  <2> QED BY <2>4, <2>6
<1> HIDE DEF Place
<1> QED BY <1>1, <1>2, <1>4

\* The page tree after o objects, and the list of the objects in it, when it is
\* inserted at the position at.
TreeAt(tree, o, images) ==
    /\ Len(tree) = o \div 3 + 3 /\ tree[1] = Item("pages", 1, images, 0)
    /\ \A k \in 1 .. o \div 3 : tree[1 + k] = Item("kid", 3 * k - 1, 0, 0)
    /\ tree[o \div 3 + 2] = Item("catalog", o + 1, 1, 0)
    /\ tree[o \div 3 + 3] = Item("info", o + 2, 0, 0)
TreeObjects(d, o, at) ==
    /\ d \in Seq(ObjDef) /\ Len(d) = 3 /\ d[1] = [id |-> 1, offset |-> at]
    /\ d[2] = [id |-> o + 1, offset |-> at + o \div 3 + 1]
    /\ d[3] = [id |-> o + 2, offset |-> at + o \div 3 + 2]

(* The three objects of the page tree.                                      *)
LEMMA TreeDefines ==
    ASSUME NEW o \in Nat, NEW images, NEW at \in Int,
           NEW tree, tree = <<Item("pages", 1, images, 0)>>
                            \o [k \in 1 .. o \div 3 |-> Item("kid", 3 * k - 1, 0, 0)]
                            \o <<Item("catalog", o + 1, 1, 0), Item("info", o + 2, 0, 0)>>
    PROVE  /\ \E S : tree \in Seq(S)
           /\ TreeAt(tree, o, images) /\ TreeObjects(Defobj(tree, at), o, at)
<1> DEFINE K == o \div 3
           x == Item("pages", 1, images, 0)
           y == Item("catalog", o + 1, 1, 0)
           z == Item("info", o + 2, 0, 0)
           kids == [k \in 1 .. K |-> Item("kid", 3 * k - 1, 0, 0)]
           i1 == <<x>>
           i3 == <<y, z>>
           S == {x, y, z} \cup {Item("kid", 3 * k - 1, 0, 0) : k \in 1 .. K}
           a == i1 \o kids
<1>0. K \in Nat /\ K = o \div 3
  OBVIOUS
<1>1. tree = a \o i3 /\ a = i1 \o kids
  OBVIOUS
<1>2. /\ x.t \in PdfObjects /\ y.t \in PdfObjects /\ z.t \in PdfObjects
      /\ x.a = 1 /\ y.a = o + 1 /\ z.a = o + 2
  BY DEF Item, PdfObjects
<1>3. \A k \in 1 .. K : kids[k] = Item("kid", 3 * k - 1, 0, 0)
  OBVIOUS
<1>4. \A k \in 1 .. K : kids[k].t \notin PdfObjects
  BY <1>3 DEF Item, PdfObjects
<1>5. kids \in [1 .. K -> S]
  <2> HIDE DEF K, Item, x, y, z
  <2> QED OBVIOUS
<1>6. x \in S /\ y \in S /\ z \in S
  <2> HIDE DEF x, y, z
  <2> QED OBVIOUS
<1> HIDE DEF K, kids, S, x, y, z, a
<1>7. kids \in Seq(S) /\ Len(kids) = K
  BY <1>0, <1>5, NumberedLen
<1>8. i1 \in Seq(S) /\ Len(i1) = 1 /\ i1[1] = x
  BY <1>6
<1>9. i3 \in Seq(S) /\ Len(i3) = 2 /\ i3[1] = y /\ i3[2] = z
  BY <1>6
<1> HIDE DEF i1, i3
<1>10. /\ a \in Seq(S) /\ Len(a) = K + 1 /\ \A k \in 1 .. 1 : a[k] = i1[k]
       /\ \A k \in 1 .. K : a[1 + k] = kids[k]
  <2>1. /\ a \in Seq(S) /\ Len(a) = Len(i1) + Len(kids)
        /\ \A k \in 1 .. Len(i1) : a[k] = i1[k]
        /\ \A k \in 1 .. Len(kids) : a[Len(i1) + k] = kids[k]
    <3>1. i1 \in Seq(S) /\ kids \in Seq(S)
      BY <1>7, <1>8
    <3> QED BY ONLY <1>1, <3>1, ConcatElements
  <2> QED BY <1>0, <1>7, <1>8, <2>1
<1>11. /\ tree \in Seq(S) /\ Len(tree) = K + 3 /\ \A k \in 1 .. K + 1 : tree[k] = a[k]
       /\ tree[K + 2] = i3[1] /\ tree[K + 3] = i3[2]
  <2>1. /\ tree \in Seq(S) /\ Extends(a, tree) /\ Len(tree) = Len(a) + 2
        /\ tree[Len(a) + 1] = i3[1] /\ tree[Len(a) + 2] = i3[2]
    <3>1. a \in Seq(S) /\ i3 \in Seq(S) /\ Len(i3) = 2
      BY <1>9, <1>10
    <3> QED BY ONLY <1>1, <3>1, ConcatTwo
  <2>2. K + 1 + 1 = K + 2 /\ K + 1 + 2 = K + 3 /\ Len(a) = K + 1
    BY <1>0, <1>10
  <2>3. \A k \in 1 .. K + 1 : tree[k] = a[k]
    BY <2>1, <2>2 DEF Extends
  <2> QED BY ONLY <2>1, <2>2, <2>3
<1>12. TreeAt(tree, o, images)
  <2>1. tree[1] = x
    BY <1>0, <1>8, <1>10, <1>11
  <2>2. ASSUME NEW k \in 1 .. K
        PROVE  tree[1 + k] = Item("kid", 3 * k - 1, 0, 0)
    <3>1. 1 + k \in 1 .. K + 1
      BY <1>0
    <3> QED BY ONLY k \in 1 .. K, <1>3, <1>10, <1>11, <3>1
  <2> QED BY <1>0, <1>9, <1>11, <2>1, <2>2 DEF TreeAt, x, y, z
<1> DEFINE d1 == Defobj(i1, at)
           d2 == Defobj(kids, at + 1)
           d3 == Defobj(i3, at + (K + 1))
           d == Defobj(tree, at)
<1>13. Defobj(a, at) = d1 \o d2
  <2>1. i1 \in Seq(S) /\ kids \in Seq(S) /\ at \in Int
    BY <1>7, <1>8
  <2>2. Defobj(a, at) = Defobj(i1, at) \o Defobj(kids, at + Len(i1))
    BY ONLY <1>1, <2>1, DefobjConcat
  <2> QED BY ONLY <1>8, <2>2
<1>14. d = (d1 \o d2) \o d3
  <2>1. a \in Seq(S) /\ i3 \in Seq(S) /\ at \in Int
    BY <1>9, <1>10
  <2>2. Defobj(tree, at) = Defobj(a, at) \o Defobj(i3, at + Len(a))
    BY ONLY <1>1, <2>1, DefobjConcat
  <2> QED BY ONLY <1>10, <1>13, <2>2
<1>15. d1 \in Seq(ObjDef) /\ Len(d1) = 1 /\ d1[1] = [id |-> 1, offset |-> at]
  BY <1>2, <1>8, DefobjOne
<1>16. d2 = <<>>
  <2>1. at + 1 \in Int /\ \A k \in 1 .. Len(kids) : kids[k].t \notin PdfObjects
    BY <1>4, <1>7
  <2> QED BY <1>7, <2>1, DefobjNone
<1>17. /\ d3 \in Seq(ObjDef) /\ Len(d3) = 2 /\ d3[1] = [id |-> o + 1, offset |-> at + (K + 1)]
       /\ d3[2] = [id |-> o + 2, offset |-> at + (K + 1) + 1]
  <2>1. at + (K + 1) \in Int /\ o + 1 \in Int /\ o + 2 \in Int
    BY <1>0
  <2> DEFINE c == at + (K + 1)
  <2>2. c \in Int
    BY <2>1
  <2> HIDE DEF c
  <2>3. /\ Defobj(i3, c) \in Seq(ObjDef) /\ Len(Defobj(i3, c)) = 2
        /\ Defobj(i3, c)[1] = [id |-> o + 1, offset |-> c]
        /\ Defobj(i3, c)[2] = [id |-> o + 2, offset |-> c + 1]
    <3>1. /\ i3 \in Seq(S) /\ Len(i3) = 2 /\ i3[1].t \in PdfObjects /\ i3[2].t \in PdfObjects
          /\ i3[1].a = o + 1 /\ i3[2].a = o + 2 /\ i3[1].a \in Int /\ i3[2].a \in Int
      BY <1>2, <1>9, <2>1
    <3>2. /\ Defobj(i3, c) \in Seq(ObjDef) /\ Len(Defobj(i3, c)) = 2
          /\ Defobj(i3, c)[1] = [id |-> i3[1].a, offset |-> c]
          /\ Defobj(i3, c)[2] = [id |-> i3[2].a, offset |-> c + 1]
      BY ONLY <2>2, <3>1, DefobjTwo
    <3> QED BY ONLY <3>1, <3>2
  <2> QED BY <2>3 DEF c
<1> HIDE DEF d1, d2, d3, d
<1>18. d1 \o d2 = d1
  BY ONLY <1>15, <1>16, ConcatEmptySeq
<1>19. d = d1 \o d3
  BY ONLY <1>14, <1>18
<1>20. /\ d \in Seq(ObjDef) /\ Extends(d1, d) /\ Len(d) = Len(d1) + 2
       /\ d[Len(d1) + 1] = d3[1] /\ d[Len(d1) + 2] = d3[2]
  BY ONLY <1>15, <1>17, <1>19, ConcatTwo
<1>21. TreeObjects(d, o, at)
  <2>1. d[1] = d1[1]
    BY <1>15, <1>20 DEF Extends
  <2>2. at + (K + 1) = at + o \div 3 + 1 /\ at + (K + 1) + 1 = at + o \div 3 + 2
    BY <1>0
  <2>3. Len(d) = 3 /\ d[2] = d3[1] /\ d[3] = d3[2]
    BY <1>15, <1>20
  <2> QED BY <1>15, <1>17, <1>20, <2>1, <2>2, <2>3 DEF TreeObjects
<1> QED BY <1>11, <1>12, <1>21 DEF d

\* The objects in the order of their numbers: the page tree, those of the images,
\* catalogue and info.
InOrder(sorted, o, objs, d) ==
    /\ sorted[1] = d[1] /\ sorted[o + 1] = d[2] /\ sorted[o + 2] = d[3]
    /\ \A n \in 2 .. o : sorted[n] = objs[n - 1]

(* All objects, sorted.                                                     *)
LEMMA ObjectsInOrder ==
    ASSUME NEW p, NEW objs \in Seq(ObjDef), NEW o \in Nat, Len(objs) = o - 1, Defined(p, objs),
           NEW d, NEW at, TreeObjects(d, o, at), NEW whole, whole = objs \o d
    PROVE  whole \in Seq(ObjDef) /\ Len(whole) = o + 2 /\ InOrder(ById(whole), o, objs, d)
<1>0. o \in Nat \ {0} /\ Len(objs) \in Nat /\ d \in Seq(ObjDef) /\ Len(d) = 3
  <2>1. Len(objs) \in Nat
    OBVIOUS
  <2> QED BY <2>1 DEF TreeObjects
<1>1. /\ whole \in Seq(ObjDef) /\ Len(whole) = o + 2
      /\ \A k \in 1 .. o - 1 : whole[k] = objs[k]
      /\ whole[o] = d[1] /\ whole[o + 1] = d[2] /\ whole[o + 2] = d[3]
  <2>1. /\ whole \in Seq(ObjDef) /\ Len(whole) = Len(objs) + Len(d)
        /\ \A i \in 1 .. Len(objs) : whole[i] = objs[i]
        /\ \A i \in 1 .. Len(d) : whole[Len(objs) + i] = d[i]
    <3>1. objs \in Seq(ObjDef) /\ d \in Seq(ObjDef)
      BY <1>0
    <3> QED BY ONLY <3>1, whole = objs \o d, ConcatElements
  <2>2. whole[Len(objs) + 1] = d[1] /\ whole[Len(objs) + 2] = d[2] /\ whole[Len(objs) + 3] = d[3]
    BY ONLY <1>0, <2>1
  <2>3. Len(objs) + 1 = o /\ Len(objs) + 2 = o + 1 /\ Len(objs) + 3 = o + 2
    BY <1>0
  <2> QED BY ONLY <1>0, Len(objs) = o - 1, <2>1, <2>2, <2>3
<1> HIDE DEF ObjDef
<1> DEFINE pos == [n \in 1 .. o + 2 |-> IF n = 1 THEN o ELSE IF n <= o THEN n - 1 ELSE n]
<1>2. /\ pos \in [1 .. o + 2 -> 1 .. o + 2] /\ pos[1] = o /\ pos[o + 1] = o + 1 /\ pos[o + 2] = o + 2
      /\ \A n \in 2 .. o : pos[n] = n - 1
  BY <1>0
<1> HIDE DEF pos
<1>3. whole[o].id = 1 /\ whole[o + 1].id = o + 1 /\ whole[o + 2].id = o + 2
  BY <1>1 DEF TreeObjects
<1>4. ASSUME NEW k \in 1 .. o - 1
      PROVE  whole[k].id = k + 1
  <2>1. k + 1 \in 2 .. Len(objs) + 1 /\ (k + 1) - 1 = k
    BY <1>0
  <2>2. objs[(k + 1) - 1].id = k + 1
    BY <2>1 DEF Defined
  <2> QED BY <1>1, <2>1, <2>2
<1>5. ASSUME NEW m \in 1 .. o + 2
      PROVE  whole[pos[m]].id = m
  <2>1. CASE m = 1
    BY <1>2, <1>3, <2>1
  <2>2. CASE m \in 2 .. o
    <3>1. m - 1 \in 1 .. o - 1 /\ (m - 1) + 1 = m
      BY <1>0, <2>2
    <3> QED BY <1>2, <1>4, <2>2, <3>1
  <2>3. CASE m = o + 1 \/ m = o + 2
    BY <1>2, <1>3, <2>3
  <2>4. m = 1 \/ m \in 2 .. o \/ m = o + 1 \/ m = o + 2
    BY ONLY <1>0, m \in 1 .. o + 2
  <2> QED BY ONLY <2>1, <2>2, <2>3, <2>4
<1>6. ASSUME NEW k \in 1 .. o + 2
      PROVE  whole[k].id \in 1 .. o + 2 /\ pos[whole[k].id] = k
  <2>1. CASE k \in 1 .. o - 1
    <3>1. k + 1 \in 2 .. o /\ (k + 1) - 1 = k /\ k + 1 \in 1 .. o + 2
      BY <1>0, <2>1
    <3> QED BY <1>2, <1>4, <2>1, <3>1
  <2>2. CASE k = o \/ k = o + 1 \/ k = o + 2
    <3>1. 1 \in 1 .. o + 2 /\ o + 1 \in 1 .. o + 2 /\ o + 2 \in 1 .. o + 2
      BY ONLY <1>0
    <3> QED BY ONLY <1>2, <1>3, <2>2, <3>1
  <2>3. k \in 1 .. o - 1 \/ k = o \/ k = o + 1 \/ k = o + 2
    BY ONLY <1>0, k \in 1 .. o + 2
  <2> QED BY ONLY <2>1, <2>2, <2>3
<1>7. Numbered(whole, o + 2, pos) /\ o + 2 \in Nat
  BY ONLY <1>0, <1>1, <1>2, <1>5, <1>6 DEF Numbered
<1>8. \A m \in 1 .. o + 2 : ById(whole)[m] = whole[pos[m]]
  BY ONLY <1>7, ByIdSorts
<1> DEFINE sorted == ById(whole)
<1> HIDE DEF sorted
<1>9. \A m \in 1 .. o + 2 : sorted[m] = whole[pos[m]]
  BY <1>8 DEF sorted
<1>10. sorted[1] = d[1] /\ sorted[o + 1] = d[2] /\ sorted[o + 2] = d[3]
  BY <1>0, <1>1, <1>2, <1>9
<1>11. ASSUME NEW n \in 2 .. o
       PROVE  sorted[n] = objs[n - 1]
  <2>1. n \in 1 .. o + 2 /\ n - 1 \in 1 .. o - 1
    BY <1>0
  <2> QED BY ONLY n \in 2 .. o, <1>1, <1>2, <1>9, <2>1
<1> QED BY ONLY <1>1, <1>10, <1>11 DEF InOrder, sorted

\* The table of n objects.
TableAt(table, sorted, n, o, at) ==
    /\ Len(table) = n + 3 /\ table[1] = Item("xref", n + 1, 0, 0)
    /\ \A m \in 1 .. n : table[1 + m] = Item("entry", sorted[m].offset, 0, 0)
    /\ table[n + 2] = Item("trailer", n + 1, o + 1, o + 2)
    /\ table[n + 3] = Item("startxref", at, 0, 0)

(* The table, item by item.                                                 *)
LEMMA TableItems ==
    ASSUME NEW n \in Nat, NEW o, NEW at, NEW sorted,
           NEW table, table = <<Item("xref", n + 1, 0, 0)>>
                              \o [m \in 1 .. n |-> Item("entry", sorted[m].offset, 0, 0)]
                              \o <<Item("trailer", n + 1, o + 1, o + 2), Item("startxref", at, 0, 0)>>
    PROVE  (\E S : table \in Seq(S)) /\ TableAt(table, sorted, n, o, at)
<1> DEFINE x == Item("xref", n + 1, 0, 0)
           y == Item("trailer", n + 1, o + 1, o + 2)
           z == Item("startxref", at, 0, 0)
           entries == [m \in 1 .. n |-> Item("entry", sorted[m].offset, 0, 0)]
           i1 == <<x>>
           i3 == <<y, z>>
           S == {x, y, z} \cup {Item("entry", sorted[m].offset, 0, 0) : m \in 1 .. n}
           a == i1 \o entries
<1>1. table = a \o i3 /\ a = i1 \o entries
  OBVIOUS
<1>3. \A m \in 1 .. n : entries[m] = Item("entry", sorted[m].offset, 0, 0)
  <2> HIDE DEF Item
  <2> QED OBVIOUS
<1>5. entries \in [1 .. n -> S]
  <2> HIDE DEF Item, x, y, z
  <2> QED OBVIOUS
<1>6. x \in S /\ y \in S /\ z \in S
  <2> HIDE DEF x, y, z
  <2> QED OBVIOUS
<1> HIDE DEF entries, S, x, y, z, a
<1>7. entries \in Seq(S) /\ Len(entries) = n
  BY <1>5, NumberedLen
<1>8. i1 \in Seq(S) /\ Len(i1) = 1 /\ i1[1] = x
  BY <1>6
<1>9. i3 \in Seq(S) /\ Len(i3) = 2 /\ i3[1] = y /\ i3[2] = z
  BY <1>6
<1> HIDE DEF i1, i3
<1>10. /\ a \in Seq(S) /\ Len(a) = n + 1 /\ \A k \in 1 .. 1 : a[k] = i1[k]
       /\ \A k \in 1 .. n : a[1 + k] = entries[k]
  <2>1. /\ a \in Seq(S) /\ Len(a) = Len(i1) + Len(entries)
        /\ \A k \in 1 .. Len(i1) : a[k] = i1[k]
        /\ \A k \in 1 .. Len(entries) : a[Len(i1) + k] = entries[k]
    <3>1. i1 \in Seq(S) /\ entries \in Seq(S)
      BY <1>7, <1>8
    <3> QED BY ONLY <1>1, <3>1, ConcatElements
  <2> QED BY ONLY n \in Nat, <1>7, <1>8, <2>1
<1>11. /\ table \in Seq(S) /\ Len(table) = n + 3 /\ \A k \in 1 .. n + 1 : table[k] = a[k]
       /\ table[n + 2] = i3[1] /\ table[n + 3] = i3[2]
  <2>1. /\ table \in Seq(S) /\ Extends(a, table) /\ Len(table) = Len(a) + 2
        /\ table[Len(a) + 1] = i3[1] /\ table[Len(a) + 2] = i3[2]
    <3>1. a \in Seq(S) /\ i3 \in Seq(S) /\ Len(i3) = 2
      BY <1>9, <1>10
    <3> QED BY ONLY <1>1, <3>1, ConcatTwo
  <2>2. n + 1 + 1 = n + 2 /\ n + 1 + 2 = n + 3 /\ Len(a) = n + 1
    BY <1>10
  <2>3. \A k \in 1 .. n + 1 : table[k] = a[k]
    BY <2>1, <2>2 DEF Extends
  <2> QED BY ONLY <2>1, <2>2, <2>3
<1>12. table[1] = x
  BY ONLY n \in Nat, <1>8, <1>10, <1>11
<1>13. ASSUME NEW m \in 1 .. n
       PROVE  table[1 + m] = Item("entry", sorted[m].offset, 0, 0)
  <2>1. 1 + m \in 1 .. n + 1
    OBVIOUS
  <2> QED BY ONLY m \in 1 .. n, <1>3, <1>10, <1>11, <2>1
<1>14. TableAt(table, sorted, n, o, at)
  BY ONLY <1>9, <1>11, <1>12, <1>13 DEF TableAt, x, y, z
<1> QED BY ONLY <1>11, <1>14

\* q is the document p with its page tree and, at x, its table.
Closes(p, q, o, images, sorted, x) ==
    /\ x = Len(p) + o \div 3 + 4 /\ Len(q) = x + o + 4 /\ Extends(p, q)
    /\ q[Len(p) + 1] = Item("pages", 1, images, 0)
    /\ \A k \in 1 .. o \div 3 : q[Len(p) + 1 + k] = Item("kid", 3 * k - 1, 0, 0)
    /\ q[x - 2] = Item("catalog", o + 1, 1, 0) /\ q[x - 1] = Item("info", o + 2, 0, 0)
    /\ q[x] = Item("xref", o + 3, 0, 0)
    /\ \A n \in 1 .. o + 2 : q[x + n] = Item("entry", sorted[n].offset, 0, 0)
    /\ q[x + o + 3] = Item("trailer", o + 3, o + 1, o + 2)
    /\ q[x + o + 4] = Item("startxref", x - 1, 0, 0)

\* What has been said of the two sequences, in one place.
Ending(S, p, tree, table, o, images, sorted) ==
    /\ p \in Seq(S) /\ tree \in Seq(S) /\ table \in Seq(S)
    /\ TreeAt(tree, o, images) /\ TableAt(table, sorted, o + 2, o, Len(p) + Len(tree))

(* The document after its end.                                              *)
LEMMA EndingCloses ==
    ASSUME NEW S, NEW p, NEW tree, NEW table, NEW o \in Nat, NEW images, NEW sorted,
           Ending(S, p, tree, table, o, images, sorted)
    PROVE  Closes(p, p \o (tree \o table), o, images, sorted, Len(p) + o \div 3 + 4)
<1> DEFINE K == o \div 3
           L == Len(p)
           x == L + K + 4
           b == tree \o table
           q == p \o b
<1>0. p \in Seq(S) /\ tree \in Seq(S) /\ table \in Seq(S)
  BY DEF Ending
<1>1. K \in Nat /\ L \in Nat /\ K = o \div 3 /\ L = Len(p) /\ x = L + K + 4
  <2>1. Len(p) \in Nat
    BY <1>0
  <2> QED BY <2>1
<1>2. /\ b \in Seq(S) /\ Len(b) = Len(tree) + Len(table)
      /\ \A i \in 1 .. Len(tree) : b[i] = tree[i]
      /\ \A i \in 1 .. Len(table) : b[Len(tree) + i] = table[i]
  BY ONLY <1>0, ConcatElements
<1> HIDE DEF b
<1>3. /\ q \in Seq(S) /\ Len(q) = L + Len(b)
      /\ \A i \in 1 .. L : q[i] = p[i]
      /\ \A i \in 1 .. Len(b) : q[L + i] = b[i]
  <2>1. p \in Seq(S) /\ b \in Seq(S)
    BY <1>0, <1>2
  <2> QED BY ONLY <2>1, ConcatElements
<1> HIDE DEF q, K, L, x
<1>4. /\ Len(tree) = K + 3 /\ tree[1] = Item("pages", 1, images, 0)
      /\ \A k \in 1 .. K : tree[1 + k] = Item("kid", 3 * k - 1, 0, 0)
      /\ tree[K + 2] = Item("catalog", o + 1, 1, 0)
      /\ tree[K + 3] = Item("info", o + 2, 0, 0)
  BY <1>1 DEF Ending, TreeAt
<1>5. /\ Len(table) = (o + 2) + 3 /\ table[1] = Item("xref", (o + 2) + 1, 0, 0)
      /\ \A m \in 1 .. o + 2 : table[1 + m] = Item("entry", sorted[m].offset, 0, 0)
      /\ table[(o + 2) + 2] = Item("trailer", (o + 2) + 1, o + 1, o + 2)
      /\ table[(o + 2) + 3] = Item("startxref", L + (K + 3), 0, 0)
  BY <1>1, <1>4 DEF Ending, TableAt
<1>6. Len(b) = K + o + 8
  <2>1. Len(tree) = K + 3 /\ Len(table) = (o + 2) + 3 /\ Len(b) = Len(tree) + Len(table)
    BY <1>2, <1>4, <1>5
  <2> QED BY ONLY <1>1, <2>1, o \in Nat
<1>7. ASSUME NEW i \in 1 .. K + 3
      PROVE  q[L + i] = tree[i]
  <2>1. i \in 1 .. Len(tree) /\ i \in 1 .. Len(b)
    BY <1>1, <1>4, <1>6
  <2> QED BY ONLY <1>2, <1>3, <2>1
<1>8. ASSUME NEW i \in 1 .. o + 5
      PROVE  q[L + (K + 3 + i)] = table[i]
  <2>1. i \in 1 .. Len(table) /\ K + 3 + i \in 1 .. Len(b) /\ Len(tree) + i = K + 3 + i
    BY <1>1, <1>4, <1>5, <1>6
  <2>2. q[L + (K + 3 + i)] = b[K + 3 + i]
    BY ONLY <1>3, <2>1
  <2> QED BY ONLY <1>2, <2>1, <2>2
<1> HIDE DEF Item
<1>9. /\ q[L + 1] = Item("pages", 1, images, 0)
      /\ q[x - 2] = Item("catalog", o + 1, 1, 0) /\ q[x - 1] = Item("info", o + 2, 0, 0)
  <2>1. /\ 1 \in 1 .. K + 3 /\ K + 2 \in 1 .. K + 3 /\ K + 3 \in 1 .. K + 3
        /\ L + (K + 2) = x - 2 /\ L + (K + 3) = x - 1
    BY <1>1
  <2>2. q[L + 1] = tree[1] /\ q[L + (K + 2)] = tree[K + 2] /\ q[L + (K + 3)] = tree[K + 3]
    BY ONLY <1>7, <2>1
  <2> QED BY ONLY <1>4, <2>1, <2>2
<1>10. ASSUME NEW k \in 1 .. K
       PROVE  q[L + 1 + k] = Item("kid", 3 * k - 1, 0, 0)
  <2>1. 1 + k \in 1 .. K + 3 /\ L + (1 + k) = L + 1 + k
    BY <1>1
  <2>2. q[L + (1 + k)] = tree[1 + k]
    BY ONLY <1>7, <2>1
  <2> QED BY ONLY k \in 1 .. K, <1>4, <2>1, <2>2
<1>11. /\ q[x] = Item("xref", o + 3, 0, 0)
       /\ q[x + o + 3] = Item("trailer", o + 3, o + 1, o + 2)
       /\ q[x + o + 4] = Item("startxref", x - 1, 0, 0)
  <2>1. /\ 1 \in 1 .. o + 5 /\ o + 4 \in 1 .. o + 5 /\ o + 5 \in 1 .. o + 5
        /\ L + (K + 3 + 1) = x /\ L + (K + 3 + (o + 4)) = x + o + 3 /\ L + (K + 3 + (o + 5)) = x + o + 4
        /\ (o + 2) + 1 = o + 3 /\ (o + 2) + 2 = o + 4 /\ (o + 2) + 3 = o + 5 /\ L + (K + 3) = x - 1
    BY <1>1
  <2>2. /\ q[L + (K + 3 + 1)] = table[1] /\ q[L + (K + 3 + (o + 4))] = table[o + 4]
        /\ q[L + (K + 3 + (o + 5))] = table[o + 5]
    BY ONLY <1>8, <2>1
  <2> QED BY ONLY <1>5, <2>1, <2>2
<1>12. ASSUME NEW n \in 1 .. o + 2
       PROVE  q[x + n] = Item("entry", sorted[n].offset, 0, 0)
  <2>1. 1 + n \in 1 .. o + 5 /\ L + (K + 3 + (1 + n)) = x + n
    BY <1>1
  <2>2. q[L + (K + 3 + (1 + n))] = table[1 + n]
    BY ONLY <1>8, <2>1
  <2> QED BY ONLY n \in 1 .. o + 2, <1>5, <2>1, <2>2
<1>13. Len(q) = x + o + 4 /\ Extends(p, q)
  BY <1>1, <1>3, <1>6 DEF Extends
<1>14. Closes(p, q, o, images, sorted, x)
  BY ONLY <1>1, <1>9, <1>10, <1>11, <1>12, <1>13 DEF Closes
<1> QED BY ONLY <1>1, <1>14 DEF q, b

\* What the table at x finds for object n.
Entry(q, x, n) == q[q[x + n].a + 1]
Finds(p, q, o, images, objs, x) ==
    /\ x \in 1 .. Len(q) /\ q[x] = Item("xref", o + 3, 0, 0)
    /\ \A i \in 1 .. Len(q) : q[i].t = "xref" => i = x
    /\ q[Len(q)] = Item("startxref", x - 1, 0, 0)
    /\ \A n \in 2 .. o : Entry(q, x, n) = Definition(p, objs, n)
    /\ Entry(q, x, 1) = Item("pages", 1, images, 0)
    /\ Entry(q, x, o + 1) = Item("catalog", o + 1, 1, 0)
    /\ Entry(q, x, o + 2) = Item("info", o + 2, 0, 0)

(* The kinds of what follows p.                                             *)
LEMMA ClosesKinds ==
    ASSUME NEW S, NEW p \in Seq(S), NEW q, NEW o \in Nat, NEW images, NEW sorted, NEW x,
           Closes(p, q, o, images, sorted, x)
    PROVE  /\ x \in Nat /\ x > Len(p) + 3
           /\ \A i \in Len(p) + 1 .. Len(q) :
                 /\ i = x => q[i].t = "xref"
                 /\ i # x => q[i].t \in {"pages", "kid", "catalog", "info", "entry", "trailer", "startxref"}
                 /\ q[i].t = "kid" <=> i \in Len(p) + 2 .. Len(p) + 1 + o \div 3
<1> DEFINE K == o \div 3
           L == Len(p)
<1>1. K \in Nat /\ L \in Nat /\ x = L + K + 4 /\ Len(q) = x + o + 4 /\ L = Len(p) /\ K = o \div 3
  <2>1. Len(p) \in Nat /\ o \div 3 \in Nat
    OBVIOUS
  <2>2. x = Len(p) + o \div 3 + 4 /\ Len(q) = x + o + 4
    BY DEF Closes
  <2> QED BY ONLY <2>1, <2>2
<1>2. /\ q[L + 1].t = "pages" /\ q[x - 2].t = "catalog" /\ q[x - 1].t = "info" /\ q[x].t = "xref"
      /\ q[x + o + 3].t = "trailer" /\ q[x + o + 4].t = "startxref"
  BY DEF Closes, Item
<1> HIDE DEF K, L
<1>3. \A k \in 1 .. K : q[L + 1 + k].t = "kid"
  <2>1. \A k \in 1 .. K : q[L + 1 + k] = Item("kid", 3 * k - 1, 0, 0)
    BY ONLY <1>1, Closes(p, q, o, images, sorted, x) DEF Closes
  <2>2. \A a : Item("kid", a, 0, 0).t = "kid"
    BY DEF Item
  <2> QED BY ONLY <2>1, <2>2
<1>4. \A n \in 1 .. o + 2 : q[x + n].t = "entry"
  <2>1. \A n \in 1 .. o + 2 : q[x + n] = Item("entry", sorted[n].offset, 0, 0)
    BY ONLY Closes(p, q, o, images, sorted, x) DEF Closes
  <2>2. \A a : Item("entry", a, 0, 0).t = "entry"
    BY DEF Item
  <2> QED BY ONLY <2>1, <2>2
<1>5. ASSUME NEW i \in L + 1 .. Len(q)
      PROVE  /\ i = x => q[i].t = "xref"
             /\ i # x => q[i].t \in {"pages", "kid", "catalog", "info", "entry", "trailer", "startxref"}
             /\ q[i].t = "kid" <=> i \in L + 2 .. L + 1 + K
  <2>1. CASE i \in L + 2 .. L + 1 + K
    <3>1. i - L - 1 \in 1 .. K /\ L + 1 + (i - L - 1) = i /\ i # x
      BY <1>1, <2>1
    <3>2. q[i].t = "kid"
      BY ONLY <1>3, <3>1
    <3> QED BY ONLY <2>1, <3>1, <3>2
  <2>2. CASE i \in x + 1 .. x + o + 2
    <3>1. i - x \in 1 .. o + 2 /\ x + (i - x) = i /\ i # x /\ i \notin L + 2 .. L + 1 + K
      BY <1>1, <2>2
    <3>2. q[i].t = "entry"
      BY ONLY <1>4, <3>1
    <3> QED BY ONLY <3>1, <3>2
  <2>3. CASE i \in {L + 1, x - 2, x - 1, x + o + 3, x + o + 4}
    <3>1. i # x /\ i \notin L + 2 .. L + 1 + K
      BY <1>1, <2>3
    <3> QED BY ONLY <1>2, <2>3, <3>1
  <2>4. CASE i = x
    <3>1. i \notin L + 2 .. L + 1 + K
      BY <1>1, <2>4
    <3> QED BY ONLY <1>2, <2>4, <3>1
  <2>5. \/ i \in L + 2 .. L + 1 + K \/ i \in x + 1 .. x + o + 2
        \/ i \in {L + 1, x - 2, x - 1, x + o + 3, x + o + 4} \/ i = x
    BY <1>1
  <2> QED BY ONLY <2>1, <2>2, <2>3, <2>4, <2>5
<1>6. x \in Nat /\ x > L + 3
  BY <1>1
<1> QED BY ONLY <1>1, <1>5, <1>6

(* The table finds every object.                                            *)
LEMMA TableFinds ==
    ASSUME NEW S, NEW p \in Seq(S), NEW objs \in Seq(ObjDef), NEW images \in Nat, NEW open \in 0 .. 1,
           Layout(p, objs, images, open), NEW o, o = 3 * images + 1 + 2 * open,
           NEW d, TreeObjects(d, o, Len(p)), NEW sorted, InOrder(sorted, o, objs, d),
           NEW q, NEW x, Closes(p, q, o, images, sorted, x)
    PROVE  Finds(p, q, o, images, objs, x)
<1> DEFINE K == o \div 3
           L == Len(p)
<1>0. o \in Nat /\ o >= 1 /\ Len(objs) = o - 1
  BY DEF Layout
<1>1. K \in Nat /\ L \in Nat /\ x = L + K + 4 /\ Len(q) = x + o + 4 /\ L = Len(p) /\ K = o \div 3
  BY <1>0 DEF Closes
<1>2. ASSUME NEW i \in 1 .. Len(q), q[i].t = "xref"
      PROVE  i = x
  <2>1. CASE i \in 1 .. L
    <3>1. q[i] = p[i]
      BY <2>1 DEF Closes, Extends
    <3>2. p[i].t # "xref"
      BY <2>1 DEF Layout, NoEnd
    <3> QED BY <1>2, <3>1, <3>2
  <2>2. CASE i \notin 1 .. L
    <3>1. i \in Len(p) + 1 .. Len(q)
      BY <1>1, <2>2
    <3>2. i # x => q[i].t \in {"pages", "kid", "catalog", "info", "entry", "trailer", "startxref"}
      BY <1>0, <3>1, ClosesKinds
    <3> QED BY <1>2, <3>2
  <2> QED BY <2>1, <2>2
<1>3. ASSUME NEW n \in 1 .. o + 2
      PROVE  q[x + n].a = sorted[n].offset
  <2>1. q[x + n] = Item("entry", sorted[n].offset, 0, 0)
    BY ONLY n \in 1 .. o + 2, Closes(p, q, o, images, sorted, x) DEF Closes
  <2>2. \A a : Item("entry", a, 0, 0).a = a
    BY DEF Item
  <2> QED BY ONLY <2>1, <2>2
<1>4. ASSUME NEW n \in 2 .. o
      PROVE  Entry(q, x, n) = Definition(p, objs, n)
  <2>1. n \in 1 .. o + 2 /\ n \in 2 .. Len(objs) + 1
    BY <1>0
  <2>2. sorted[n] = objs[n - 1]
    BY DEF InOrder
  <2> DEFINE f == objs[n - 1].offset
  <2>3. f \in 0 .. Len(p) - 1
    BY <2>1 DEF Layout, Defined
  <2>4. q[x + n].a = f
    BY <1>3, <2>1, <2>2
  <2> HIDE DEF f
  <2>5. f + 1 \in 1 .. Len(p)
    BY <1>1, <2>3
  <2>6. q[f + 1] = p[f + 1]
    BY <2>5 DEF Closes, Extends
  <2> QED BY <2>4, <2>6 DEF Entry, Definition, f
<1> HIDE DEF K, L
<1>5. Entry(q, x, 1) = q[L + 1] /\ Entry(q, x, o + 1) = q[x - 2] /\ Entry(q, x, o + 2) = q[x - 1]
  <2>1. 1 \in 1 .. o + 2 /\ o + 1 \in 1 .. o + 2 /\ o + 2 \in 1 .. o + 2
    BY <1>0
  <2>2. /\ q[x + 1].a = sorted[1].offset /\ q[x + (o + 1)].a = sorted[o + 1].offset
        /\ q[x + (o + 2)].a = sorted[o + 2].offset
    BY ONLY <1>3, <2>1
  <2>3. sorted[1].offset = L /\ sorted[o + 1].offset = L + K + 1 /\ sorted[o + 2].offset = L + K + 2
    BY <1>1 DEF InOrder, TreeObjects
  <2>4. L + K + 1 + 1 = x - 2 /\ L + K + 2 + 1 = x - 1
    BY <1>1
  <2> QED BY ONLY <2>2, <2>3, <2>4 DEF Entry
<1>6. x \in 1 .. Len(q) /\ Len(q) = x + o + 4
  BY <1>0, <1>1
<1>7. /\ q[L + 1] = Item("pages", 1, images, 0) /\ q[x - 2] = Item("catalog", o + 1, 1, 0)
      /\ q[x - 1] = Item("info", o + 2, 0, 0) /\ q[x] = Item("xref", o + 3, 0, 0)
      /\ q[x + o + 4] = Item("startxref", x - 1, 0, 0)
  BY ONLY <1>1, Closes(p, q, o, images, sorted, x) DEF Closes
<1> QED BY ONLY <1>2, <1>4, <1>5, <1>6, <1>7 DEF Finds

-----------------------------------------------------------------------------
(* The document as it grows.                                                *)

\* 1 inside an image.
Open == IF mCurrentLine = 0 THEN 0 ELSE 1
Writing == mDocumentFormat = "pdf" /\ ~Ended /\ ~chunkBad

\* A job that has not failed, and whose images are as high as announced.
Regular ==
    /\ mState \in {"processing", "completed", "pending"}
    /\ \A f \in 1 .. Len(frames) - 1 : frames[f] = Height
    /\ frames[Len(frames)] <= Height

\* Offsets count from the beginning of the document, whatever has already left
\* the chunk; the objects written so far are found where the list says.
PdfInv ==
    Writing =>
        /\ mBegin = 0 /\ mTotalWritten + Len(chunk) = Len(payload)
        /\ DocumentBegins => payload = <<>> /\ mObjects = <<>>
        /\ ~DocumentBegins => mObj = 3 * mCurrentImage + 1 + 2 * Open
        /\ mObjects \in Seq(ObjDef) /\ Layout(payload, mObjects, mCurrentImage, Open)
        /\ Regular => Images(payload, mObjects, mCurrentImage, mCurrentLine, Open)

\* The images that are complete, and the lines of the last one.
Counted ==
    \/ /\ mCurrentImage = Len(frames) - 1 /\ mCurrentLine = frames[Len(frames)]
       /\ frames[Len(frames)] < Height
    \/ mCurrentImage = Len(frames) /\ mCurrentLine = 0 /\ frames[Len(frames)] = Height
CountInv ==
    /\ mState = "processing" => mImagesCompleted = Len(frames) - 1
    /\ mState \in {"completed", "pending"} => mImagesCompleted = Len(frames)
    /\ ~Ended /\ Regular => Counted

(* A set for everything that a line inserts.                                *)
LEMMA PiecesOver ==
    ASSUME NEW S, NEW p \in Seq(S), NEW x, NEW first, NEW begins, NEW ends, NEW o1, NEW o2
    PROVE  \E U : /\ p \in Seq(U) /\ x \in U
                  /\ When(first, <<Mark("header")>>) \in Seq(U)
                  /\ When(begins, PdfImageBegin(o1)) \in Seq(U)
                  /\ When(ends, PdfImageEnd(o2)) \in Seq(U)
<1> DEFINE a == Mark("header")
           b == Item("page", o1 + 1, o1 + 3, o1 + 2)
           c == Item("image", o1 + 2, 0, 0)
           d == Mark("endstream")
           e == Item("contents", o2 + 1, 0, 0)
           U == S \cup {x, a, b, c, d, e}
<1>1. PdfImageBegin(o1) = <<b, c>> /\ PdfImageEnd(o2) = <<d, e>>
  BY DEF PdfImageBegin, PdfImageEnd
<1> HIDE DEF a, b, c, d, e
<1>2. S \subseteq U /\ x \in U /\ a \in U /\ b \in U /\ c \in U /\ d \in U /\ e \in U
  OBVIOUS
<1> HIDE DEF U
<1>3. p \in Seq(U)
  BY <1>2, SeqMonotonic
<1>4. <<>> \in Seq(U) /\ <<a>> \in Seq(U) /\ <<b, c>> \in Seq(U) /\ <<d, e>> \in Seq(U)
  BY <1>2
<1>5. /\ When(first, <<a>>) \in Seq(U) /\ When(begins, <<b, c>>) \in Seq(U)
      /\ When(ends, <<d, e>>) \in Seq(U)
  BY <1>4 DEF When
<1> QED BY <1>1, <1>2, <1>3, <1>5 DEF a

(* A line more in the last image.                                           *)
LEMMA RegularLine ==
    ASSUME EncoderInv, Regular', mState' = mState, frames' = [frames EXCEPT ![Len(frames)] = @ + 1]
    PROVE  /\ Regular /\ frames[Len(frames)] < Height /\ Len(frames') = Len(frames)
           /\ frames'[Len(frames')] = frames[Len(frames)] + 1
<1>1. frames \in Seq(0 .. MaxRows) /\ Len(frames) \in 1 .. MaxFrames /\ Len(frames) \in Nat
  BY DEF EncoderInv
<1>2. /\ Len(frames') = Len(frames) /\ frames'[Len(frames)] = frames[Len(frames)] + 1
      /\ \A f \in 1 .. Len(frames) - 1 : frames'[f] = frames[f]
  BY <1>1
<1>3. frames[Len(frames)] \in 0 .. MaxRows
  BY <1>1
<1>4. frames'[Len(frames)] <= Height /\ \A f \in 1 .. Len(frames) - 1 : frames'[f] = Height
  BY <1>2 DEF Regular
<1>5. frames[Len(frames)] < Height /\ frames[Len(frames)] <= Height
  <2> DEFINE l == frames[Len(frames)]
  <2>1. l \in 0 .. MaxRows /\ l + 1 <= Height /\ Height \in Nat /\ MaxRows \in Nat
    BY ONLY <1>2, <1>3, <1>4, DocumentAssumption DEF DocumentAssumption
  <2> HIDE DEF l
  <2>2. l < Height /\ l <= Height
    BY ONLY <2>1
  <2> QED BY ONLY <2>2 DEF l
<1>6. \A f \in 1 .. Len(frames) - 1 : frames[f] = Height
  BY <1>2, <1>4
<1>7. mState \in {"processing", "completed", "pending"}
  BY DEF Regular
<1> QED BY <1>2, <1>5, <1>6, <1>7 DEF Regular

(* A line of a PDF.                                                         *)
LEMMA PdfLineKept ==
    ASSUME IInv, PdfInv, CountInv, WriteLine, mDocumentFormat = "pdf"
    PROVE  PdfInv'
<1> DEFINE images == mCurrentImage
           line == mCurrentLine
           o == IF DocumentBegins THEN 1 ELSE mObj
           in == IF ImageBegins THEN o + 2 ELSE o
           x == Line
           i1 == When(DocumentBegins, <<Mark("header")>>)
           i2 == When(ImageBegins, PdfImageBegin(o))
           i4 == When(ImageEnds, PdfImageEnd(in))
           items == i1 \o i2 \o <<x>> \o i4
<1>1. /\ pc = "loop" /\ ~chunkBad /\ IsProcessing /\ PdfWriteLine /\ CountLine /\ pc' = "flush"
      /\ frames' = [frames EXCEPT ![Len(frames)] = @ + 1]
      /\ UNCHANGED <<mDocumentFormat, mState>>
  BY DEF WriteLine, ticketVars, jobVars
<1>2. EncoderInv /\ (\E S : Over(S)) /\ BuffersInv
  BY DEF IInv
<1>3. /\ images \in Nat /\ line \in 0 .. Height - 1 /\ mObj \in Int /\ mTotalWritten \in Nat
      /\ frames \in Seq(0 .. MaxRows) /\ Len(frames) \in 1 .. MaxFrames
      /\ Height \in Nat /\ MaxRows \in Nat
  BY <1>2 DEF EncoderInv, BuffersInv
<1>4. Writing
  BY <1>1 DEF Writing, Ended
<1>5. /\ mBegin = 0 /\ mTotalWritten + Len(chunk) = Len(payload)
      /\ DocumentBegins => payload = <<>> /\ mObjects = <<>>
      /\ ~DocumentBegins => mObj = 3 * images + 1 + 2 * Open
      /\ mObjects \in Seq(ObjDef) /\ Layout(payload, mObjects, images, Open)
      /\ Regular => Images(payload, mObjects, images, line, Open)
  BY <1>4 DEF PdfInv
<1>6. /\ Insert(items) /\ mBegin' = (IF DocumentBegins THEN Tellp ELSE mBegin)
      /\ mObjects' = (IF DocumentBegins THEN <<>> ELSE mObjects) \o Defobj(items, Tellp - mBegin')
      /\ mObj' = IF ImageEnds THEN in + 1 ELSE in
  BY <1>1 DEF PdfWriteLine
<1>7. PICK S : payload \in Seq(S) /\ chunk \in Seq(S)
  BY <1>2 DEF Over
<1>8. Len(payload) \in Nat /\ Len(chunk) \in Nat
  BY <1>7
<1>9. Tellp = Len(payload) /\ mBegin' = 0 /\ Tellp - mBegin' = Len(payload)
  <2>1. Tellp = Len(payload)
    BY <1>1, <1>5 DEF Tellp
  <2>2. DocumentBegins => Len(payload) = 0
    BY <1>5
  <2>3. mBegin' = 0
    BY <1>5, <1>6, <2>1, <2>2
  <2> QED BY <1>8, <2>1, <2>3
<1>10. (IF DocumentBegins THEN <<>> ELSE mObjects) = mObjects
  BY <1>5
<1>11. /\ payload' = payload \o items /\ chunk' = chunk \o items /\ ~chunkBad'
       /\ mTotalWritten' = mTotalWritten
       /\ mObjects' = mObjects \o Defobj(items, Len(payload))
  BY <1>1, <1>6, <1>9, <1>10 DEF Insert
<1>12. Open = (IF ImageBegins THEN 0 ELSE 1) /\ Open \in 0 .. 1
  BY DEF Open, ImageBegins
<1>13. o = 3 * images + 1 + 2 * Open /\ in = 3 * images + 3 /\ (ImageBegins => o = 3 * images + 1)
  <2>1. DocumentBegins => images = 0 /\ ImageBegins
    BY DEF DocumentBegins, ImageBegins
  <2> QED BY <1>3, <1>5, <1>12, <2>1
<1> DEFINE n == IF ImageEnds THEN images + 1 ELSE images
           now == IF ImageEnds THEN 0 ELSE 1
<1>14. mCurrentImage' = n /\ mCurrentLine' = (IF ImageEnds THEN 0 ELSE line + 1) /\ Open' = now
  <2>1. mCurrentImage' = n /\ mCurrentLine' = (IF ImageEnds THEN 0 ELSE line + 1)
    BY <1>1 DEF CountLine
  <2> QED BY <1>3, <2>1 DEF Open
<1>15. ~DocumentBegins' /\ mObj' = 3 * n + 1 + 2 * now
  <2>1. ~DocumentBegins'
    BY <1>3, <1>14 DEF DocumentBegins
  <2>2. mObj' = 3 * n + 1 + 2 * now
    BY <1>3, <1>6, <1>13
  <2> QED BY <2>1, <2>2
<1>16. /\ i2 = When(ImageBegins, PdfImageBegin(3 * images + 1))
       /\ i4 = When(ImageEnds, PdfImageEnd(3 * images + 3))
  <2> HIDE DEF o, in
  <2> QED BY <1>13 DEF When
<1>17. x.t = "line" /\ x = Item("line", Len(frames), frames[Len(frames)] + 1, 0)
  BY <1>3 DEF Line, Item, Last
<1>18. PICK U : payload \in Seq(U) /\ x \in U /\ i1 \in Seq(U) /\ i2 \in Seq(U) /\ i4 \in Seq(U)
  BY <1>7, PiecesOver
<1> HIDE DEF x, i1, i2, i4, o, in, items, n, now
<1> DEFINE p == payload
           objs == mObjects
           first == DocumentBegins
           begins == ImageBegins
           ends == ImageEnds
           more == objs \o Defobj(items, Len(p))
           q == p \o items
           open == Open
<1>19. /\ first \in BOOLEAN /\ begins \in BOOLEAN /\ ends \in BOOLEAN /\ line \in Nat
       /\ (first => images = 0 /\ begins) /\ (begins => line = 0) /\ (ends => line + 1 = Height)
       /\ open = (IF begins THEN 0 ELSE 1)
  BY <1>3, <1>12 DEF DocumentBegins, ImageBegins, ImageEnds
<1>20. /\ i1 = When(first, <<Mark("header")>>) /\ items = i1 \o i2 \o <<x>> \o i4
       /\ n = (IF ends THEN images + 1 ELSE images) /\ now = (IF ends THEN 0 ELSE 1)
       /\ q = p \o items /\ more = objs \o Defobj(items, Len(p))
  BY Zenon DEF i1, items, n, now
<1>21. /\ p \in Seq(U) /\ x \in U /\ i1 \in Seq(U) /\ i2 \in Seq(U) /\ i4 \in Seq(U)
       /\ objs \in Seq(ObjDef) /\ images \in Nat /\ Layout(p, objs, images, open)
       /\ i2 = When(begins, PdfImageBegin(3 * images + 1))
       /\ i4 = When(ends, PdfImageEnd(3 * images + 3))
       /\ x.t = "line"
  BY <1>3, <1>5, <1>16, <1>17, <1>18
<1> HIDE DEF p, objs, first, begins, ends, more, q, open, images, line
<1>22. LinePieces(U, p, objs, images, line, first, begins, ends, open, x, i1, i2, i4, items, q, more, n, now)
  BY ONLY <1>19, <1>20, <1>21 DEF LinePieces
<1>23. /\ q \in Seq(U) /\ more \in Seq(ObjDef) /\ Layout(q, more, n, now)
       /\ x = Item("line", images + 1, line + 1, 0) /\ Images(p, objs, images, line, open)
          => Images(q, more, n, IF ends THEN 0 ELSE line + 1, now)
  BY ONLY <1>22, WriteLineLayout
<1>24. payload' = q /\ mObjects' = more
  BY <1>11, <1>20 DEF p, objs
<1>25. Regular' => Images(payload', mObjects', n, mCurrentLine', now)
  <2> SUFFICES ASSUME Regular'
               PROVE  Images(payload', mObjects', n, mCurrentLine', now)
    OBVIOUS
  <2>1. Regular /\ frames[Len(frames)] < Height
    <3>1. mState' = mState /\ frames' = [frames EXCEPT ![Len(frames)] = @ + 1]
      BY <1>1
    <3> QED BY ONLY <1>2, <3>1, Regular', RegularLine
  <2>2. images = Len(frames) - 1 /\ line = frames[Len(frames)]
    BY <1>1, <1>3, <2>1 DEF CountInv, Counted, Ended, images, line
  <2>3. images + 1 = Len(frames)
    BY <1>3, <2>2
  <2>4. x = Item("line", images + 1, line + 1, 0)
    BY ONLY <1>17, <2>2, <2>3
  <2>5. Images(p, objs, images, line, open)
    BY <1>5, <2>1 DEF p, objs, images, line, open
  <2>6. mCurrentLine' = (IF ends THEN 0 ELSE line + 1)
    BY <1>14 DEF ends, line
  <2> QED BY ONLY <1>23, <1>24, <2>4, <2>5, <2>6
<1>26. mTotalWritten' + Len(chunk') = Len(payload')
  <2> DEFINE R == S \cup U
  <2>1. items \in Seq(R) /\ chunk \in Seq(R) /\ payload \in Seq(R)
    <3>1. /\ chunk \in Seq(R) /\ payload \in Seq(R) /\ x \in R
          /\ i1 \in Seq(R) /\ i2 \in Seq(R) /\ i4 \in Seq(R)
      BY <1>7, <1>18, SeqMonotonic
    <3> HIDE DEF R
    <3> DEFINE i3 == <<x>>
               a == i1 \o i2
               b == a \o i3
    <3>2. i3 \in Seq(R)
      BY <3>1
    <3>3. a \in Seq(R)
      BY ONLY <3>1, ConcatElements
    <3>4. items = b \o i4
      BY <1>20
    <3> HIDE DEF i3, a
    <3>5. b \in Seq(R)
      BY ONLY <3>2, <3>3, ConcatElements
    <3> HIDE DEF b
    <3>6. b \o i4 \in Seq(R)
      <4>1. b \in Seq(R) /\ i4 \in Seq(R)
        BY <3>1, <3>5
      <4> QED BY ONLY <4>1, ConcatElements
    <3> QED BY ONLY <3>1, <3>4, <3>6
  <2> HIDE DEF R
  <2>2. Len(chunk \o items) = Len(chunk) + Len(items) /\ Len(payload \o items) = Len(payload) + Len(items)
    BY ONLY <2>1, ConcatElements
  <2>3. Len(items) \in Nat
    BY <2>1
  <2>4. Len(chunk') = Len(chunk) + Len(items) /\ Len(payload') = Len(payload) + Len(items)
    BY ONLY <1>11, <2>2
  <2>5. mTotalWritten' = mTotalWritten /\ mTotalWritten + Len(chunk) = Len(payload) /\ mTotalWritten \in Nat
    BY <1>3, <1>5, <1>11
  <2> QED BY ONLY <1>8, <2>3, <2>4, <2>5
<1>27. /\ mBegin' = 0 /\ mTotalWritten' + Len(chunk') = Len(payload') /\ ~DocumentBegins'
       /\ mObj' = 3 * mCurrentImage' + 1 + 2 * Open'
       /\ mObjects' \in Seq(ObjDef) /\ Layout(payload', mObjects', mCurrentImage', Open')
       /\ Regular' => Images(payload', mObjects', mCurrentImage', mCurrentLine', Open')
  BY ONLY <1>9, <1>14, <1>15, <1>23, <1>24, <1>25, <1>26
<1> QED BY ONLY <1>27 DEF PdfInv

\* A step that writes nothing, neither a line nor the end of the document.
Quiet ==
    /\ UNCHANGED <<mDocumentFormat, payload, lineVars, pdfVars, held>>
    /\ mTotalWritten' + Len(chunk') = mTotalWritten + Len(chunk)
    /\ Ended' = Ended /\ (~chunkBad' => ~chunkBad) /\ (Regular' => Regular)
    /\ pc = "thrown" => pc' = "thrown"
    /\ Ended => UNCHANGED <<frames, mImagesCompleted>> /\ mState' \in {mState, "canceled"}

\* A step that leaves the lines counted as they are.
Idle ==
    /\ UNCHANGED <<mImagesCompleted, lineVars>>
    /\ mState' \in {mState, "aborted", "canceled"}
    /\ mState' = mState => frames' = frames
    /\ Ended => Ended'

(* An image more in a job of the concat kind.                               *)
LEMMA FramesAppend ==
    ASSUME EncoderInv, Regular', mState = "processing", frames' = Append(frames, 0)
    PROVE  /\ Regular /\ frames[Len(frames)] = Height /\ Len(frames') = Len(frames) + 1
           /\ frames'[Len(frames')] = 0
<1>1. frames \in Seq(0 .. MaxRows) /\ Len(frames) \in 1 .. MaxFrames /\ Len(frames) \in Nat
  BY DEF EncoderInv
<1>2. /\ Len(frames') = Len(frames) + 1 /\ frames'[Len(frames) + 1] = 0
      /\ \A f \in 1 .. Len(frames) : frames'[f] = frames[f]
  BY <1>1
<1>3. \A f \in 1 .. Len(frames) : frames'[f] = Height
  BY <1>1, <1>2 DEF Regular
<1>4. \A f \in 1 .. Len(frames) : frames[f] = Height
  BY <1>2, <1>3
<1>5. Len(frames) \in 1 .. Len(frames) /\ \A f \in 1 .. Len(frames) - 1 : f \in 1 .. Len(frames)
  BY <1>1
<1>6. frames[Len(frames)] = Height /\ Height <= Height
  BY <1>4, <1>5
<1>7. Regular
  BY <1>4, <1>5, <1>6 DEF Regular
<1> QED BY <1>2, <1>6, <1>7

(* What ImageOver does to the job.                                          *)
LEMMA ImageOverCounts ==
    ASSUME EncoderInv, ImageOver
    PROVE  /\ mState = "processing" /\ mImagesCompleted' = mImagesCompleted + 1
           /\ \/ mState' \in {"aborted", "completed", "pending"} /\ frames' = frames
              \/ mState' = "processing" /\ frames' = Append(frames, 0)
<1>1. Outcomes \subseteq {"aborted", "completed", "pending", "processing"}
  BY DEF Outcomes, EncoderInv
<1>2. PICK s \in Outcomes :
         /\ mState' = IF mCurrentLine # 0 THEN "aborted" ELSE s
         /\ frames' = IF mState' = "processing" THEN Append(frames, 0) ELSE frames
  BY DEF ImageOver
<1>3. mState' \in {"aborted", "completed", "pending", "processing"}
  BY <1>1, <1>2
<1> QED BY <1>2, <1>3 DEF ImageOver, IsProcessing

(* Every step but three writes nothing.                                     *)
LEMMA StepKinds ==
    ASSUME IInv, [Next]_vars
    PROVE  WriteLine \/ EndDocument \/ Quiet \/ (WriteThrows /\ mDocumentFormat # "pdf")
<1>0. EncoderInv /\ (\E S : Over(S)) /\ BuffersInv
  BY DEF IInv
<1>1. PICK S : chunk \in Seq(S)
  BY <1>0 DEF Over
<1>2. Len(chunk) \in Nat /\ mTotalWritten \in Nat /\ Len(<<>>) = 0
  BY <1>0, <1>1 DEF BuffersInv
<1>3. CASE WriteThrows /\ mDocumentFormat = "pdf"
  BY <1>3 DEF WriteThrows, Quiet, streamVars, chunkVars, encoderVars, lineVars, pdfVars, ticketVars,
              Ended, Regular
<1>4. CASE FlushLine \/ CloseResponse
  <2>1. /\ UNCHANGED <<mDocumentFormat, payload, lineVars, pdfVars, held, frames, mImagesCompleted,
                        mState, chunkBad>>
        /\ pc # "thrown"
        /\ mTotalWritten' = mTotalWritten + Len(chunk) /\ chunk' = <<>>
    BY <1>4 DEF FlushLine, CloseResponse, Flush, Close, Sync, ticketVars, jobVars, encoderVars
  <2>2. Ended' = Ended
    BY <1>4 DEF FlushLine, CloseResponse, Ended
  <2>3. mTotalWritten' + Len(chunk') = mTotalWritten + Len(chunk)
    BY <1>2, <2>1
  <2> QED BY <2>1, <2>2, <2>3 DEF Quiet, Regular
<1>5. CASE LineFlushed
  BY <1>5 DEF LineFlushed, Quiet, streamVars, chunkVars, encoderVars, lineVars, pdfVars, ticketVars,
              Ended, Regular
<1>6. CASE ImageOver
  <2>1. /\ UNCHANGED <<mDocumentFormat, payload, lineVars, pdfVars, held, chunk, mTotalWritten,
                        chunkBad, pc>>
        /\ pc = "loop"
    BY <1>6 DEF ImageOver, streamVars, chunkVars, encoderVars, ticketVars
  <2>2. Regular' => Regular
    <3>1. CASE frames' = frames
      BY <1>0, <1>6, <3>1, ImageOverCounts DEF Regular
    <3>2. CASE mState = "processing" /\ frames' = Append(frames, 0)
      BY <1>0, <3>2, FramesAppend
    <3> QED BY <1>0, <1>6, <3>1, <3>2, ImageOverCounts
  <2> QED BY <2>1, <2>2 DEF Quiet, Ended
<1>7. CASE Cancel
  BY <1>7 DEF Cancel, Quiet, streamVars, chunkVars, encoderVars, lineVars, pdfVars, ticketVars,
              Ended, Regular
<1>8. CASE StreamStep
  <2>1. UNCHANGED <<mDocumentFormat, lineVars, pdfVars, held, frames, mImagesCompleted, mState, pc>>
    BY <1>8 DEF StreamStep, ticketVars, jobVars, encoderVars
  <2>2. UNCHANGED <<payload, chunk, mTotalWritten>> /\ (~chunkBad' => ~chunkBad)
    <3>1. CASE Return
      <4>1. /\ UNCHANGED <<payload, chunk, mTotalWritten>>
            /\ chunkBad' = (chunkBad \/ (call = "flush" /\ streamBad))
        BY <3>1 DEF Return
      <4> QED BY <4>1, Zenon
    <3>2. CASE UNCHANGED chunkVars
      BY <3>2 DEF chunkVars
    <3>3. Return \/ UNCHANGED chunkVars
      BY <1>8, Zenon DEF StreamStep, StreamNext, Put, PutFlush, WriteFails, Write
    <3> QED BY <3>1, <3>2, <3>3
  <2> QED BY <2>1, <2>2 DEF Quiet, Ended, Regular
<1>9. CASE UNCHANGED vars
  BY <1>9 DEF vars, Quiet, streamVars, chunkVars, encoderVars, lineVars, pdfVars, ticketVars,
              jobVars, Ended, Regular
<1> QED BY <1>3, <1>4, <1>5, <1>6, <1>7, <1>8, <1>9 DEF Next

(* The lines and the images that the encoder has counted are those that the *)
(* scanner has delivered.                                                   *)
LEMMA CountInductive ==
    ASSUME IInv, CountInv, [Next]_vars
    PROVE  CountInv'
<1>0. EncoderInv
  BY DEF IInv
<1>1. ASSUME Idle
      PROVE  CountInv'
  <2>1. CASE mState' = mState
    BY <1>1, <2>1 DEF Idle, CountInv, Regular, Counted, lineVars
  <2>2. CASE mState' \in {"aborted", "canceled"}
    BY <2>2 DEF CountInv, Regular
  <2> QED BY <1>1, <2>1, <2>2 DEF Idle
<1>2. CASE WriteLine
  <2>1. /\ mState = "processing" /\ pc = "loop" /\ CountLine
        /\ frames' = [frames EXCEPT ![Len(frames)] = @ + 1]
        /\ UNCHANGED <<mState, mImagesCompleted>>
    BY <1>2 DEF WriteLine, IsProcessing, jobVars
  <2>2. Len(frames') = Len(frames)
    BY <1>0, <2>1 DEF EncoderInv
  <2>3. mState' = "processing" => mImagesCompleted' = Len(frames') - 1
    BY <2>1, <2>2 DEF CountInv
  <2>4. ASSUME Regular'
        PROVE  Counted'
    <3>1. /\ Regular /\ frames[Len(frames)] < Height /\ Len(frames') = Len(frames)
          /\ frames'[Len(frames')] = frames[Len(frames)] + 1
      BY ONLY <1>0, <2>1, <2>4, RegularLine
    <3>2. mCurrentImage = Len(frames) - 1 /\ mCurrentLine = frames[Len(frames)]
      BY <2>1, <3>1 DEF CountInv, Counted, Ended
    <3>3. Len(frames) \in Nat /\ mCurrentLine \in 0 .. Height - 1 /\ Height \in Nat
      BY <1>0 DEF EncoderInv
    <3>4. /\ mCurrentLine' = IF mCurrentLine + 1 = Height THEN 0 ELSE mCurrentLine + 1
          /\ mCurrentImage' = IF mCurrentLine + 1 = Height THEN mCurrentImage + 1 ELSE mCurrentImage
      BY <2>1 DEF CountLine, ImageEnds
    <3> DEFINE n == Len(frames)
               l == frames[n]
               m == frames'[Len(frames')]
    <3>5. /\ n \in Nat /\ l \in 0 .. Height - 1 /\ Height \in Nat /\ m = l + 1 /\ Len(frames') = n
          /\ mCurrentLine' = (IF l + 1 = Height THEN 0 ELSE l + 1)
          /\ mCurrentImage' = (IF l + 1 = Height THEN (n - 1) + 1 ELSE n - 1)
      BY ONLY <3>1, <3>2, <3>3, <3>4
    <3> HIDE DEF n, l
    <3>6. \/ mCurrentImage' = Len(frames') - 1 /\ mCurrentLine' = m /\ m < Height
          \/ mCurrentImage' = Len(frames') /\ mCurrentLine' = 0 /\ m = Height
      <4> HIDE DEF m
      <4> QED BY ONLY <3>5
    <3> QED BY ONLY <3>6 DEF Counted
  <2>5. mState' \notin {"completed", "pending"}
    BY <2>1
  <2> QED BY ONLY <2>3, <2>4, <2>5 DEF CountInv
<1>3. CASE ImageOver
  <2>1. /\ mState = "processing" /\ mImagesCompleted' = mImagesCompleted + 1
        /\ pc = "loop" /\ UNCHANGED <<mCurrentLine, mCurrentImage>>
        /\ \/ mState' \in {"aborted", "completed", "pending"} /\ frames' = frames
           \/ mState' = "processing" /\ frames' = Append(frames, 0)
    BY <1>0, <1>3, ImageOverCounts DEF ImageOver, encoderVars, lineVars
  <2>2. Len(frames) \in Nat /\ frames \in Seq(0 .. MaxRows) /\ Height \in Nat \ {0}
    BY <1>0 DEF EncoderInv
  <2>3. mImagesCompleted' = Len(frames)
    BY <2>1, <2>2 DEF CountInv
  <2>4. CASE mState' = "aborted"
    BY <2>4 DEF CountInv, Regular
  <2>5. CASE mState' \in {"completed", "pending"} /\ frames' = frames
    BY <2>1, <2>3, <2>5 DEF CountInv, Regular, Counted, Ended
  <2>6. CASE mState' = "processing" /\ frames' = Append(frames, 0)
    <3>1. Len(frames') = Len(frames) + 1
      BY <2>2, <2>6
    <3>2. mImagesCompleted' = Len(frames') - 1
      BY <2>2, <2>3, <3>1
    <3>3. ASSUME Regular'
          PROVE  Counted'
      <4>1. /\ Regular /\ frames[Len(frames)] = Height /\ frames'[Len(frames')] = 0
        BY <1>0, <2>1, <2>6, <3>3, FramesAppend
      <4>2. mCurrentImage = Len(frames) /\ mCurrentLine = 0
        <5>1. Counted
          BY <2>1, <4>1 DEF CountInv, Ended
        <5>2. ~(Height < Height)
          BY <2>2
        <5> QED BY <4>1, <5>1, <5>2 DEF Counted
      <4>3. mCurrentImage' = Len(frames') - 1 /\ mCurrentLine' = 0 /\ 0 < Height
        BY <2>1, <2>2, <3>1, <4>2
      <4> QED BY ONLY <4>1, <4>3 DEF Counted
    <3> QED BY <2>6, <3>2, <3>3 DEF CountInv
  <2> QED BY <2>1, <2>4, <2>5, <2>6
<1>4. CASE WriteThrows \/ LineFlushed \/ Cancel \/ EndDocument
  <2>1. Idle
    BY <1>4 DEF WriteThrows, LineFlushed, Cancel, EndDocument, IsProcessing, Idle, encoderVars,
                lineVars, jobVars, Ended
  <2> QED BY <1>1, <2>1
<1>5. CASE FlushLine \/ CloseResponse \/ StreamStep
  <2>1. Idle
    BY <1>5 DEF FlushLine, CloseResponse, StreamStep, Idle, encoderVars, lineVars, jobVars, Ended
  <2> QED BY <1>1, <2>1
<1>6. CASE UNCHANGED vars
  <2>1. Idle
    BY <1>6 DEF vars, Idle, encoderVars, lineVars, jobVars, Ended
  <2> QED BY <1>1, <2>1
<1> QED BY <1>2, <1>3, <1>4, <1>5, <1>6 DEF Next

(* What is written stays as it is until the next line.                      *)
LEMMA PdfInductive ==
    ASSUME IInv, PdfInv, CountInv, [Next]_vars
    PROVE  PdfInv'
<1>1. CASE WriteLine /\ mDocumentFormat = "pdf"
  BY ONLY <1>1, IInv, PdfInv, CountInv, PdfLineKept
<1>2. CASE WriteLine /\ mDocumentFormat # "pdf"
  BY <1>2 DEF WriteLine, ticketVars, PdfInv, Writing
<1>3. CASE EndDocument
  BY <1>3 DEF EndDocument, PdfInv, Writing, Ended
<1>4. CASE Quiet
  <2> SUFFICES ASSUME Writing'
               PROVE  /\ mBegin' = 0 /\ mTotalWritten' + Len(chunk') = Len(payload')
                      /\ DocumentBegins' => payload' = <<>> /\ mObjects' = <<>>
                      /\ ~DocumentBegins' => mObj' = 3 * mCurrentImage' + 1 + 2 * Open'
                      /\ mObjects' \in Seq(ObjDef) /\ Layout(payload', mObjects', mCurrentImage', Open')
                      /\ Regular' => Images(payload', mObjects', mCurrentImage', mCurrentLine', Open')
    BY DEF PdfInv
  <2>1. Writing
    BY <1>4 DEF Quiet, Writing
  <2>2. /\ UNCHANGED <<payload, mCurrentLine, mCurrentImage, mObj, mObjects, mBegin>>
        /\ mTotalWritten' + Len(chunk') = mTotalWritten + Len(chunk) /\ (Regular' => Regular)
    BY <1>4 DEF Quiet, lineVars, pdfVars
  <2>3. Open' = Open /\ DocumentBegins' = DocumentBegins
    BY <2>2 DEF Open, DocumentBegins
  <2> QED BY <2>1, <2>2, <2>3 DEF PdfInv
<1>5. CASE WriteThrows /\ mDocumentFormat # "pdf"
  BY <1>5 DEF WriteThrows, ticketVars, PdfInv, Writing
<1> QED BY <1>1, <1>2, <1>3, <1>4, <1>5, StepKinds

(* A document without anything in it.                                       *)
LEMMA InitPdf ==
    ASSUME Init
    PROVE  PdfInv /\ CountInv
<1>1. /\ payload = <<>> /\ chunk = <<>> /\ mTotalWritten = 0 /\ mBegin = 0 /\ mObjects = <<>>
      /\ mCurrentLine = 0 /\ mCurrentImage = 0 /\ frames = <<0>>
      /\ mState = "processing" /\ mImagesCompleted = 0
  BY DEF Init, StreamInit
<1>2. Open = 0 /\ DocumentBegins
  BY <1>1 DEF Open, DocumentBegins
<1>3. Layout(<<>>, <<>>, 0, 0)
  BY DEF Layout, NoEnd, Defined, Pages
<1>4. Images(<<>>, <<>>, 0, 0, 0)
  BY DEF Images
<1>5. PdfInv
  <2>1. mTotalWritten + Len(chunk) = Len(payload) /\ mObjects \in Seq(ObjDef)
    BY <1>1
  <2> QED BY <1>1, <1>2, <1>3, <1>4, <2>1 DEF PdfInv
<1>6. CountInv
  <2>1. Len(frames) = 1 /\ frames[Len(frames)] = 0 /\ 0 < Height
    BY <1>1
  <2> QED BY <1>1, <2>1 DEF CountInv, Counted
<1> QED BY <1>5, <1>6

-----------------------------------------------------------------------------
(* The table of a document that has ended.                                  *)

XrefAt(q) == CHOOSE x \in 1 .. Len(q) : q[x].t = "xref"

\* startxref finds the table, and the table every object.
Exact(q) ==
    /\ q[Len(q)] = Item("startxref", XrefAt(q) - 1, 0, 0)
    /\ \A n \in 1 .. q[XrefAt(q)].a - 1 :
          Entry(q, XrefAt(q), n).t \in PdfObjects /\ Entry(q, XrefAt(q), n).a = n

(* There is one table.                                                      *)
LEMMA FindsXref ==
    ASSUME NEW p, NEW q, NEW o, NEW images, NEW objs, NEW x, Finds(p, q, o, images, objs, x)
    PROVE  XrefAt(q) = x
<1>1. /\ x \in 1 .. Len(q) /\ q[x] = Item("xref", o + 3, 0, 0)
      /\ \A i \in 1 .. Len(q) : q[i].t = "xref" => i = x
  BY DEF Finds
<1>2. q[x].t = "xref"
  BY <1>1 DEF Item
<1>3. \E i \in 1 .. Len(q) : q[i].t = "xref"
  BY <1>1, <1>2
<1> DEFINE y == XrefAt(q)
<1>4. y \in 1 .. Len(q) /\ q[y].t = "xref"
  BY ONLY <1>3 DEF XrefAt
<1> QED BY <1>1, <1>4

(* A table that finds what has been defined.                                *)
LEMMA FindsExact ==
    ASSUME NEW p, NEW q, NEW o \in Nat, NEW images, NEW objs, Len(objs) = o - 1, NEW x,
           Finds(p, q, o, images, objs, x), Defined(p, objs)
    PROVE  Exact(q)
<1>1. XrefAt(q) = x
  BY FindsXref
<1>2. q[x].a = o + 3 /\ q[Len(q)] = Item("startxref", x - 1, 0, 0)
  BY DEF Finds, Item
<1>3. (o + 3) - 1 = o + 2
  OBVIOUS
<1>4. ASSUME NEW n \in 1 .. o + 2
      PROVE  Entry(q, x, n).t \in PdfObjects /\ Entry(q, x, n).a = n
  <2>1. CASE n \in 2 .. o
    <3>1. Entry(q, x, n) = Definition(p, objs, n)
      BY <2>1 DEF Finds
    <3>2. n \in 2 .. Len(objs) + 1
      BY <2>1
    <3>3. Definition(p, objs, n).t \in PdfObjects /\ Definition(p, objs, n).a = n
      BY <3>2 DEF Defined
    <3> QED BY <3>1, <3>3
  <2>2. CASE n = 1
    <3>1. Entry(q, x, 1) = Item("pages", 1, images, 0)
      BY DEF Finds
    <3> QED BY <2>2, <3>1 DEF Item, PdfObjects
  <2>3. CASE n = o + 1
    <3>1. Entry(q, x, o + 1) = Item("catalog", o + 1, 1, 0)
      BY DEF Finds
    <3> QED BY <2>3, <3>1 DEF Item, PdfObjects
  <2>4. CASE n = o + 2
    <3>1. Entry(q, x, o + 2) = Item("info", o + 2, 0, 0)
      BY DEF Finds
    <3> QED BY <2>4, <3>1 DEF Item, PdfObjects
  <2> QED BY <2>1, <2>2, <2>3, <2>4
<1> QED BY ONLY <1>1, <1>2, <1>3, <1>4 DEF Exact

-----------------------------------------------------------------------------
(* A document that has ended before a line was written.                     *)

Headless(s) == \E T : (\A x \in T : x.t # "header") /\ s \in Seq(T)

(* One piece and two pieces.                                                *)
LEMMA HeadlessSmall ==
    ASSUME NEW x, NEW y, x.t # "header", y.t # "header"
    PROVE  Headless(<<x>>) /\ Headless(<<x, y>>)
<1> DEFINE T == {x, y}
<1>1. x \in T /\ y \in T /\ \A z \in T : z.t # "header"
  OBVIOUS
<1> HIDE DEF T
<1>2. <<x>> \in Seq(T) /\ <<x, y>> \in Seq(T)
  BY <1>1
<1> QED BY <1>1, <1>2 DEF Headless

(* One after the other.                                                     *)
LEMMA HeadlessConcat ==
    ASSUME NEW a, NEW b, Headless(a), Headless(b)
    PROVE  Headless(a \o b)
<1>1. PICK T : (\A x \in T : x.t # "header") /\ a \in Seq(T)
  BY DEF Headless
<1>2. PICK U : (\A x \in U : x.t # "header") /\ b \in Seq(U)
  BY DEF Headless
<1> DEFINE V == T \cup U
<1>3. a \in Seq(V) /\ b \in Seq(V) /\ \A x \in V : x.t # "header"
  BY <1>1, <1>2, SeqMonotonic
<1> HIDE DEF V
<1>4. a \o b \in Seq(V)
  BY <1>3
<1> QED BY <1>3, <1>4 DEF Headless

(* Pieces in a row.                                                         *)
LEMMA HeadlessRow ==
    ASSUME NEW n \in Int, NEW f, f = [k \in 1 .. n |-> f[k]], \A k \in 1 .. n : f[k].t # "header"
    PROVE  Headless(f)
<1> DEFINE T == {f[k] : k \in 1 .. n}
<1>1. f \in [1 .. n -> T] /\ \A x \in T : x.t # "header"
  OBVIOUS
<1> HIDE DEF T
<1>2. f \in Seq(T)
  BY <1>1, NumberedSeq
<1> QED BY <1>1, <1>2 DEF Headless

(* The end of a document.                                                   *)
LEMMA EndHeadless ==
    ASSUME mObj \in Int, NEW objs, Len(objs) \in Nat, NEW at
    PROVE  Headless(PdfTree \o PdfTable(objs, at))
<1> DEFINE n == mObj \div 3
           m == Len(objs)
           kids == [k \in 1 .. n |-> Item("kid", 3 * k - 1, 0, 0)]
           sorted == ById(objs)
           entries == [k \in 1 .. m |-> Item("entry", sorted[k].offset, 0, 0)]
           i1 == <<Item("pages", 1, mCurrentImage, 0)>>
           i3 == <<Item("catalog", mObj + 1, 1, 0), Item("info", mObj + 2, 0, 0)>>
           i4 == <<Item("xref", m + 1, 0, 0)>>
           i6 == <<Item("trailer", m + 1, mObj + 1, mObj + 2), Item("startxref", at, 0, 0)>>
<1>1. PdfTree = i1 \o kids \o i3
  BY DEF PdfTree
<1>2. PdfTable(objs, at) = i4 \o entries \o i6
  BY DEF PdfTable
<1>3. \A t \in {"pages", "kid", "catalog", "info", "xref", "entry", "trailer", "startxref"} : \A a, b, c :
         Item(t, a, b, c).t # "header"
  BY DEF Item
<1>4. Headless(i1) /\ Headless(i3) /\ Headless(i4) /\ Headless(i6)
  <2> HIDE DEF Item
  <2> QED BY <1>3, HeadlessSmall
<1>5. n \in Int /\ m \in Int
  OBVIOUS
<1> HIDE DEF n, m, sorted, i1, i3, i4, i6
<1>6. Headless(kids)
  <2>1. kids = [k \in 1 .. n |-> kids[k]] /\ \A k \in 1 .. n : kids[k].t # "header"
    <3> HIDE DEF Item
    <3> QED BY <1>3
  <2> HIDE DEF kids
  <2> QED BY ONLY <1>5, <2>1, HeadlessRow
<1>7. Headless(entries)
  <2>1. entries = [k \in 1 .. m |-> entries[k]] /\ \A k \in 1 .. m : entries[k].t # "header"
    <3> HIDE DEF Item
    <3> QED BY <1>3
  <2> HIDE DEF entries
  <2> QED BY ONLY <1>5, <2>1, HeadlessRow
<1> HIDE DEF kids, entries
<1>8. Headless(PdfTree) /\ Headless(PdfTable(objs, at))
  BY ONLY <1>1, <1>2, <1>4, <1>6, <1>7, HeadlessConcat
<1> QED BY ONLY <1>8, HeadlessConcat

-----------------------------------------------------------------------------
(* PdfEncoder::onDocumentEnd                                                *)

(* The end of a document in which there is something.                       *)
LEMMA PdfEndCloses ==
    ASSUME IInv, PdfInv, EndDocument, mDocumentFormat = "pdf", ~chunkBad, ~DocumentBegins
    PROVE  \E o \in Nat : \E sorted, x :
              /\ o = 3 * mCurrentImage + 1 + 2 * Open
              /\ Closes(payload, payload', o, mCurrentImage, sorted, x)
              /\ Finds(payload, payload', o, mCurrentImage, mObjects, x)
<1>1. EncoderInv /\ (\E S : Over(S)) /\ BuffersInv
  BY DEF IInv
<1>2. Writing /\ PdfDocumentEnd
  BY DEF EndDocument, Writing, Ended
<1>3. /\ mBegin = 0 /\ mTotalWritten + Len(chunk) = Len(payload)
      /\ mObj = 3 * mCurrentImage + 1 + 2 * Open
      /\ mObjects \in Seq(ObjDef) /\ Layout(payload, mObjects, mCurrentImage, Open)
  BY <1>2 DEF PdfInv
<1>4. mCurrentImage \in Nat /\ Open \in 0 .. 1 /\ mObj \in Nat
  BY <1>1, <1>3 DEF EncoderInv, Open
<1>5. PICK S : payload \in Seq(S)
  BY <1>1 DEF Over
<1>6. Len(payload) \in Nat /\ Tellp - mBegin = Len(payload)
  BY <1>3, <1>5 DEF Tellp
<1> DEFINE p == payload
           at == Len(payload)
           o == mObj
           images == mCurrentImage
           tree == PdfTree
           d == Defobj(tree, at)
           objs == mObjects \o d
           table == PdfTable(objs, at + Len(tree))
           sorted == ById(objs)
           x == Len(p) + o \div 3 + 4
<1>7. payload' = p \o (tree \o table)
  BY <1>2, <1>6 DEF PdfDocumentEnd, Insert
<1>8. tree = <<Item("pages", 1, images, 0)>>
             \o [k \in 1 .. o \div 3 |-> Item("kid", 3 * k - 1, 0, 0)]
             \o <<Item("catalog", o + 1, 1, 0), Item("info", o + 2, 0, 0)>>
  BY DEF PdfTree
<1>9. table = <<Item("xref", Len(objs) + 1, 0, 0)>>
              \o [m \in 1 .. Len(objs) |-> Item("entry", sorted[m].offset, 0, 0)]
              \o <<Item("trailer", Len(objs) + 1, o + 1, o + 2), Item("startxref", at + Len(tree), 0, 0)>>
  BY Zenon DEF PdfTable
<1> HIDE DEF tree, table, sorted
<1>10. (\E T : tree \in Seq(T)) /\ TreeAt(tree, o, images) /\ TreeObjects(d, o, at)
  <2>1. o \in Nat /\ at \in Int
    BY <1>4, <1>6
  <2> HIDE DEF o, at, images
  <2> QED BY ONLY <1>8, <2>1, TreeDefines DEF d
<1> HIDE DEF d
<1>11. Len(mObjects) = o - 1 /\ Defined(payload, mObjects)
  BY <1>3, <1>4 DEF Layout
<1>12. objs \in Seq(ObjDef) /\ Len(objs) = o + 2 /\ InOrder(sorted, o, mObjects, d)
  <2>1. o \in Nat /\ mObjects \in Seq(ObjDef) /\ objs = mObjects \o d
    BY <1>3, <1>4
  <2> HIDE DEF objs, o
  <2> QED BY ONLY <1>10, <1>11, <2>1, ObjectsInOrder DEF sorted
<1> HIDE DEF objs
<1>13. (\E T : table \in Seq(T)) /\ TableAt(table, sorted, o + 2, o, at + Len(tree))
  <2> DEFINE n == Len(objs)
  <2>1. n \in Nat
    BY <1>4, <1>12
  <2>2. (\E T : table \in Seq(T)) /\ TableAt(table, sorted, n, o, at + Len(tree))
    <3> HIDE DEF o, at
    <3>1. table = <<Item("xref", n + 1, 0, 0)>>
              \o [m \in 1 .. n |-> Item("entry", sorted[m].offset, 0, 0)]
              \o <<Item("trailer", n + 1, o + 1, o + 2), Item("startxref", at + Len(tree), 0, 0)>>
      BY <1>9, Zenon
    <3> HIDE DEF n
    <3> QED BY ONLY <2>1, <3>1, TableItems
  <2> QED BY <1>12, <2>2
<1>14. PICK T, U : tree \in Seq(T) /\ table \in Seq(U)
  BY <1>10, <1>13
<1> DEFINE V == S \cup T \cup U
<1>15. p \in Seq(V) /\ tree \in Seq(V) /\ table \in Seq(V)
  BY <1>5, <1>14, SeqMonotonic
<1> HIDE DEF V
<1>16. Ending(V, p, tree, table, o, images, sorted)
  BY ONLY <1>10, <1>13, <1>15 DEF Ending, at, p
<1>17. Closes(p, p \o (tree \o table), o, images, sorted, x)
  <2>1. o \in Nat
    BY <1>4
  <2> HIDE DEF o, p, images
  <2> QED BY ONLY <1>16, <2>1, EndingCloses DEF x
<1>18. Closes(p, payload', o, images, sorted, x)
  BY ONLY <1>7, <1>17
<1>19. Finds(p, payload', o, images, mObjects, x)
  <2> DEFINE q == payload'
             open == Open
             s == mObjects
  <2>1. /\ p \in Seq(S) /\ s \in Seq(ObjDef) /\ images \in Nat /\ open \in 0 .. 1
        /\ Layout(p, s, images, open) /\ o = 3 * images + 1 + 2 * open
        /\ TreeObjects(d, o, Len(p)) /\ InOrder(sorted, o, s, d) /\ Closes(p, q, o, images, sorted, x)
    BY ONLY <1>3, <1>4, <1>5, <1>10, <1>12, <1>18
  <2> HIDE DEF p, q, open, o, images, s, x
  <2> QED BY ONLY <2>1, TableFinds DEF q, s
<1> QED BY <1>3, <1>4, <1>18, <1>19

(* The table is exact.                                                      *)
LEMMA PdfEndExact ==
    ASSUME IInv, PdfInv, EndDocument, mDocumentFormat = "pdf", ~chunkBad, Contents'
    PROVE  Exact(payload')
<1>1. EncoderInv /\ (\E S : Over(S))
  BY DEF IInv
<1>2. Writing /\ PdfDocumentEnd
  BY DEF EndDocument, Writing, Ended
<1>3. CASE DocumentBegins
  <2> DEFINE at == Tellp - mBegin
             d == Defobj(PdfTree, at)
             objs == mObjects \o d
             items == PdfTree \o PdfTable(objs, at + Len(PdfTree))
  <2>1. payload = <<>> /\ mObjects = <<>> /\ mObj \in Int
    BY <1>1, <1>2, <1>3 DEF PdfInv, EncoderInv
  <2>2. payload' = <<>> \o items
    BY <1>2, <2>1 DEF PdfDocumentEnd, Insert
  <2> HIDE DEF at
  <2>3. PICK T : PdfTree \in Seq(T)
    BY <2>1, PdfTreeContent DEF ContentSeq
  <2>4. PICK R : d \in Seq(R)
    BY <2>3, DefobjType
  <2>5. Len(objs) \in Nat
    <3> HIDE DEF d
    <3>1. mObjects \in Seq(R)
      BY <2>1
    <3> QED BY ONLY <2>4, <3>1, ConcatElements
  <2> HIDE DEF objs
  <2>6. Headless(items)
    BY ONLY <2>1, <2>5, EndHeadless
  <2>7. PICK V : (\A x \in V : x.t # "header") /\ items \in Seq(V)
    BY <2>6 DEF Headless
  <2> HIDE DEF items
  <2>8. payload' = items
    BY ONLY <2>2, <2>7, ConcatEmptySeq
  <2>9. \A i \in 1 .. Len(items) : items[i].t # "header"
    BY <2>7
  <2>10. Mark("header").t = "header" /\ DOMAIN items = 1 .. Len(items)
    BY <2>7 DEF Mark, Item
  <2>11. ~Contents'
    BY <2>8, <2>9, <2>10 DEF Contents, Range
  <2> QED BY <2>11
<1>4. CASE ~DocumentBegins
  <2>1. PICK o \in Nat : /\ o = 3 * mCurrentImage + 1 + 2 * Open
                        /\ \E x : Finds(payload, payload', o, mCurrentImage, mObjects, x)
    BY <1>4, PdfEndCloses
  <2>2. Layout(payload, mObjects, mCurrentImage, Open) /\ mCurrentImage \in Nat /\ Open \in 0 .. 1
    BY <1>1, <1>2 DEF PdfInv, EncoderInv, Open
  <2>3. Defined(payload, mObjects) /\ Len(mObjects) = o - 1
    BY <2>1, <2>2 DEF Layout
  <2> DEFINE q == payload'
  <2> HIDE DEF q
  <2>4. PICK x : Finds(payload, q, o, mCurrentImage, mObjects, x)
    BY <2>1 DEF q
  <2>5. Exact(q)
    BY ONLY <2>1, <2>3, <2>4, FindsExact
  <2> QED BY <2>5 DEF q
<1> QED BY <1>3, <1>4

-----------------------------------------------------------------------------
(* The pages of a PDF that has ended.                                       *)

\* Image n at i, with its lines.
ImageFound(q, i, n) ==
    SubSeq(q, i + 1, i + Height) = LinesOf(n) /\ q[i + Height + 1].t = "endstream"
PageFound(q, n, page) ==
    /\ page.t = "page" /\ Entry(q, XrefAt(q), page.b).t = "contents"
    /\ Entry(q, XrefAt(q), page.c).t = "image"
    /\ \E i \in 1 .. Len(q) - Height - 1 : q[i] = Entry(q, XrefAt(q), page.c) /\ ImageFound(q, i, n)
Kids(q) == Pick(q, {i \in 1 .. Len(q) : q[i].t = "kid"})
TreeFound(q, done) ==
    /\ Entry(q, XrefAt(q), q[Len(q) - 1].b).t = "catalog"
    /\ Entry(q, XrefAt(q), q[Len(q) - 1].c).t = "info"
    /\ Entry(q, XrefAt(q), 1) = Item("pages", 1, done, 0)
    /\ Len(Kids(q)) = done
    /\ \A n \in 1 .. Len(Kids(q)) : PageFound(q, n, Entry(q, XrefAt(q), Kids(q)[n].a))

(* The lines of an image.                                                   *)
LEMMA LinesFound ==
    ASSUME NEW S, NEW q \in Seq(S), NEW i \in Nat, NEW n, i + Height <= Len(q),
           \A l \in 1 .. Height : q[i + l] = Item("line", n, l, 0)
    PROVE  SubSeq(q, i + 1, i + Height) = LinesOf(n)
<1> DEFINE s == SubSeq(q, i + 1, i + Height)
<1>1. Height \in Nat /\ Len(q) \in Nat
  OBVIOUS
<1>2. /\ s \in Seq(S) /\ Len(s) = Height
      /\ \A l \in 1 .. Height : s[l] = q[i + l]
  <2>1. /\ i + 1 \in Int /\ i + Height \in Int /\ (i + Height) - (i + 1) + 1 = Height
        /\ \A j \in i + 1 .. i + Height : q[j] \in S
    BY <1>1
  <2>2. /\ s \in Seq(S) /\ Len(s) = (IF i + 1 <= i + Height THEN (i + Height) - (i + 1) + 1 ELSE 0)
        /\ \A l \in 1 .. (i + Height) - (i + 1) + 1 : s[l] = q[(i + 1) + l - 1]
    BY ONLY <2>1, SubSeqProperties
  <2>3. \A l \in 1 .. Height : (i + 1) + l - 1 = i + l
    BY <1>1
  <2> HIDE DEF s
  <2>4. Len(s) = Height
    BY <1>1, <2>1, <2>2
  <2> QED BY ONLY <2>1, <2>2, <2>3, <2>4
<1> HIDE DEF s
<1>3. s = [l \in 1 .. Height |-> s[l]]
  BY <1>1, <1>2
<1>4. \A l \in 1 .. Height : s[l] = Item("line", n, l, 0)
  BY <1>2
<1>5. [l \in 1 .. Height |-> s[l]] = [l \in 1 .. Height |-> Item("line", n, l, 0)]
  <2> HIDE DEF Item
  <2> QED BY <1>4
<1> QED BY ONLY <1>3, <1>5 DEF s, LinesOf

\* A document, complete, and what it has become.
Finished(S, p, q, o, images, objs, sorted, x) ==
    /\ p \in Seq(S) /\ q \in Seq(S) /\ objs \in Seq(ObjDef) /\ images \in Nat /\ o = 3 * images + 1
    /\ Layout(p, objs, images, 0) /\ Images(p, objs, images, 0, 0)
    /\ Closes(p, q, o, images, sorted, x) /\ Finds(p, q, o, images, objs, x)

(* A page is found with its contents and its image.                         *)
LEMMA FinishedPages ==
    ASSUME NEW S, NEW p, NEW q, NEW o, NEW images, NEW objs, NEW sorted, NEW x,
           Finished(S, p, q, o, images, objs, sorted, x), NEW n \in 1 .. images
    PROVE  PageFound(q, n, Entry(q, XrefAt(q), 3 * n - 1))
<1>0. /\ p \in Seq(S) /\ q \in Seq(S) /\ objs \in Seq(ObjDef) /\ images \in Nat /\ o = 3 * images + 1
      /\ Layout(p, objs, images, 0) /\ Images(p, objs, images, 0, 0)
      /\ Closes(p, q, o, images, sorted, x) /\ Finds(p, q, o, images, objs, x)
  BY DEF Finished
<1>1. XrefAt(q) = x
  BY ONLY <1>0, FindsXref
<1>2. 3 * n - 1 \in 2 .. o /\ 3 * n \in 2 .. o /\ 3 * n + 1 \in 2 .. o /\ n \in 1 .. images + 0
  BY <1>0
<1>3. /\ Entry(q, x, 3 * n - 1) = Definition(p, objs, 3 * n - 1)
      /\ Entry(q, x, 3 * n) = Definition(p, objs, 3 * n)
      /\ Entry(q, x, 3 * n + 1) = Definition(p, objs, 3 * n + 1)
  BY ONLY <1>0, <1>2 DEF Finds
<1>4. /\ Definition(p, objs, 3 * n - 1) = Item("page", 3 * n - 1, 3 * n + 1, 3 * n)
      /\ Definition(p, objs, 3 * n).t = "image" /\ Definition(p, objs, 3 * n + 1).t = "contents"
  BY ONLY <1>0, <1>2, n \in 1 .. images DEF Layout, Pages
<1> DEFINE page == Entry(q, XrefAt(q), 3 * n - 1)
<1>5. page = Item("page", 3 * n - 1, 3 * n + 1, 3 * n)
  BY ONLY <1>1, <1>3, <1>4
<1>6. page.t = "page" /\ page.b = 3 * n + 1 /\ page.c = 3 * n
  BY ONLY <1>5 DEF Item
<1> HIDE DEF page
<1> DEFINE i == ImageAt(objs, n)
<1>7. i \in Nat \ {0} /\ p[i] = Definition(p, objs, 3 * n) /\ i <= Len(p)
  <2>1. 3 * n \in 2 .. Len(objs) + 1
    BY <1>0 DEF Layout
  <2>2. objs[3 * n - 1].offset \in 0 .. Len(p) - 1
    BY <1>0, <2>1 DEF Layout, Defined
  <2>3. Len(p) \in Nat
    BY <1>0
  <2> QED BY <2>2, <2>3 DEF ImageAt, Definition
<1>8. /\ i + Height <= Len(p) /\ \A l \in 1 .. Height : p[i + l] = Item("line", n, l, 0)
      /\ i + Height + 1 <= Len(p) /\ p[i + Height + 1].t = "endstream"
  BY ONLY <1>0, n \in 1 .. images DEF Images, Complete, LinesAt
<1> HIDE DEF i
<1>9. Len(p) \in Nat /\ Len(q) \in Nat /\ Len(p) <= Len(q) /\ \A j \in 1 .. Len(p) : q[j] = p[j]
  <2>1. Len(p) \in Nat /\ Len(q) \in Nat
    BY <1>0
  <2> QED BY <1>0, <2>1 DEF Closes, Extends
<1>10. /\ i \in 1 .. Len(p) /\ i + Height + 1 \in 1 .. Len(p) /\ i + Height <= Len(q)
       /\ i \in 1 .. Len(q) - Height - 1 /\ \A l \in 1 .. Height : i + l \in 1 .. Len(p)
  BY <1>7, <1>8, <1>9
<1>11. \A l \in 1 .. Height : q[i + l] = Item("line", n, l, 0)
  BY ONLY <1>8, <1>9, <1>10
<1>12. ImageFound(q, i, n)
  <2>1. SubSeq(q, i + 1, i + Height) = LinesOf(n)
    <3>1. i \in Nat /\ q \in Seq(S)
      BY <1>0, <1>7
    <3> QED BY ONLY <3>1, <1>10, <1>11, LinesFound, DocumentAssumption
  <2> QED BY <1>8, <1>9, <1>10, <2>1 DEF ImageFound
<1>13. q[i] = Entry(q, x, 3 * n)
  BY ONLY <1>3, <1>7, <1>9, <1>10
<1>14. PageFound(q, n, page)
  BY ONLY <1>1, <1>3, <1>4, <1>6, <1>10, <1>12, <1>13 DEF PageFound
<1> QED BY <1>14 DEF page

(* A complete document is sound.                                            *)
LEMMA FinishedSound ==
    ASSUME NEW S, NEW p, NEW q, NEW o, NEW images, NEW objs, NEW sorted, NEW x,
           Finished(S, p, q, o, images, objs, sorted, x)
    PROVE  TreeFound(q, images)
<1>0. /\ p \in Seq(S) /\ q \in Seq(S) /\ images \in Nat /\ o = 3 * images + 1 /\ o \in Nat
      /\ Layout(p, objs, images, 0)
      /\ Closes(p, q, o, images, sorted, x) /\ Finds(p, q, o, images, objs, x)
  BY DEF Finished
<1>1. XrefAt(q) = x
  BY ONLY <1>0, FindsXref
<1>2. o \div 3 = images /\ Len(p) \in Nat /\ Len(q) \in Nat
  BY <1>0
<1>3. x \in Nat /\ x = Len(p) + images + 4 /\ Len(q) = x + o + 4 /\ Len(q) - 1 = x + o + 3
  <2>1. x = Len(p) + o \div 3 + 4 /\ Len(q) = x + o + 4
    BY <1>0 DEF Closes
  <2> HIDE DEF Closes
  <2> QED BY <1>0, <1>2, <2>1
<1>4. q[Len(q) - 1].b = o + 1 /\ q[Len(q) - 1].c = o + 2
  <2>1. q[x + o + 3] = Item("trailer", o + 3, o + 1, o + 2)
    BY <1>0 DEF Closes
  <2>2. q[Len(q) - 1] = Item("trailer", o + 3, o + 1, o + 2)
    BY ONLY <1>3, <2>1
  <2> QED BY ONLY <2>2 DEF Item
<1>5. /\ Entry(q, x, 1) = Item("pages", 1, images, 0)
      /\ Entry(q, x, o + 1).t = "catalog" /\ Entry(q, x, o + 2).t = "info"
  BY <1>0 DEF Finds, Item
<1> DEFINE K == {i \in 1 .. Len(q) : q[i].t = "kid"}
<1>6. ASSUME NEW i \in 1 .. Len(q)
      PROVE  i \in K <=> i \in (Len(p) + 1) + 1 .. (Len(p) + 1) + images
  <2>1. CASE i \in 1 .. Len(p)
    <3>1. q[i] = p[i] /\ p[i].t # "kid"
      BY <1>0, <2>1 DEF Closes, Extends, Layout, NoEnd
    <3> QED BY <1>2, <2>1, <3>1
  <2>2. CASE i \notin 1 .. Len(p)
    <3>1. i \in Len(p) + 1 .. Len(q)
      BY <1>2, <2>2
    <3>2. q[i].t = "kid" <=> i \in Len(p) + 2 .. Len(p) + 1 + o \div 3
      BY ONLY <1>0, <3>1, ClosesKinds
    <3> QED BY <1>2, <3>2
  <2> QED BY <2>1, <2>2
<1> HIDE DEF K
<1>7. Kids(q) = [n \in 1 .. images |-> q[(Len(p) + 1) + n]]
  <2> DEFINE a == Len(p) + 1
  <2>1. a \in Nat /\ a + images <= Len(q)
    BY <1>0, <1>2, <1>3
  <2>2. InRow(K, Len(q), a, images)
    BY ONLY <1>6 DEF InRow
  <2> HIDE DEF a
  <2>3. Pick(q, K) = [n \in 1 .. images |-> q[a + n]]
    BY ONLY <1>0, <2>1, <2>2, PickRange
  <2> QED BY ONLY <2>3 DEF Kids, K, a
<1> DEFINE kids == [n \in 1 .. images |-> q[(Len(p) + 1) + n]]
<1>8. Len(kids) = images /\ \A n \in 1 .. images : kids[n] = q[(Len(p) + 1) + n]
  BY <1>0
<1>9. ASSUME NEW n \in 1 .. images
      PROVE  PageFound(q, n, Entry(q, XrefAt(q), kids[n].a))
  <2>1. q[Len(p) + 1 + n] = Item("kid", 3 * n - 1, 0, 0)
    <3>1. n \in 1 .. o \div 3
      BY ONLY <1>2, n \in 1 .. images
    <3> QED BY ONLY <1>0, <3>1 DEF Closes
  <2>2. kids[n].a = 3 * n - 1
    <3> HIDE DEF kids
    <3>1. kids[n] = Item("kid", 3 * n - 1, 0, 0)
      BY ONLY n \in 1 .. images, <1>8, <2>1
    <3> QED BY ONLY <3>1 DEF Item
  <2>3. PageFound(q, n, Entry(q, XrefAt(q), 3 * n - 1))
    BY ONLY Finished(S, p, q, o, images, objs, sorted, x), n \in 1 .. images, FinishedPages
  <2> QED BY ONLY <2>2, <2>3
<1> HIDE DEF kids
<1>10. Kids(q) = kids
  BY <1>7 DEF kids
<1> QED BY ONLY <1>1, <1>4, <1>5, <1>8, <1>9, <1>10 DEF TreeFound

(* A job whose images are as high as announced.                             *)
LEMMA AllCounted ==
    ASSUME EncoderInv, CountInv, ~Ended, mState \in {"completed", "pending"}, Range(frames) = {Height}
    PROVE  /\ Regular /\ mCurrentLine = 0 /\ mCurrentImage = Len(frames) /\ mImagesCompleted = Len(frames)
           /\ frames[Len(frames)] = Height /\ Len(frames) \in Nat \ {0}
<1>1. frames \in Seq(0 .. MaxRows) /\ Len(frames) \in 1 .. MaxFrames /\ Height \in Nat /\ MaxFrames \in Nat
  BY DEF EncoderInv
<1>2. \A f \in 1 .. Len(frames) : frames[f] = Height
  <2>1. DOMAIN frames = 1 .. Len(frames)
    BY <1>1
  <2> QED BY <2>1 DEF Range
<1>3. Len(frames) \in 1 .. Len(frames) /\ \A f \in 1 .. Len(frames) - 1 : f \in 1 .. Len(frames)
  BY <1>1
<1>4. frames[Len(frames)] = Height /\ Height <= Height /\ ~(Height < Height)
  BY <1>1, <1>2, <1>3
<1>5. Regular
  BY <1>2, <1>3, <1>4 DEF Regular
<1> QED BY <1>1, <1>4, <1>5 DEF CountInv, Counted

(* The end of a PDF whose images are complete.                              *)
LEMMA PdfEndSound ==
    ASSUME IInv, IInv', PdfInv, CountInv, EndDocument, mDocumentFormat = "pdf", ~chunkBad,
           mState \in {"completed", "pending"}, Range(frames) = {Height}
    PROVE  TreeFound(payload', mImagesCompleted)
<1>1. EncoderInv /\ (\E S : Over(S)) /\ (\E S : Over(S)')
  BY DEF IInv
<1>2. ~Ended /\ Writing
  BY DEF EndDocument, Writing, Ended
<1>3. /\ Regular /\ mCurrentLine = 0 /\ mCurrentImage = mImagesCompleted /\ mCurrentImage \in Nat \ {0}
      /\ Open = 0 /\ ~DocumentBegins
  BY <1>1, <1>2, AllCounted DEF Open, DocumentBegins
<1>4. /\ mObjects \in Seq(ObjDef) /\ Layout(payload, mObjects, mCurrentImage, 0)
      /\ Images(payload, mObjects, mCurrentImage, 0, 0)
  BY <1>2, <1>3 DEF PdfInv
<1>5. PICK o \in Nat : o = 3 * mCurrentImage + 1 + 2 * Open
              /\ \E sorted, x : /\ Closes(payload, payload', o, mCurrentImage, sorted, x)
                               /\ Finds(payload, payload', o, mCurrentImage, mObjects, x)
  BY <1>3, PdfEndCloses
<1> DEFINE q == payload'
           p == payload
           images == mCurrentImage
           objs == mObjects
<1>6. PICK sorted, x : Closes(p, q, o, images, sorted, x) /\ Finds(p, q, o, images, objs, x)
  BY <1>5
<1>7. PICK S : p \in Seq(S)
  BY <1>1 DEF Over
<1>8. PICK T : q \in Seq(T)
  BY <1>1 DEF Over
<1>9. o = 3 * images + 1 /\ images \in Nat
  BY <1>3, <1>5
<1> DEFINE U == S \cup T
<1>10. p \in Seq(U) /\ q \in Seq(U)
  <2> HIDE DEF p, q
  <2> QED BY <1>7, <1>8, SeqMonotonic
<1>11. /\ objs \in Seq(ObjDef) /\ Layout(p, objs, images, 0) /\ Images(p, objs, images, 0, 0)
  BY <1>4
<1> HIDE DEF p, q, images, objs, U
<1>12. Finished(U, p, q, o, images, objs, sorted, x)
  BY ONLY <1>6, <1>9, <1>10, <1>11 DEF Finished
<1>13. TreeFound(q, images)
  BY ONLY <1>12, FinishedSound
<1> QED BY <1>3, <1>13 DEF q, images

-----------------------------------------------------------------------------
(* JPEG and PNG files.                                                      *)

\* A file with its header and its first lines, and a complete one.
FileWith(file, lines) ==
    /\ Len(file) > lines /\ file[1] = Mark("header")
    /\ \A l \in 1 .. lines : file[1 + l] = Item("line", 1, l, 0)
FileComplete(file) ==
    /\ FileWith(file, Height)
    /\ Len(file) = Height + 2 /\ file[Height + 2] = Mark("end")

\* What has been written and what the library holds, of the one image that such
\* a file takes.
ImageInv ==
    mDocumentFormat # "pdf" =>
        /\ mKind # "adfConcat" /\ Len(frames) = 1
        /\ ~Ended /\ pc # "thrown" /\ ~chunkBad /\ Regular =>
              \/ mCurrentImage = 0 /\ mCurrentLine = 0 /\ payload \o held = <<>>
              \/ /\ mCurrentImage = 0 /\ mCurrentLine # 0
                 /\ FileWith(payload \o held, mCurrentLine) /\ Len(payload \o held) = mCurrentLine + 1
              \/ mCurrentImage = 1 /\ held = <<>> /\ FileComplete(payload)

\* s after p, cut after its first k pieces.
Split(S, p, s, k, a, b) ==
    /\ p \in Seq(S) /\ s \in Seq(S) /\ k \in 0 .. Len(s)
    /\ a = SubSeq(s, 1, k) /\ b = SubSeq(s, k + 1, Len(s))
InParts(p, a, b, s) == (p \o a) \o b = p \o s

(* A piece that is passed on in two parts.                                  *)
LEMMA PartsPassed ==
    ASSUME NEW S, NEW p, NEW s, NEW k, NEW a, NEW b, Split(S, p, s, k, a, b)
    PROVE  InParts(p, a, b, s) /\ (k = Len(s) => b = <<>>)
<1>0. /\ p \in Seq(S) /\ s \in Seq(S) /\ k \in 0 .. Len(s)
      /\ a = SubSeq(s, 1, k) /\ b = SubSeq(s, k + 1, Len(s))
  BY DEF Split
<1>1. Len(s) \in Nat /\ k \in 0 .. Len(s) /\ \A i \in 1 .. Len(s) : s[i] \in S
  BY <1>0
<1>2. /\ a \in Seq(S) /\ Len(a) = k /\ \A i \in 1 .. k : a[i] = s[i]
  <2>1. /\ 1 \in Int /\ k \in Int /\ k - 1 + 1 = k /\ \A j \in 1 .. k : s[j] \in S
    BY <1>1
  <2>2. /\ a \in Seq(S) /\ Len(a) = (IF 1 <= k THEN k - 1 + 1 ELSE 0)
        /\ \A i \in 1 .. k - 1 + 1 : a[i] = s[1 + i - 1]
    BY ONLY <2>1, <1>0, SubSeqProperties
  <2>3. \A i \in 1 .. k : 1 + i - 1 = i
    BY <1>1
  <2>4. Len(a) = k
    BY <1>1, <2>2
  <2> QED BY ONLY <2>1, <2>2, <2>3, <2>4
<1>3. /\ b \in Seq(S) /\ Len(b) = Len(s) - k /\ \A i \in 1 .. Len(s) - k : b[i] = s[k + i]
  <2> DEFINE n == Len(s)
  <2>1. /\ k + 1 \in Int /\ n \in Int /\ n - (k + 1) + 1 = n - k /\ \A j \in k + 1 .. n : s[j] \in S
    BY <1>1
  <2>2. /\ b \in Seq(S) /\ Len(b) = (IF k + 1 <= n THEN n - (k + 1) + 1 ELSE 0)
        /\ \A i \in 1 .. n - (k + 1) + 1 : b[i] = s[(k + 1) + i - 1]
    <3> DEFINE m == k + 1
    <3>1. b = SubSeq(s, m, n) /\ m \in Int /\ n \in Int /\ \A j \in m .. n : s[j] \in S
      BY <1>0, <2>1
    <3> HIDE DEF n, m
    <3>2. /\ b \in Seq(S) /\ Len(b) = (IF m <= n THEN n - m + 1 ELSE 0)
          /\ \A i \in 1 .. n - m + 1 : b[i] = s[m + i - 1]
      BY ONLY <3>1, SubSeqProperties
    <3> QED BY ONLY <3>2 DEF m
  <2>3. \A i \in 1 .. n - k : (k + 1) + i - 1 = k + i
    BY <1>1
  <2>4. Len(b) = n - k
    BY <1>1, <2>2
  <2> HIDE DEF n
  <2>5. /\ b \in Seq(S) /\ Len(b) = n - k /\ \A i \in 1 .. n - k : b[i] = s[k + i]
    BY ONLY <2>1, <2>2, <2>3, <2>4
  <2> QED BY <2>5 DEF n
<1>4. a \o b = s
  <2> DEFINE f == a \o b
             n == Len(s)
  <2>1. /\ f \in Seq(S) /\ Len(f) = k + (n - k) /\ \A i \in 1 .. k : f[i] = a[i]
        /\ \A i \in 1 .. n - k : f[k + i] = b[i]
    BY ONLY <1>2, <1>3, ConcatElements
  <2>2. n \in Nat /\ k \in 0 .. n
    BY <1>1
  <2> HIDE DEF f, n
  <2>3. ASSUME NEW i \in 1 .. n
        PROVE  f[i] = s[i]
    <3>1. CASE i \in 1 .. k
      BY <1>2, <2>1, <3>1
    <3>2. CASE i \notin 1 .. k
      <4>1. i - k \in 1 .. n - k /\ k + (i - k) = i
        BY <2>2, <3>2
      <4>2. f[k + (i - k)] = b[i - k]
        BY ONLY <2>1, <4>1
      <4>3. b[i - k] = s[k + (i - k)]
        BY ONLY <1>3, <4>1 DEF n
      <4> QED BY ONLY <4>1, <4>2, <4>3
    <3> QED BY <3>1, <3>2
  <2>4. Len(f) = n
    BY <2>1, <2>2
  <2>5. f = [i \in 1 .. n |-> f[i]] /\ s = [i \in 1 .. n |-> s[i]]
    BY <1>0, <2>1, <2>4 DEF n
  <2>6. [i \in 1 .. n |-> f[i]] = [i \in 1 .. n |-> s[i]]
    BY <2>3
  <2> QED BY ONLY <2>5, <2>6 DEF f
<1>5. (p \o a) \o b = p \o (a \o b)
  <2>1. p \in Seq(S) /\ a \in Seq(S) /\ b \in Seq(S)
    BY <1>0, <1>2, <1>3
  <2> QED BY ONLY <2>1, ConcatAssociative
<1>6. k = Len(s) => b = <<>>
  BY <1>1, <1>3
<1> QED BY ONLY <1>4, <1>5, <1>6, Zenon DEF InParts

\* A file grows by a header, a line and an end, as far as they are due.
FileGrows(S, file, line, begins, ends, x, i1, i3, more) ==
    /\ file \in Seq(S) /\ i1 \in Seq(S) /\ i3 \in Seq(S) /\ x \in S /\ line \in Nat
    /\ begins \in BOOLEAN /\ ends \in BOOLEAN /\ (begins <=> line = 0)
    /\ IF begins THEN file = <<>> ELSE FileWith(file, line) /\ Len(file) = line + 1
    /\ i1 = When(begins, <<Mark("header")>>) /\ i3 = When(ends, <<Mark("end")>>)
    /\ x = Item("line", 1, line + 1, 0)
    /\ more = ((file \o i1) \o <<x>>) \o i3

(* A line more.                                                             *)
LEMMA FileLine ==
    ASSUME NEW S, NEW file, NEW line, NEW begins, NEW ends, NEW x, NEW i1, NEW i3, NEW more,
           FileGrows(S, file, line, begins, ends, x, i1, i3, more)
    PROVE  /\ more \in Seq(S) /\ FileWith(more, line + 1)
           /\ ~ends => Len(more) = line + 2
           /\ ends => Len(more) = line + 3 /\ more[line + 3] = Mark("end")
<1>types. file \in Seq(S) /\ i1 \in Seq(S) /\ i3 \in Seq(S) /\ x \in S /\ line \in Nat
  BY Zenon DEF FileGrows
<1>bools. begins \in BOOLEAN /\ ends \in BOOLEAN /\ (begins <=> line = 0)
  BY Zenon DEF FileGrows
<1>file. IF begins THEN file = <<>> ELSE FileWith(file, line) /\ Len(file) = line + 1
  BY Zenon DEF FileGrows
<1>parts. i1 = When(begins, <<Mark("header")>>) /\ i3 = When(ends, <<Mark("end")>>)
  BY Zenon DEF FileGrows
<1>x. x = Item("line", 1, line + 1, 0)
  BY Zenon DEF FileGrows
<1> DEFINE i2 == <<x>>
           f1 == file \o i1
           f2 == f1 \o i2
           f3 == f2 \o i3
<1>more. more = f3
  BY Zenon DEF FileGrows
<1>0. Len(file) \in Nat /\ Len(i1) \in Nat /\ Len(i3) \in Nat
  BY <1>types
<1>1. /\ f1 \in Seq(S) /\ Len(f1) = Len(file) + Len(i1) /\ \A i \in 1 .. Len(file) : f1[i] = file[i]
      /\ \A i \in 1 .. Len(i1) : f1[Len(file) + i] = i1[i]
  BY ONLY <1>types, ConcatElements
<1> HIDE DEF f1
<1>2. /\ FileWith(f1, line) /\ Len(f1) = line + 1
  <2>1. CASE begins
    <3>1. Len(file) = 0 /\ line = 0 /\ Len(i1) = 1 /\ i1[1] = Mark("header")
      BY <1>bools, <1>file, <1>parts, <2>1 DEF When
    <3>2. Len(f1) = 1 /\ f1[1] = Mark("header")
      BY <1>1, <3>1
    <3> QED BY <3>1, <3>2 DEF FileWith
  <2>2. CASE ~begins
    <3>1. Len(i1) = 0 /\ FileWith(file, line) /\ Len(file) = line + 1
      BY <1>file, <1>parts, <2>2 DEF When
    <3>2. Len(f1) = line + 1 /\ \A i \in 1 .. line + 1 : f1[i] = file[i]
      BY <1>types, <1>1, <3>1
    <3>3. 1 \in 1 .. line + 1 /\ line + 1 > line /\ \A l \in 1 .. line : 1 + l \in 1 .. line + 1
      BY <1>types
    <3> QED BY ONLY <3>1, <3>2, <3>3 DEF FileWith
  <2> QED BY <1>bools, <2>1, <2>2
<1>3. i2 \in Seq(S) /\ Len(i2) = 1 /\ i2[1] = x
  BY <1>types
<1> HIDE DEF i2
<1>4. /\ f2 \in Seq(S) /\ Len(f2) = Len(f1) + Len(i2) /\ \A i \in 1 .. Len(f1) : f2[i] = f1[i]
      /\ \A i \in 1 .. Len(i2) : f2[Len(f1) + i] = i2[i]
  <2>1. f1 \in Seq(S) /\ i2 \in Seq(S)
    BY <1>1, <1>3
  <2> QED BY ONLY <2>1, ConcatElements
<1> HIDE DEF f2
<1>5. Len(f2) = line + 2 /\ FileWith(f2, line + 1)
  <2>1. Len(f2) = line + 2 /\ \A i \in 1 .. line + 1 : f2[i] = f1[i]
    BY <1>types, <1>2, <1>3, <1>4
  <2>2. 1 \in 1 .. Len(i2) /\ Len(f1) + 1 = 1 + (line + 1)
    BY <1>types, <1>2, <1>3
  <2>3. f2[1 + (line + 1)] = x
    BY ONLY <1>3, <1>4, <2>2
  <2>4. ASSUME NEW l \in 1 .. line + 1
        PROVE  f2[1 + l] = Item("line", 1, l, 0)
    <3>1. CASE l = line + 1
      BY ONLY <1>x, <2>3, <3>1
    <3>2. CASE l # line + 1
      <4>1. l \in 1 .. line /\ 1 + l \in 1 .. line + 1
        BY <1>types, <3>2
      <4> QED BY ONLY <1>2, <2>1, <4>1 DEF FileWith
    <3> QED BY <3>1, <3>2
  <2>5. f2[1] = Mark("header") /\ line + 2 > line + 1
    <3>1. 1 \in 1 .. line + 1 /\ line + 2 > line + 1
      BY <1>types
    <3> QED BY ONLY <1>2, <2>1, <3>1 DEF FileWith
  <2> QED BY ONLY <2>1, <2>4, <2>5 DEF FileWith
<1>6. /\ f3 \in Seq(S) /\ Len(f3) = Len(f2) + Len(i3) /\ \A i \in 1 .. Len(f2) : f3[i] = f2[i]
      /\ \A i \in 1 .. Len(i3) : f3[Len(f2) + i] = i3[i]
  <2>1. f2 \in Seq(S) /\ i3 \in Seq(S)
    BY <1>types, <1>4
  <2> QED BY ONLY <2>1, ConcatElements
<1> HIDE DEF f3
<1>7. FileWith(f3, line + 1)
  <2>1. \A i \in 1 .. line + 2 : f3[i] = f2[i]
    BY ONLY <1>5, <1>6
  <2>2. Len(f3) >= line + 2 /\ Len(f3) > line + 1
    BY <1>types, <1>0, <1>5, <1>6
  <2>3. 1 \in 1 .. line + 2 /\ \A l \in 1 .. line + 1 : 1 + l \in 1 .. line + 2
    BY <1>types
  <2> QED BY ONLY <1>5, <2>1, <2>2, <2>3 DEF FileWith
<1>8. ~ends => Len(f3) = line + 2
  <2>1. ~ends => Len(i3) = 0
    BY <1>parts DEF When
  <2> QED BY <1>types, <1>5, <1>6, <2>1
<1>9. ends => Len(f3) = line + 3 /\ f3[line + 3] = Mark("end")
  <2> SUFFICES ASSUME ends
               PROVE  Len(f3) = line + 3 /\ f3[line + 3] = Mark("end")
    OBVIOUS
  <2>1. Len(i3) = 1 /\ i3[1] = Mark("end")
    BY <1>parts DEF When
  <2>2. 1 \in 1 .. Len(i3) /\ Len(f2) + 1 = line + 3
    BY <1>types, <1>5, <2>1
  <2>3. f3[Len(f2) + 1] = i3[1]
    BY ONLY <1>6, <2>2
  <2>4. Len(f3) = line + 3
    BY <1>types, <1>5, <1>6, <2>1
  <2> QED BY ONLY <2>1, <2>2, <2>3, <2>4
<1> QED BY ONLY <1>more, <1>6, <1>7, <1>8, <1>9

(* A line of a JPEG or PNG file.                                            *)
LEMMA ImageLineKept ==
    ASSUME IInv, CountInv, ImageInv, WriteLine, mDocumentFormat # "pdf"
    PROVE  ImageInv'
<1>1. /\ pc = "loop" /\ ~chunkBad /\ ImageWriteLine /\ CountLine
      /\ frames' = [frames EXCEPT ![Len(frames)] = @ + 1]
      /\ UNCHANGED <<mDocumentFormat, mState, mKind>>
  BY DEF WriteLine, ticketVars, jobVars
<1>2. EncoderInv /\ (\E S : Over(S))
  BY DEF IInv
<1>3. /\ mCurrentImage \in Nat /\ mCurrentLine \in 0 .. Height - 1 /\ frames \in Seq(0 .. MaxRows)
      /\ Height \in Nat /\ ContentSeq(held)
  BY <1>2 DEF EncoderInv
<1>4. Len(frames) = 1 /\ mKind # "adfConcat"
  BY DEF ImageInv
<1>5. mKind' # "adfConcat" /\ Len(frames') = 1
  BY <1>1, <1>3, <1>4
<1>6. SUFFICES ASSUME ~chunkBad', Regular'
               PROVE  \/ mCurrentImage' = 0 /\ mCurrentLine' = 0 /\ payload' \o held' = <<>>
                      \/ /\ mCurrentImage' = 0 /\ mCurrentLine' # 0
                         /\ FileWith(payload' \o held', mCurrentLine')
                         /\ Len(payload' \o held') = mCurrentLine' + 1
                      \/ mCurrentImage' = 1 /\ held' = <<>> /\ FileComplete(payload')
  BY <1>5 DEF ImageInv
<1>7. Regular /\ mCurrentImage = 0 /\ mCurrentLine = frames[1]
  <2>1. Regular /\ frames[Len(frames)] < Height
    <3>1. mState' = mState /\ frames' = [frames EXCEPT ![Len(frames)] = @ + 1]
      BY <1>1
    <3> QED BY ONLY <1>2, <1>6, <3>1, RegularLine
  <2>2. Counted
    BY <1>1, <2>1 DEF CountInv, Ended
  <2>3. 1 - 1 = 0 /\ ~(frames[1] = Height)
    BY <1>3, <1>4, <2>1
  <2> QED BY <1>4, <2>1, <2>2, <2>3 DEF Counted
<1> DEFINE line == mCurrentLine
           begins == ImageBegins
           ends == ImageEnds
           x == Line
           i1 == When(begins, <<Mark("header")>>)
           i3 == When(ends, <<Mark("end")>>)
           file == payload \o held
           items == ImageItems
           more == payload' \o held'
<1>8. IF begins THEN file = <<>> ELSE FileWith(file, line) /\ Len(file) = line + 1
  <2>1. ~Ended /\ mCurrentImage # 1
    BY <1>1, <1>7 DEF Ended
  <2> HIDE DEF file
  <2>2. \/ line = 0 /\ file = <<>>
        \/ line # 0 /\ FileWith(file, line) /\ Len(file) = line + 1
    BY <1>1, <1>7, <2>1 DEF ImageInv, file
  <2> QED BY <2>2 DEF ImageBegins
<1>9. x = Item("line", 1, line + 1, 0)
  <2>1. x = Item("line", Len(frames), frames[Len(frames)] + 1, 0)
    BY <1>3 DEF Line, Last
  <2> HIDE DEF x
  <2> QED BY ONLY <1>4, <1>7, <2>1
<1>10. items = ((held \o i1) \o <<x>>) \o i3
  BY DEF ImageItems
<1>11. /\ begins \in BOOLEAN /\ ends \in BOOLEAN /\ line \in Nat
       /\ (begins <=> line = 0) /\ (ends <=> line + 1 = Height)
  BY <1>3 DEF ImageBegins, ImageEnds
<1>12. PICK S : payload \in Seq(S)
  BY <1>2 DEF Over
<1>13. PICK T : held \in Seq(T)
  BY <1>3 DEF ContentSeq
<1> DEFINE U == S \cup T \cup {x, Mark("header"), Mark("end")}
<1>14. /\ payload \in Seq(U) /\ held \in Seq(U) /\ x \in U
       /\ i1 \in Seq(U) /\ i3 \in Seq(U) /\ <<x>> \in Seq(U)
  <2>1. S \subseteq U /\ T \subseteq U /\ x \in U /\ Mark("header") \in U /\ Mark("end") \in U
    <3> HIDE DEF x
    <3> QED OBVIOUS
  <2> HIDE DEF U, x
  <2>2. payload \in Seq(U) /\ held \in Seq(U)
    BY <1>12, <1>13, <2>1, SeqMonotonic
  <2>3. <<x>> \in Seq(U) /\ <<>> \in Seq(U)
    BY <2>1
  <2>4. i1 \in Seq(U) /\ i3 \in Seq(U)
    <3> DEFINE a == <<Mark("header")>>
               b == <<Mark("end")>>
    <3>1. a \in Seq(U) /\ b \in Seq(U) /\ <<>> \in Seq(U)
      BY <2>1
    <3> HIDE DEF a, b
    <3>2. When(begins, a) \in Seq(U) /\ When(ends, b) \in Seq(U)
      BY ONLY <3>1 DEF When
    <3> QED BY <3>2 DEF a, b
  <2> QED BY ONLY <2>1, <2>2, <2>3, <2>4
<1>15. PICK k \in IF ends THEN {Len(items)} ELSE 0 .. Len(items) :
          /\ Insert(SubSeq(items, 1, k)) /\ held' = SubSeq(items, k + 1, Len(items))
  BY <1>1 DEF ImageWriteLine, PassOn
<1> DEFINE v == ((file \o i1) \o <<x>>) \o i3
           sent == SubSeq(items, 1, k)
<1>16. payload' = payload \o sent
  BY <1>1, <1>15 DEF Insert
<1> HIDE DEF line, begins, ends, x, i1, i3, items, U
<1>17. payload \o items = v /\ items \in Seq(U)
  <2> DEFINE p == payload
             h == held
             i2 == <<x>>
  <2>1. p \in Seq(U) /\ h \in Seq(U) /\ i1 \in Seq(U) /\ i2 \in Seq(U) /\ i3 \in Seq(U)
    BY ONLY <1>14
  <2> HIDE DEF p, h, i2
  <2>2. /\ p \o (((h \o i1) \o i2) \o i3) = (((p \o h) \o i1) \o i2) \o i3
        /\ ((h \o i1) \o i2) \o i3 \in Seq(U)
    BY ONLY <2>1
  <2> QED BY ONLY <1>10, <2>2, Zenon DEF p, h, i2, v, file
<1> HIDE DEF file, v
<1>18. k \in 0 .. Len(items) /\ (ends => k = Len(items))
  <2>1. Len(items) \in Nat
    BY <1>17
  <2> QED BY <1>15, <2>1
<1>19. (payload \o sent) \o held' = payload \o items /\ (ends => held' = <<>>)
  <2> DEFINE h == held'
             p == payload
  <2>1. h = SubSeq(items, k + 1, Len(items)) /\ p \in Seq(U) /\ sent = SubSeq(items, 1, k)
    BY <1>14, <1>15
  <2> HIDE DEF h, p, sent
  <2>2. p \in Seq(U) /\ items \in Seq(U) /\ k \in 0 .. Len(items)
    BY ONLY <1>17, <1>18, <2>1
  <2>3. InParts(p, sent, h, items) /\ (k = Len(items) => h = <<>>)
    <3>1. Split(U, p, items, k, sent, h)
      BY ONLY <2>1, <2>2 DEF Split
    <3> QED BY ONLY <3>1, PartsPassed
  <2>4. (p \o sent) \o h = p \o items
    BY ONLY <2>3, Zenon DEF InParts
  <2> QED BY ONLY <1>18, <2>3, <2>4, Zenon DEF h, p
<1> HIDE DEF sent
<1>20. more = v
  BY ONLY <1>16, <1>17, <1>19, Zenon
<1>21. file \in Seq(U)
  BY ONLY <1>14, ConcatElements DEF file
<1> HIDE DEF more
<1>22. FileGrows(U, file, line, begins, ends, x, i1, i3, more)
  <2>1. i1 = When(begins, <<Mark("header")>>) /\ i3 = When(ends, <<Mark("end")>>)
    BY Zenon DEF i1, i3
  <2>2. more = ((file \o i1) \o <<x>>) \o i3
    BY ONLY <1>20, Zenon DEF v
  <2> QED BY ONLY <1>8, <1>9, <1>11, <1>14, <1>21, <2>1, <2>2, Zenon DEF FileGrows
<1>23. /\ more \in Seq(U) /\ FileWith(more, line + 1)
       /\ ~ends => Len(more) = line + 2
       /\ ends => Len(more) = line + 3 /\ more[line + 3] = Mark("end")
  BY ONLY <1>22, FileLine
<1>24. mCurrentLine' = (IF ends THEN 0 ELSE line + 1) /\ mCurrentImage' = (IF ends THEN 1 ELSE 0)
  BY <1>1, <1>7 DEF CountLine, ends, line
<1>25. CASE ~ends
  <2>1. mCurrentLine' = line + 1 /\ line + 1 # 0 /\ mCurrentImage' = 0 /\ Len(more) = mCurrentLine' + 1
    BY <1>11, <1>23, <1>24, <1>25
  <2>2. FileWith(more, mCurrentLine')
    BY ONLY <1>23, <2>1
  <2> QED BY ONLY <2>1, <2>2 DEF more
<1>26. CASE ends
  <2>1. line + 1 = Height /\ line + 3 = Height + 2 /\ held' = <<>> /\ mCurrentImage' = 1
    BY <1>11, <1>19, <1>24, <1>26
  <2>2. FileComplete(more)
    BY ONLY <1>23, <1>26, <2>1 DEF FileComplete
  <2>3. payload' = more
    <3>1. payload \o sent \in Seq(U)
      <4>1. sent \in Seq(U)
        BY <1>17, <1>18 DEF sent
      <4> QED BY ONLY <1>14, <4>1, ConcatElements
    <3>2. (payload \o sent) \o <<>> = payload \o sent
      BY ONLY <3>1, ConcatEmptySeq
    <3> QED BY ONLY <1>16, <2>1, <3>2, Zenon DEF more
  <2> QED BY ONLY <2>1, <2>2, <2>3
<1> QED BY <1>25, <1>26

(* The file of an image is what has been written of it.                     *)
LEMMA ImageInductive ==
    ASSUME IInv, CountInv, ImageInv, [Next]_vars
    PROVE  ImageInv'
<1>0. EncoderInv
  BY DEF IInv
<1>1. CASE WriteLine /\ mDocumentFormat # "pdf"
  BY ONLY <1>1, IInv, CountInv, ImageInv, ImageLineKept
<1>2. CASE WriteLine /\ mDocumentFormat = "pdf"
  BY <1>2 DEF WriteLine, ticketVars, ImageInv
<1>3. ASSUME ~WriteLine, mDocumentFormat # "pdf"
      PROVE  mKind' = mKind /\ mDocumentFormat' = mDocumentFormat /\ Len(frames') = 1
  <2>1. mKind \in {"single", "adfSingle"} /\ Len(frames) = 1 /\ frames \in Seq(0 .. MaxRows)
    BY <1>0, <1>3 DEF ImageInv, EncoderInv
  <2>2. CASE ImageOver
    <3>1. "processing" \notin Outcomes
      BY <2>1 DEF Outcomes
    <3>2. PICK s \in Outcomes :
             /\ mState' = IF mCurrentLine # 0 THEN "aborted" ELSE s
             /\ frames' = IF mState' = "processing" THEN Append(frames, 0) ELSE frames
      BY <2>2 DEF ImageOver
    <3>3. mState' # "processing"
      BY <3>1, <3>2
    <3>4. frames' = frames
      BY <3>2, <3>3
    <3> QED BY <2>1, <2>2, <3>4 DEF ImageOver, ticketVars
  <2>3. CASE WriteThrows
    <3>1. frames' = [frames EXCEPT ![Len(frames)] = @ + 1]
      BY <2>3 DEF WriteThrows
    <3>2. Len(frames') = 1
      BY <2>1, <3>1
    <3> QED BY <2>3, <3>2 DEF WriteThrows, ticketVars
  <2>4. CASE \/ FlushLine \/ LineFlushed \/ Cancel \/ EndDocument \/ CloseResponse
             \/ StreamStep \/ UNCHANGED vars
    BY <2>1, <2>4 DEF FlushLine, LineFlushed, Cancel, EndDocument, CloseResponse, StreamStep,
                      vars, ticketVars
  <2> QED BY <1>3, <2>2, <2>3, <2>4 DEF Next
<1>4. CASE EndDocument /\ ~WriteLine
  <2>1. mDocumentFormat' = mDocumentFormat /\ Ended'
    BY <1>4 DEF EndDocument, ticketVars, Ended
  <2> QED BY <1>3, <1>4, <2>1 DEF ImageInv
<1>6. CASE WriteThrows /\ mDocumentFormat # "pdf" /\ ~WriteLine
  <2>1. mDocumentFormat' = mDocumentFormat /\ pc' = "thrown"
    BY <1>6 DEF WriteThrows, ticketVars
  <2> QED BY <1>3, <1>6, <2>1 DEF ImageInv
<1>5. CASE Quiet /\ ~WriteLine
  <2>1. /\ UNCHANGED <<mDocumentFormat, payload, mCurrentLine, mCurrentImage, held>>
        /\ (pc = "thrown" => pc' = "thrown")
        /\ Ended' = Ended /\ (~chunkBad' => ~chunkBad) /\ (Regular' => Regular)
    BY <1>5 DEF Quiet, lineVars
  <2>2. payload' \o held' = payload \o held
    BY <2>1
  <2> QED BY <1>3, <1>5, <2>1, <2>2 DEF ImageInv
<1> QED BY <1>1, <1>2, <1>4, <1>5, <1>6, StepKinds

(* A file that is complete.                                                 *)
LEMMA CompleteFile ==
    ASSUME NEW S, NEW file \in Seq(S), FileComplete(file)
    PROVE  file = <<Mark("header")>> \o LinesOf(1) \o <<Mark("end")>>
<1> DEFINE a == <<Mark("header")>>
           b == LinesOf(1)
           c == <<Mark("end")>>
           V == {Mark("header"), Mark("end")} \cup {Item("line", 1, l, 0) : l \in 1 .. Height}
           f == a \o b
           g == f \o c
<1>1. Height \in Nat
  OBVIOUS
<1>2. /\ a \in Seq(V) /\ Len(a) = 1 /\ a[1] = Mark("header")
      /\ c \in Seq(V) /\ Len(c) = 1 /\ c[1] = Mark("end")
  <2> HIDE DEF V, Mark
  <2>1. Mark("header") \in V /\ Mark("end") \in V
    BY DEF V
  <2> QED BY <2>1
<1>3. b \in Seq(V) /\ Len(b) = Height /\ \A l \in 1 .. Height : b[l] = Item("line", 1, l, 0)
  <2>1. b = [l \in 1 .. Height |-> Item("line", 1, l, 0)]
    BY DEF LinesOf
  <2> HIDE DEF Item, b
  <2>2. b \in [1 .. Height -> V] /\ \A l \in 1 .. Height : b[l] = Item("line", 1, l, 0)
    BY <2>1
  <2> HIDE DEF V
  <2>3. b \in Seq(V) /\ Len(b) = Height
    BY ONLY <1>1, <2>2, NumberedLen
  <2> QED BY ONLY <2>2, <2>3
<1> HIDE DEF V, a, b, c
<1>4. /\ f \in Seq(V) /\ Len(f) = 1 + Height /\ (\A i \in 1 .. 1 : f[i] = a[i])
      /\ \A l \in 1 .. Height : f[1 + l] = b[l]
  <2>1. a \in Seq(V) /\ b \in Seq(V)
    BY <1>2, <1>3
  <2>2. /\ f \in Seq(V) /\ Len(f) = Len(a) + Len(b) /\ (\A i \in 1 .. Len(a) : f[i] = a[i])
        /\ \A l \in 1 .. Len(b) : f[Len(a) + l] = b[l]
    BY ONLY <2>1, ConcatElements
  <2> HIDE DEF f
  <2> QED BY ONLY <1>2, <1>3, <2>2
<1> HIDE DEF f
<1>5. /\ g \in Seq(V) /\ Len(g) = (1 + Height) + 1 /\ (\A i \in 1 .. 1 + Height : g[i] = f[i])
      /\ \A i \in 1 .. 1 : g[(1 + Height) + i] = c[i]
  <2>1. f \in Seq(V) /\ c \in Seq(V)
    BY <1>2, <1>4
  <2>2. /\ g \in Seq(V) /\ Len(g) = Len(f) + Len(c) /\ (\A i \in 1 .. Len(f) : g[i] = f[i])
        /\ \A i \in 1 .. Len(c) : g[Len(f) + i] = c[i]
    BY ONLY <2>1, ConcatElements
  <2> HIDE DEF g
  <2> QED BY ONLY <1>2, <1>4, <2>2
<1> HIDE DEF g
<1>6. /\ Len(file) = Height + 2 /\ file[1] = Mark("header") /\ file[Height + 2] = Mark("end")
      /\ \A l \in 1 .. Height : file[1 + l] = Item("line", 1, l, 0)
  BY DEF FileComplete, FileWith
<1>7. ASSUME NEW i \in 1 .. Height + 2
      PROVE  file[i] = g[i]
  <2>1. CASE i = 1
    <3>1. 1 \in 1 .. 1 /\ 1 \in 1 .. 1 + Height
      BY <1>1
    <3> QED BY ONLY <1>2, <1>4, <1>5, <1>6, <2>1, <3>1
  <2>2. CASE i = Height + 2
    <3>1. 1 \in 1 .. 1 /\ (1 + Height) + 1 = Height + 2
      BY <1>1
    <3> QED BY ONLY <1>2, <1>5, <1>6, <2>2, <3>1
  <2>3. CASE i # 1 /\ i # Height + 2
    <3> DEFINE l == i - 1
    <3>1. l \in 1 .. Height /\ 1 + l = i /\ 1 + l \in 1 .. 1 + Height
      BY <1>1, <2>3
    <3> HIDE DEF l
    <3> QED BY ONLY <1>3, <1>4, <1>5, <1>6, <3>1
  <2> QED BY <2>1, <2>2, <2>3
<1>8. Len(g) = Height + 2
  BY <1>1, <1>5
<1> DEFINE n == Height + 2
<1>9. file = [i \in 1 .. n |-> file[i]] /\ g = [i \in 1 .. n |-> g[i]]
  BY <1>5, <1>6, <1>8
<1>10. [i \in 1 .. n |-> file[i]] = [i \in 1 .. n |-> g[i]]
  BY ONLY <1>7
<1> QED BY ONLY <1>9, <1>10, Zenon DEF a, b, c, f, g

-----------------------------------------------------------------------------
(* The document that has ended.                                             *)

Success == mState \in {"completed", "pending"} /\ Range(frames) = {Height}
EndInv ==
    Ended /\ ~chunkBad =>
        /\ mDocumentFormat = "pdf" /\ Contents => Exact(payload)
        /\ Success => IF mDocumentFormat = "pdf" THEN TreeFound(payload, mImagesCompleted)
                      ELSE payload = <<Mark("header")>> \o LinesOf(1) \o <<Mark("end")>>

(* The end of the document is written as it should be, and stays so.        *)
LEMMA EndInductive ==
    ASSUME IInv, IInv', PdfInv, CountInv, ImageInv, EndInv, [Next]_vars
    PROVE  EndInv'
<1> DEFINE Image(p) == p = <<Mark("header")>> \o LinesOf(1) \o <<Mark("end")>>
<1>1. CASE WriteLine
  BY <1>1 DEF WriteLine, EndInv, Ended
<1>2. CASE EndDocument
  <2>1. /\ UNCHANGED <<mDocumentFormat, mState, mImagesCompleted, frames, chunkBad>> /\ ~Ended
        /\ mDocumentFormat # "pdf" => payload' = payload
    BY <1>2 DEF EndDocument, ticketVars, jobVars, chunkVars, PdfDocumentEnd, Insert, Ended
  <2>2. ASSUME ~chunkBad, mDocumentFormat = "pdf", Contents'
        PROVE  Exact(payload')
    BY ONLY <1>2, <2>2, IInv, PdfInv, PdfEndExact
  <2>3. ASSUME ~chunkBad, mDocumentFormat = "pdf", Success
        PROVE  TreeFound(payload', mImagesCompleted)
    <3>1. mState \in {"completed", "pending"} /\ Range(frames) = {Height}
      BY <2>3 DEF Success
    <3> QED BY ONLY <1>2, <2>3, <3>1, IInv, IInv', PdfInv, CountInv, PdfEndSound
  <2>4. ASSUME ~chunkBad, mDocumentFormat # "pdf", Success
        PROVE  Image(payload)
    <3>1. EncoderInv /\ \E S : Over(S)
      BY DEF IInv
    <3>2. Regular /\ mCurrentImage = Len(frames)
      BY <2>1, <2>4, <3>1, AllCounted DEF Success
    <3>5. pc # "thrown"
      BY <2>4, <3>1 DEF EncoderInv, Success
    <3>3. FileComplete(payload)
      BY <2>1, <2>4, <3>2, <3>5 DEF ImageInv
    <3>4. PICK S : payload \in Seq(S)
      BY <3>1 DEF Over
    <3> QED BY ONLY <3>3, <3>4, CompleteFile
  <2>5. Success' = Success
    BY <2>1 DEF Success
  <2> HIDE DEF Image
  <2>6. Success /\ ~chunkBad /\ mDocumentFormat # "pdf" => Image(payload')
    BY <2>1, <2>4
  <2>7. ASSUME ~chunkBad'
        PROVE  /\ mDocumentFormat' = "pdf" /\ Contents' => Exact(payload')
               /\ Success' => IF mDocumentFormat' = "pdf" THEN TreeFound(payload', mImagesCompleted')
                              ELSE Image(payload')
    BY <2>1, <2>2, <2>3, <2>5, <2>6, <2>7
  <2> QED BY <2>7 DEF EndInv, Image
<1>4. CASE WriteThrows
  BY <1>4 DEF WriteThrows, EndInv, Ended
<1>3. CASE Quiet
  <2>1. /\ UNCHANGED <<mDocumentFormat, payload>> /\ Ended' = Ended /\ (~chunkBad' => ~chunkBad)
        /\ Ended => UNCHANGED <<frames, mImagesCompleted>> /\ mState' \in {mState, "canceled"}
    BY <1>3 DEF Quiet
  <2>2. Contents' = Contents /\ (Ended /\ Success' => Success)
    BY <2>1 DEF Contents, Success
  <2>3. ASSUME Ended, ~chunkBad'
        PROVE  /\ mDocumentFormat' = "pdf" /\ Contents' => Exact(payload')
               /\ Success' => IF mDocumentFormat' = "pdf" THEN TreeFound(payload', mImagesCompleted')
                              ELSE Image(payload')
    <3>1. /\ mDocumentFormat = "pdf" /\ Contents => Exact(payload)
          /\ Success => IF mDocumentFormat = "pdf" THEN TreeFound(payload, mImagesCompleted)
                        ELSE Image(payload)
      BY <2>1, <2>3 DEF EndInv
    <3> HIDE DEF Image
    <3> QED BY <2>1, <2>2, <2>3, <3>1
  <2> QED BY <2>1, <2>3 DEF EndInv
<1> QED BY <1>1, <1>2, <1>3, <1>4, StepKinds

\* The inductive invariant of the document and its contents.
DocumentInv == IInv /\ PdfInv /\ CountInv /\ ImageInv /\ EndInv

(* Whatever the backend delivers, the encoder's lists and counters fit the  *)
(* document, from its first line to its end.                                *)
THEOREM DocumentAsListed == Spec => []DocumentInv
<1>1. Init => DocumentInv
  <2> SUFFICES ASSUME Init
               PROVE  DocumentInv
    OBVIOUS
  <2>1. /\ ~Ended /\ pc = "loop" /\ payload = <<>> /\ held = <<>>
        /\ mCurrentLine = 0 /\ mCurrentImage = 0 /\ frames = <<0>>
    BY DEF Init, StreamInit, Ended
  <2>2. mDocumentFormat # "pdf" => mKind # "adfConcat"
    BY DEF Init
  <2>3. payload \o held = <<>> /\ Len(frames) = 1
    BY <2>1
  <2>4. ImageInv
    BY <2>1, <2>2, <2>3 DEF ImageInv
  <2>5. EndInv
    BY <2>1 DEF EndInv
  <2> QED BY <2>4, <2>5, InitIInv, InitPdf DEF DocumentInv
<1>2. DocumentInv /\ [Next]_vars => DocumentInv'
  <2> SUFFICES ASSUME IInv, PdfInv, CountInv, ImageInv, EndInv, [Next]_vars
               PROVE  DocumentInv'
    BY DEF DocumentInv
  <2>1. IInv'
    BY IInvInductive
  <2>2. PdfInv'
    BY PdfInductive
  <2>3. CountInv'
    BY CountInductive
  <2>4. ImageInv'
    BY ImageInductive
  <2>5. EndInv'
    BY ONLY <2>1, IInv, PdfInv, CountInv, ImageInv, EndInv, [Next]_vars, EndInductive
  <2> QED BY <2>1, <2>2, <2>3, <2>4, <2>5 DEF DocumentInv
<1> QED BY <1>1, <1>2, PTL DEF Spec

(* startxref finds the table and the table finds every object, at whatever  *)
(* line of whatever image the scan was broken off, for any number of images *)
(* and any chunks (insert_objdef::insert, chunkbuf::seekoff).               *)
THEOREM XrefExactHolds == Spec => []XrefExact
<1>1. DocumentInv => XrefExact
  <2> SUFFICES ASSUME EndInv, Ended, mDocumentFormat = "pdf", Contents, ~chunkBad
               PROVE  /\ Last(payload) = Item("startxref", XrefPos - 1, 0, 0)
                      /\ \A n \in 1 .. payload[XrefPos].a - 1 :
                            XrefEntry(n).t \in PdfObjects /\ XrefEntry(n).a = n
    BY DEF DocumentInv, XrefExact
  <2>1. Exact(payload)
    BY DEF EndInv
  <2>2. XrefPos = XrefAt(payload)
    BY Zenon DEF XrefPos, XrefAt
  <2>3. \A n : XrefEntry(n) = Entry(payload, XrefAt(payload), n)
    BY <2>2, Zenon DEF XrefEntry, Entry
  <2>4. Last(payload) = payload[Len(payload)]
    BY DEF Last
  <2> QED BY <2>1, <2>2, <2>3, <2>4 DEF Exact
<1> QED BY <1>1, DocumentAsListed, PTL

(* The document of a job that succeeded holds every line of every image in  *)
(* its place, for any number of images of any height.                       *)
THEOREM DocumentSoundHolds == Spec => []DocumentSound
<1>1. DocumentInv => DocumentSound
  <2> DEFINE File == <<Mark("header")>> \o LinesOf(1) \o <<Mark("end")>>
  <2> HIDE DEF File
  <2> SUFFICES ASSUME EndInv, Ended, ~chunkBad, Success
               PROVE  IF mDocumentFormat = "pdf" THEN PdfSound ELSE payload = File
    BY DEF DocumentInv, DocumentSound, Success, File
  <2>1. IF mDocumentFormat = "pdf" THEN TreeFound(payload, mImagesCompleted) ELSE payload = File
    BY DEF EndInv, File
  <2>2. ASSUME TreeFound(payload, mImagesCompleted)
        PROVE  PdfSound
    <3>1. XrefPos = XrefAt(payload)
      BY Zenon DEF XrefPos, XrefAt
    <3>2. \A n : XrefEntry(n) = Entry(payload, XrefAt(payload), n)
      BY <3>1, Zenon DEF XrefEntry, Entry
    <3>3. ASSUME NEW n, NEW page, PageFound(payload, n, page)
          PROVE  PageSound(n, page)
      BY <3>2, <3>3, Zenon DEF PageFound, PageSound, ImageFound
    <3> DEFINE kids == Pick(payload, {i \in 1 .. Len(payload) : payload[i].t = "kid"})
    <3>4. kids = Kids(payload)
      BY Zenon DEF Kids
    <3>5. PdfSound <=> /\ XrefEntry(Trailer.b).t = "catalog" /\ XrefEntry(Trailer.c).t = "info"
                       /\ XrefEntry(1) = Item("pages", 1, mImagesCompleted, 0)
                       /\ Len(kids) = mImagesCompleted
                       /\ \A n \in 1 .. Len(kids) : PageSound(n, XrefEntry(kids[n].a))
      BY Zenon DEF PdfSound
    <3> HIDE DEF kids
    <3>6. Len(kids) = mImagesCompleted /\ \A n \in 1 .. Len(kids) : PageSound(n, XrefEntry(kids[n].a))
      BY ONLY <2>2, <3>2, <3>3, <3>4, Zenon DEF TreeFound
    <3>7. /\ XrefEntry(Trailer.b).t = "catalog" /\ XrefEntry(Trailer.c).t = "info"
          /\ XrefEntry(1) = Item("pages", 1, mImagesCompleted, 0)
      BY ONLY <2>2, <3>2, Zenon DEF TreeFound, Trailer
    <3> QED BY ONLY <3>5, <3>6, <3>7, Zenon
  <2> QED BY <2>1, <2>2
<1> QED BY <1>1, DocumentAsListed, PTL
===============================================================================
