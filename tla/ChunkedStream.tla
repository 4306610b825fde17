---------------------------- MODULE ChunkedStream ----------------------------
(***************************************************************************)
(* The output side of one connection: the stream that Response::send()      *)
(* returns for a scanned document (web/httpserver.cpp, Chunkstream), the    *)
(* connection's std::ostream, its fdbuf (basic/fdbuf.cpp) and the socket.   *)
(*                                                                         *)
(*   encoder -> chunkbuf (buffer) -> mStream -> fdbuf (mOutbuf) -> socket   *)
(*                                                                         *)
(* One item stands for a piece of text that is inserted as a whole, and its *)
(* length is one: an offset into the document is a number of items.  The    *)
(* calls are synchronous, so the inserting thread is in one of them at a    *)
(* time (call); inside a call the socket accepts what it likes, or fails.   *)
(* A write() interrupted by a signal is repeated and changes nothing.       *)
(***************************************************************************)
EXTENDS Integers, Sequences, SequencesExt, Subsequence

CONSTANT OutbufSize      \* fdbuf: sizeof(mOutbuf)

ASSUME OutbufSizeAssumption == OutbufSize \in Nat \ {0, 1}

VARIABLES
    payload,        \* every item inserted into the Chunkstream so far
    chunk,          \* chunkbuf: what has been inserted since the last sync
    mTotalWritten,  \* chunkbuf::mTotalWritten
    chunkBad,       \* the Chunkstream's badbit
    call,           \* "none", or the call that is being executed
    todo,           \* what that call has yet to insert into mStream
    outbuf,         \* fdbuf: from pbase() to pptr()
    syncing,        \* fdbuf::sync() is in its loop
    streamBad,      \* mStream's badbit
    wire            \* what the socket has accepted

chunkVars == <<payload, chunk, mTotalWritten, chunkBad>>
fdVars == <<todo, outbuf, syncing, streamBad, wire>>
streamVars == <<chunkVars, call, fdVars>>

Item(t, a, b, c) == [t |-> t, a |-> a, b |-> b, c |-> c]
Mark(t) == Item(t, 0, 0, 0)
Size(n) == Item("size", n, 0, 0)      \* a chunk's length and its CR LF
Framing == {"head", "size", "crlf", "last", "flush"}   \* flush is never sent
IsContent(i) == i.t \notin Framing

Content(s) == Pick(s, {i \in 1 .. Len(s) : IsContent(s[i])})

\* Response::sendHeaders: the headers go to mStream itself, and are flushed.
StreamInit ==
    /\ payload = <<>> /\ chunk = <<>> /\ mTotalWritten = 0 /\ chunkBad = FALSE
    /\ call = "send" /\ todo = <<Mark("head"), Mark("flush")>>
    /\ outbuf = <<>> /\ syncing = FALSE /\ streamBad = FALSE /\ wire = <<>>

\* Chunkstream << items: the stringbuf grows, and nothing happens once the
\* badbit is set.
Insert(items) ==
    /\ payload' = IF chunkBad THEN payload ELSE payload \o items
    /\ chunk' = IF chunkBad THEN chunk ELSE chunk \o items
    /\ UNCHANGED <<mTotalWritten, chunkBad>>

\* Mutant: seekoff forgets the chunks that have already gone.
TellpInChunk == IF chunkBad THEN -1 ELSE Len(chunk)

\* Chunkstream::tellp(), by way of chunkbuf::seekoff.
Tellp == IF chunkBad THEN -1 ELSE mTotalWritten + Len(chunk)

\* What chunkbuf::sync inserts into mStream.
Chunk ==
    IF chunk = <<>> THEN <<>>
    ELSE <<Size(Len(chunk))>> \o chunk \o <<Mark("crlf"), Mark("flush")>>

\* chunkbuf::sync begins.  The string is counted and taken out of the buffer
\* before mStream is asked whether it still works.
Sync(c, more) ==
    /\ call = "none" /\ call' = c
    /\ chunk' = <<>> /\ mTotalWritten' = mTotalWritten + Len(chunk)
    /\ todo' = Chunk \o more
    /\ UNCHANGED <<payload, chunkBad, outbuf, syncing, streamBad, wire>>

\* std::ostream::flush() on the Chunkstream.
Flush == Sync("flush", <<>>)

\* Mutant: the destructor does not call pubsync().
CloseUnsynced ==
    /\ call = "none" /\ call' = "close"
    /\ todo' = <<Mark("last"), Mark("flush")>>
    /\ UNCHANGED <<chunkVars, outbuf, syncing, streamBad, wire>>

\* Response::~Response deletes the Chunkstream: pubsync(), then the last chunk.
Close == Sync("close", <<Mark("last"), Mark("flush")>>)

\* Mutant: setp() gives the whole array, and overflow() still adds its item.
PutLate ==
    /\ call # "none" /\ ~syncing /\ ~streamBad
    /\ todo # <<>> /\ Head(todo).t # "flush"
    /\ outbuf' = Append(outbuf, Head(todo)) /\ todo' = Tail(todo)
    /\ syncing' = (Len(outbuf) = OutbufSize)
    /\ UNCHANGED <<chunkVars, call, streamBad, wire>>

\* mStream << one more item: into the buffer, which overflow() writes out
\* when it is full, with the item that had no place.
Put ==
    /\ call # "none" /\ ~syncing /\ ~streamBad
    /\ todo # <<>> /\ Head(todo).t # "flush"
    /\ outbuf' = Append(outbuf, Head(todo)) /\ todo' = Tail(todo)
    /\ syncing' = (Len(outbuf) = OutbufSize - 1)
    /\ UNCHANGED <<chunkVars, call, streamBad, wire>>

\* mStream << std::flush: fdbuf::sync() writes out what there is.
PutFlush ==
    /\ call # "none" /\ ~syncing /\ ~streamBad
    /\ todo # <<>> /\ Head(todo).t = "flush"
    /\ todo' = Tail(todo) /\ syncing' = (outbuf # <<>>)
    /\ UNCHANGED <<chunkVars, call, outbuf, streamBad, wire>>

\* Mutant: the pointer is not advanced after a partial write.
WriteSamePlace(k) ==
    /\ syncing
    /\ wire' = wire \o SubSeq(outbuf, 1, k)
    /\ outbuf' = SubSeq(outbuf, 1, Len(outbuf) - k)
    /\ syncing' = (k < Len(outbuf))
    /\ UNCHANGED <<chunkVars, call, todo, streamBad>>

\* write() accepts the first k items; fdbuf::sync goes on with the others.
Write(k) ==
    /\ syncing
    /\ wire' = wire \o SubSeq(outbuf, 1, k)
    /\ outbuf' = SubSeq(outbuf, k + 1, Len(outbuf))
    /\ syncing' = (k < Len(outbuf))
    /\ UNCHANGED <<chunkVars, call, todo, streamBad>>

\* Mutant: sync() leaves its loop on an error and returns 0.
WriteFailsSilently ==
    /\ syncing /\ syncing' = FALSE
    /\ outbuf' = <<>>
    /\ UNCHANGED <<chunkVars, call, todo, streamBad, wire>>

\* write() fails: fdbuf::sync has already emptied the buffer, it returns -1,
\* and mStream gets its badbit: whatever is inserted from now on is dropped.
WriteFails ==
    /\ syncing /\ syncing' = FALSE
    /\ outbuf' = <<>> /\ streamBad' = TRUE
    /\ UNCHANGED <<chunkVars, call, todo, wire>>

\* The call returns.  chunkbuf::sync reports the state of mStream, and flush()
\* sets the Chunkstream's badbit when that is an error.  Closing the response
\* also ends the connection.
Return ==
    /\ call \in {"send", "flush", "close"} /\ ~syncing
    /\ todo = <<>> \/ streamBad
    /\ call' = IF call = "close" THEN "closed" ELSE "none"
    /\ chunkBad' = (chunkBad \/ (call = "flush" /\ streamBad))
    /\ todo' = <<>>
    /\ UNCHANGED <<payload, chunk, mTotalWritten, outbuf, syncing, streamBad, wire>>

StreamNext ==
    \/ Put \/ PutFlush \/ WriteFails \/ Return
    \/ \E k \in 1 .. Len(outbuf) : Write(k)

-----------------------------------------------------------------------------
\* The document as the client takes it out of the chunks.
Received == Content(wire)
===============================================================================
