------------------------------- MODULE Document -------------------------------
(***************************************************************************)
(* One scanned document on its way to the client: the loop of               *)
(* ScanJob::finishTransfer as far as it drives the encoder, the encoders of *)
(* imageformats/, and below them the stream of ChunkedStream.  How the loop *)
(* and the SANE session decide the state of the job is the subject of       *)
(* ScanJob; here an image ends with any of the outcomes the kind of the job *)
(* allows.                                                                 *)
(***************************************************************************)
EXTENDS ChunkedStream, FiniteSets

CONSTANTS
    Height,        \* lines of an image, as sane_get_parameters announces them
    MaxRows,       \* bound: lines the backend delivers after one sane_start
    MaxFrames,     \* bound: how often a job of the concat kind starts anew
    Indeterminate  \* what the memory of an uninitialised int may hold

ASSUME DocumentAssumption ==
    /\ Height \in Nat \ {0} /\ MaxRows \in Nat /\ MaxFrames \in Nat \ {0}
    /\ Indeterminate \subseteq Int

VARIABLES
    mKind, mDocumentFormat,    \* from the scan ticket; "image": JPEG or PNG
    acceptable,    \* the encoder will take the resolution and the bit depth
    mState, mImagesCompleted, pc,
    mCurrentLine, mCurrentImage,       \* ImageEncoder
    mObj, mObjects, mBegin,            \* PdfEncoder::Private
    held,          \* what libjpeg or libpng has not yet passed on
    frames         \* lines delivered after each sane_start

ticketVars == <<mKind, mDocumentFormat, acceptable>>
jobVars == <<mState, mImagesCompleted>>
lineVars == <<mCurrentLine, mCurrentImage>>
pdfVars == <<mObj, mObjects, mBegin>>
encoderVars == <<lineVars, pdfVars, held>>
vars == <<streamVars, ticketVars, jobVars, pc, encoderVars, frames>>

Init ==
    /\ StreamInit
    /\ mKind \in {"single", "adfSingle", "adfConcat"}
    /\ mDocumentFormat \in {"image", "pdf"}
    /\ mKind = "adfConcat" => mDocumentFormat = "pdf"
    /\ acceptable \in BOOLEAN
    /\ mState = "processing" /\ mImagesCompleted = 0 /\ pc = "loop"
    /\ mCurrentLine = 0 /\ mCurrentImage = 0
    /\ mObj \in Indeterminate /\ mObjects = <<>> /\ mBegin = 0
    /\ held = <<>> /\ frames = <<0>>

-----------------------------------------------------------------------------
(* imageformats/imageencoder.cpp and its three subclasses. *)

ImageBegins == mCurrentLine = 0
DocumentBegins == mCurrentLine = 0 /\ mCurrentImage = 0
ImageEnds == mCurrentLine + 1 = Height

When(c, items) == IF c THEN items ELSE <<>>

\* The line that the backend has just delivered.
Line == Item("line", Len(frames), Last(frames) + 1, 0)

\* ImageEncoder::writeLine: a line more, and an image more at its last one.
CountLine ==
    /\ mCurrentLine' = IF ImageEnds THEN 0 ELSE mCurrentLine + 1
    /\ mCurrentImage' = IF ImageEnds THEN mCurrentImage + 1 ELSE mCurrentImage

PdfObjects == {"page", "image", "contents", "pages", "catalog", "info"}

\* insert_objdef::insert: every object defined in items, which are inserted
\* at the position tellp() = at, goes with its offset into mObjects.
Defobj(items, at) ==
    Pick([k \in 1 .. Len(items) |-> [id |-> items[k].a, offset |-> at + k - 1]],
         {k \in 1 .. Len(items) : items[k].t \in PdfObjects})

\* Mutant: the operands of the chain of << are evaluated from right to left.
PdfImageBeginReversed(obj) ==
    <<Item("page", obj + 2, obj + 3, obj + 2), Item("image", obj + 1, 0, 0)>>

\* PdfEncoder::onImageBegin: a page, which names its contents and its image.
\* mObj is read and incremented in one chain of <<, whose order C++11 leaves
\* open; the compilers the project is built with take it from left to right.
PdfImageBegin(obj) ==
    <<Item("page", obj + 1, obj + 3, obj + 2), Item("image", obj + 2, 0, 0)>>

\* PdfEncoder::onImageEnd
PdfImageEnd(obj) == <<Mark("endstream"), Item("contents", obj + 1, 0, 0)>>

\* ImageEncoder::writeLine with a PdfEncoder: onDocumentBegin, onImageBegin,
\* onWriteLine and onImageEnd as the counters demand.
PdfWriteLine ==
    LET obj   == IF DocumentBegins THEN 1 ELSE mObj
        inObj == IF ImageBegins THEN obj + 2 ELSE obj
        items == When(DocumentBegins, <<Mark("header")>>)
                 \o When(ImageBegins, PdfImageBegin(obj))
                 \o <<Line>>
                 \o When(ImageEnds, PdfImageEnd(inObj))
    IN  /\ Insert(items)
        /\ mBegin' = IF DocumentBegins THEN Tellp ELSE mBegin
        /\ mObjects' = (IF DocumentBegins THEN <<>> ELSE mObjects)
                       \o Defobj(items, Tellp - mBegin')
        /\ mObj' = IF ImageEnds THEN inObj + 1 ELSE inObj
        /\ UNCHANGED held

\* A JPEG or PNG file has a header, its lines, and an end.
ImageItems ==
    held \o When(ImageBegins, <<Mark("header")>>) \o <<Line>>
         \o When(ImageEnds, <<Mark("end")>>)

\* Of what libjpeg or libpng has been given it passes on what it likes, and
\* everything once the image has ended.
PassOn(items) ==
    \E k \in IF ImageEnds THEN {Len(items)} ELSE 0 .. Len(items) :
        /\ Insert(SubSeq(items, 1, k))
        /\ held' = SubSeq(items, k + 1, Len(items))

\* ImageEncoder::writeLine with a JpegEncoder or a PngEncoder.
ImageWriteLine == PassOn(ImageItems) /\ UNCHANGED pdfVars

\* The encoders refuse a resolution of zero (PDF) or an odd bit depth (JPEG),
\* and a second image in a JPEG or PNG file.
MustThrow ==
    \/ DocumentBegins /\ ~acceptable
    \/ mDocumentFormat = "image" /\ ImageBegins /\ mCurrentImage > 0

\* Errors of libjpeg and libpng become exceptions, after any part of what they
\* have been given has been passed on.
MayThrow == MustThrow \/ mDocumentFormat = "image"
ThrowsHalfway ==
    \E k \in IF MustThrow THEN {0} ELSE 0 .. Len(ImageItems) : Insert(SubSeq(ImageItems, 1, k))

\* PdfEncoder::onDocumentEnd, the objects: the page tree names every third
\* object from 2 up to mObj, catalogue and info get the next numbers.
PdfTree ==
    <<Item("pages", 1, mCurrentImage, 0)>>
    \o [k \in 1 .. mObj \div 3 |-> Item("kid", 3 * k - 1, 0, 0)]
    \o <<Item("catalog", mObj + 1, 1, 0), Item("info", mObj + 2, 0, 0)>>

\* PdfEncoder::Private::objdef::less, of the objects at two positions; what
\* sorting makes of two with the same number is left to their order.
ObjLess(objs, j, k) ==
    objs[j].id < objs[k].id \/ (objs[j].id = objs[k].id /\ j < k)

\* std::sort: the object in place n has n - 1 objects before it.
ById(objs) ==
    LET before == [k \in 1 .. Len(objs) |-> Cardinality({j \in 1 .. Len(objs) : ObjLess(objs, j, k)})]
    IN  [n \in 1 .. Len(objs) |-> objs[CHOOSE k \in 1 .. Len(objs) : before[k] = n - 1]]

\* PdfEncoder::onDocumentEnd, the table at the position at: one entry for each
\* of objs, listed by number, then the numbers of catalogue and info.
PdfTable(objs, at) ==
    LET sorted == ById(objs)
    IN  <<Item("xref", Len(objs) + 1, 0, 0)>>
        \o [o \in 1 .. Len(objs) |-> Item("entry", sorted[o].offset, 0, 0)]
        \o <<Item("trailer", Len(objs) + 1, mObj + 1, mObj + 2),
             Item("startxref", at, 0, 0)>>

\* PdfEncoder::onDocumentEnd: the tree defines the last objects, and the table
\* comes after it.
PdfDocumentEnd ==
    LET at == Tellp - mBegin
        objs == mObjects \o Defobj(PdfTree, at)
    IN  /\ mObjects' = ById(objs)
        /\ Insert(PdfTree \o PdfTable(objs, at + Len(PdfTree)))
        /\ mObj' = mObj + 2
        /\ UNCHANGED mBegin

-----------------------------------------------------------------------------
(* ScanJob::Private::finishTransfer *)

Free == call = "none"
IsProcessing == mState = "processing"

\* The backend delivers a line and the encoder writes it.
WriteLine ==
    /\ pc = "loop" /\ Free /\ IsProcessing /\ ~chunkBad
    /\ Last(frames) < MaxRows /\ ~MustThrow
    /\ IF mDocumentFormat = "pdf" THEN PdfWriteLine ELSE ImageWriteLine
    /\ CountLine
    /\ frames' = [frames EXCEPT ![Len(frames)] = @ + 1]
    /\ pc' = "flush"
    /\ UNCHANGED <<call, fdVars, ticketVars, jobVars>>

\* The encoder throws: the job is aborted, and the loop ends.  What the encoder
\* then counts and holds is not looked at any more.
WriteThrows ==
    /\ pc = "loop" /\ Free /\ IsProcessing /\ ~chunkBad
    /\ Last(frames) < MaxRows /\ MayThrow
    /\ IF mDocumentFormat = "pdf" THEN UNCHANGED chunkVars ELSE ThrowsHalfway
    /\ frames' = [frames EXCEPT ![Len(frames)] = @ + 1]
    /\ mState' = "aborted" /\ pc' = "thrown"
    /\ UNCHANGED <<call, fdVars, ticketVars, mImagesCompleted, encoderVars>>

\* os.flush().  A PNG file is also flushed by libpng itself, after every tenth
\* row, just before.
FlushLine ==
    /\ pc = "flush" /\ Flush
    /\ pc' \in IF mDocumentFormat = "pdf" THEN {"flushed"} ELSE {"flush", "flushed"}
    /\ UNCHANGED <<ticketVars, jobVars, encoderVars, frames>>

\* A line that could not be sent aborts the job.
LineFlushed ==
    /\ pc = "flushed" /\ Free /\ pc' = "loop"
    /\ mState' = IF chunkBad THEN "aborted" ELSE mState
    /\ UNCHANGED <<streamVars, ticketVars, mImagesCompleted, encoderVars, frames>>

\* What updateStatus may make of the status that ended the image.
Outcomes ==
    CASE mKind = "single"    -> {"aborted", "completed"}
      [] mKind = "adfSingle" -> {"aborted", "completed", "pending"}
      [] mKind = "adfConcat" -> {"aborted", "completed", "processing"}

\* read() returns something else than a line.  An encoder that is inside an
\* image at this moment makes the job aborted.
ImageOver ==
    /\ pc = "loop" /\ Free /\ IsProcessing
    /\ mImagesCompleted' = mImagesCompleted + 1
    /\ \E s \in Outcomes :
        /\ s = "processing" => Len(frames) < MaxFrames
        /\ mState' = IF mCurrentLine # 0 THEN "aborted" ELSE s
        /\ frames' = IF mState' = "processing" THEN Append(frames, 0) ELSE frames
    /\ UNCHANGED <<streamVars, ticketVars, pc, encoderVars>>

\* ScanJob::cancel, at any time, by another thread.
Cancel ==
    /\ call # "closed" /\ mState # "canceled" /\ mState' = "canceled"
    /\ UNCHANGED <<streamVars, ticketVars, mImagesCompleted, pc, encoderVars, frames>>

\* ImageEncoder::endDocument, whatever has become of the job.
EndDocument ==
    /\ pc \in {"loop", "thrown"} /\ Free /\ ~IsProcessing /\ pc' = "close"
    /\ IF mDocumentFormat = "pdf"
       THEN PdfDocumentEnd
       ELSE UNCHANGED <<chunkVars, pdfVars>>
    /\ UNCHANGED <<call, fdVars, ticketVars, jobVars, lineVars, held, frames>>

\* The handler returns and the response is destroyed.
CloseResponse ==
    /\ pc = "close" /\ Close /\ pc' = "over"
    /\ UNCHANGED <<ticketVars, jobVars, encoderVars, frames>>

StreamStep ==
    /\ StreamNext
    /\ UNCHANGED <<ticketVars, jobVars, pc, encoderVars, frames>>

Next ==
    \/ WriteLine \/ WriteThrows \/ FlushLine \/ LineFlushed \/ ImageOver
    \/ Cancel \/ EndDocument \/ CloseResponse \/ StreamStep

Spec == Init /\ [][Next]_vars

-----------------------------------------------------------------------------
(* Properties *)

Ended == pc \in {"close", "over"}
Contents == Mark("header") \in Range(payload)

\* Types and ranges of everything the encoder and the stream keep; the output
\* buffer of fdbuf never holds more than its size.
TypeOK ==
    /\ mState \in {"processing", "pending", "completed", "aborted", "canceled"}
    /\ pc \in {"loop", "flush", "flushed", "thrown", "close", "over"}
    /\ call \in {"none", "send", "flush", "close", "closed"}
    /\ mCurrentLine \in 0 .. Height - 1 /\ mCurrentImage \in Nat
    /\ frames \in Seq(0 .. MaxRows) /\ Len(frames) \in 1 .. MaxFrames
    /\ Len(outbuf) \in 0 .. OutbufSize
    /\ {chunkBad, streamBad, syncing} \subseteq BOOLEAN

\* What the client has received is at every moment a correctly framed part of
\* what the encoder wrote: a beginning of it, in order, without a gap or a
\* repetition, every chunk as long as it says and followed by the next one,
\* whatever the socket accepts at a time and wherever it fails (fdbuf::sync,
\* chunkbuf::sync).
WellFramed ==
    /\ IsPrefix(Received, payload)
    /\ \A i \in 1 .. Len(wire) :
        wire[i].t = "size" =>
            LET end == i + wire[i].a + 1
            IN  /\ \A j \in i + 1 .. end - 1 : j <= Len(wire) => IsContent(wire[j])
                /\ end <= Len(wire) => wire[end].t = "crlf"
                /\ end + 1 <= Len(wire) => wire[end + 1].t \in {"size", "last"}

\* finishTransfer goes on to the next line only when flush() was successful,
\* and then the socket has accepted everything written so far: nothing waits
\* in the chunk or in fdbuf's buffer.
FlushedIsDelivered ==
    pc = "loop" /\ Free /\ ~chunkBad /\ ~streamBad => Received = payload

\* A client that sees the last chunk has the complete document as the encoder
\* wrote it; after a lost piece the connection ends without the last chunk
\* (chunkbuf::~chunkbuf).
LastChunkMeansAll ==
    Mark("last") \in Range(wire) => Received = payload /\ Last(wire) = Mark("last")

\* The table of a PDF, at whatever point of an image the scan was broken off:
\* startxref finds it, and its n-th entry finds the definition of object n,
\* although the document left in as many chunks as it has lines
\* (insert_objdef::insert, chunkbuf::seekoff).
XrefPos == CHOOSE x \in 1 .. Len(payload) : payload[x].t = "xref"
XrefEntry(n) == payload[payload[XrefPos + n].a + 1]
Trailer == payload[Len(payload) - 1]
XrefExact ==
    Ended /\ mDocumentFormat = "pdf" /\ Contents /\ ~chunkBad =>
        /\ Last(payload) = Item("startxref", XrefPos - 1, 0, 0)
        /\ \A n \in 1 .. payload[XrefPos].a - 1 :
            XrefEntry(n).t \in PdfObjects /\ XrefEntry(n).a = n

\* The document of a job that succeeded, its images as high as announced, is
\* sound.  PDF: the page tree counts and names one page for every image
\* completed, each page leads to its contents and to an image that holds the
\* lines of that scan in order, and the trailer leads to catalogue and info.
\* JPEG and PNG: the file holds every line and has its end.
LinesOf(f) == [l \in 1 .. Height |-> Item("line", f, l, 0)]
PageSound(n, page) ==
    /\ page.t = "page" /\ XrefEntry(page.b).t = "contents"
    /\ XrefEntry(page.c).t = "image"
    /\ \E i \in 1 .. Len(payload) - Height - 1 :
        /\ payload[i] = XrefEntry(page.c)
        /\ SubSeq(payload, i + 1, i + Height) = LinesOf(n)
        /\ payload[i + Height + 1].t = "endstream"
PdfSound ==
    LET kids == Pick(payload, {i \in 1 .. Len(payload) : payload[i].t = "kid"})
    IN  /\ XrefEntry(Trailer.b).t = "catalog" /\ XrefEntry(Trailer.c).t = "info"
        /\ XrefEntry(1) = Item("pages", 1, mImagesCompleted, 0)
        /\ Len(kids) = mImagesCompleted
        /\ \A n \in 1 .. Len(kids) : PageSound(n, XrefEntry(kids[n].a))
DocumentSound ==
    Ended /\ ~chunkBad /\ mState \in {"completed", "pending"}
        /\ Range(frames) = {Height} =>
        IF mDocumentFormat = "pdf" THEN PdfSound
        ELSE payload = <<Mark("header")>> \o LinesOf(1) \o <<Mark("end")>>
===============================================================================
