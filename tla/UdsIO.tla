-------------------------------- MODULE UdsIO --------------------------------
(***************************************************************************)
(* How the UDS index reads and writes bytes: buffers with their integer    *)
(* codecs, regions of a file, of a range of its blocks or of a buffer in   *)
(* memory, and the buffered writer and reader on top of any of them.       *)
(* src/utils/uds/buffer.c, numeric.h, fileUtils.c, fileIORegion.c,         *)
(* blockIORegion.c, bufferedIORegion.c, bufferedWriter.c, bufferedReader.c *)
(*                                                                         *)
(* A byte has BYTE values; the sizes of blocks and buffers are constants   *)
(* of the scenario.  The bytes of the stream that is written are numbered, *)
(* so that every byte can be told from every other.                        *)
(***************************************************************************)
EXTENDS Integers, Sequences, FiniteSets

CONSTANTS Scenarios, \* the regions, lengths and faults explored
          BYTE       \* values of a byte

VARIABLES
  scenario, \* rigid
  phase,    \* "closed", "write", "read" a region; or "buffer"
  region,   \* the IORegion, with the file or the buffer under it
  writer,   \* BufferedWriter
  reader,   \* BufferedReader
  answer,   \* result of the last operation
  image,    \* ghost: the byte that was last written at each position
  place,    \* ghost: the caller's position, in the writer or the reader
  last,     \* ghost: what the last read was asked for, and gave
  buffer,   \* a Buffer used on its own
  items     \* ghost: the values in it, those already taken and the rest

vars == <<scenario, phase, region, writer, reader, answer, image, place, last, buffer, items>>

UDS_SUCCESS == "UDS_SUCCESS"
Smaller(a, b) == IF a < b THEN a ELSE b
Larger(a, b) == IF a < b THEN b ELSE a
Zeros(n) == [i \in 1 .. n |-> 0]
\* F(z), with z evaluated first.
Then(z, F(_)) == CHOOSE result \in {F(w) : w \in {z}} : TRUE
-----------------------------------------------------------------------------
(* Integers in memory.  A codec is a width in bytes, an order and a sign.  *)

Codec(width, bigEndian, signed) ==
  [width |-> width, bigEndian |-> bigEndian, signed |-> signed]

UInt64BE == Codec(8, TRUE, FALSE)
UInt32BE == Codec(4, TRUE, FALSE)
UInt16BE == Codec(2, TRUE, FALSE)
Int64LE  == Codec(8, FALSE, TRUE)
UInt64LE == Codec(8, FALSE, FALSE)
Int32LE  == Codec(4, FALSE, TRUE)
UInt32LE == Codec(4, FALSE, FALSE)
UInt16LE == Codec(2, FALSE, FALSE)
Boolean  == Codec(1, FALSE, FALSE)

Span(codec) == BYTE ^ codec.width

\* the place value of byte i
Weight(codec, i) == BYTE ^ (IF codec.bigEndian THEN codec.width - i ELSE i - 1)

(* A number as the bytes the store functions leave in memory.              *)
store(codec, num) ==
  [i \in 1 .. codec.width |->
     ((IF num < 0 THEN num + Span(codec) ELSE num) \div Weight(codec, i)) % BYTE]

RECURSIVE Sum(_, _, _)
Sum(codec, bytes, i) ==
  IF i = 0 THEN 0 ELSE bytes[i] * Weight(codec, i) + Sum(codec, bytes, i - 1)

(* The number the get functions make of bytes.                             *)
load(codec, bytes) ==
  LET Signed(num) == IF codec.signed /\ num >= Span(codec) \div 2 THEN num - Span(codec) ELSE num
  IN  Then(Sum(codec, bytes, codec.width), Signed)
-----------------------------------------------------------------------------
(* Buffers.  Content lies between start and end; data is the whole of the  *)
(* memory.                                                                 *)

wrapBuffer(bytes, contentLength) ==
  [start |-> 0, end |-> contentLength, length |-> Len(bytes), data |-> bytes, wrapped |-> TRUE]

makeBuffer(size) == [wrapBuffer(Zeros(size), 0) EXCEPT !.wrapped = FALSE]

contentLength(b) == b.end - b.start

availableSpace(b) == b.length - b.end

Outcome(result, b) == [result |-> result, buffer |-> b]

growBuffer(b, length) ==
  IF b.wrapped \/ b.end > length THEN Outcome("UDS_INVALID_ARGUMENT", b)
  ELSE Outcome(UDS_SUCCESS,
               [b EXCEPT !.length = length,
                         !.data = [i \in 1 .. length |-> IF i <= b.length THEN @[i] ELSE 0]])

compactBuffer(b) ==
  IF b.start = 0 \/ b.end = 0 THEN b
  ELSE [b EXCEPT !.data = [i \in 1 .. b.length |->
                             IF i <= contentLength(b) THEN @[b.start + i] ELSE @[i]],
                 !.start = 0, !.end = contentLength(b)]

\* the buffer, compacted if that is needed for the space
ensureAvailableSpace(b, bytes) == IF availableSpace(b) >= bytes THEN b ELSE compactBuffer(b)

resetBufferEnd(b, end) ==
  IF end > b.length THEN Outcome("UDS_BUFFER_ERROR", b)
  ELSE Outcome(UDS_SUCCESS, [b EXCEPT !.end = end, !.start = Smaller(@, end)])

skipForward(b, bytesToSkip) ==
  IF contentLength(b) < bytesToSkip THEN Outcome("UDS_BUFFER_ERROR", b)
  ELSE Outcome(UDS_SUCCESS, [b EXCEPT !.start = @ + bytesToSkip])

rewindBuffer(b, bytesToRewind) ==
  IF b.start < bytesToRewind THEN Outcome("UDS_BUFFER_ERROR", b)
  ELSE Outcome(UDS_SUCCESS, [b EXCEPT !.start = @ - bytesToRewind])

getBufferContents(b) == SubSeq(b.data, b.start + 1, b.length)

getBytesFromBuffer(b, length) ==
  IF contentLength(b) < length
  THEN [result |-> "UDS_BUFFER_ERROR", buffer |-> b, bytes |-> <<>>]
  ELSE [result |-> UDS_SUCCESS, buffer |-> [b EXCEPT !.start = @ + length],
        bytes |-> SubSeq(getBufferContents(b), 1, length)]

putBytes(b, source) ==
  LET Put(e) == IF availableSpace(e) < Len(source) THEN Outcome("UDS_BUFFER_ERROR", e)
                ELSE Outcome(UDS_SUCCESS,
                       [e EXCEPT !.data = [i \in 1 .. e.length |->
                                             IF i > e.end /\ i <= e.end + Len(source)
                                             THEN source[i - e.end] ELSE @[i]],
                                 !.end = @ + Len(source)])
  IN  Then(ensureAvailableSpace(b, Len(source)), Put)

zeroBytes(b, length) == putBytes(b, Zeros(length))

RECURSIVE Flatten(_)
Flatten(seqs) == IF seqs = <<>> THEN <<>> ELSE Head(seqs) \o Flatten(Tail(seqs))

(* The put functions of every width and order, one value or several.       *)
putIntoBuffer(b, codec, values) ==
  putBytes(b, Flatten([i \in DOMAIN values |-> store(codec, values[i])]))

(* The get functions: all the values asked for, or none.                   *)
getFromBuffer(b, codec, count) ==
  LET Decoded(got) ==
        [result |-> got.result, buffer |-> got.buffer,
         values |-> IF got.result # UDS_SUCCESS THEN <<>>
                    ELSE [i \in 1 .. count |->
                            load(codec, SubSeq(got.bytes, (i - 1) * codec.width + 1,
                                               i * codec.width))]]
  IN  Then(getBytesFromBuffer(b, codec.width * count), Decoded)
-----------------------------------------------------------------------------
(* Files and regions.                                                      *)

NULL == -1  \* no length pointer was given

(* pread() until everything is there or the file ends.                     *)
readDataAtOffset(file, offset, size) ==
  SubSeq(file, offset + 1, Smaller(offset + size, Len(file)))

(* pwrite() of everything; a failure may leave a part of it in the file.   *)
writeBufferAtOffset(file, offset, data, io) ==
  LET n == IF io = "ok" THEN Len(data) ELSE IF io = "torn" THEN 1 ELSE 0
  IN  [result |-> IF io = "ok" THEN UDS_SUCCESS ELSE "EIO",
       file |-> [i \in 1 .. Larger(Len(file), IF n = 0 THEN 0 ELSE offset + n) |->
                   IF i > offset /\ i <= offset + n THEN data[i - offset]
                   ELSE IF i <= Len(file) THEN file[i] ELSE 0]]

setOpenFileSize(file, size) ==
  [i \in 1 .. size |-> IF i <= Len(file) THEN file[i] ELSE 0]

setFileRegionLimit(file, limit) ==
  IF limit > Len(file) THEN setOpenFileSize(file, limit) ELSE file

Read(result, r, data) == [result |-> result, region |-> r, data |-> data]

Written(result, r) == [result |-> result, region |-> r]

(* The checks of a file region.                                            *)
fior_validateIO(r, offset, size, length, willWrite) ==
  IF ~(IF willWrite THEN r.writing ELSE r.reading) THEN "UDS_BAD_IO_DIRECTION"
  ELSE IF offset % r.blockSize # 0 THEN "UDS_INCORRECT_ALIGNMENT"
  ELSE IF size % r.blockSize # 0 \/ length > size THEN "UDS_BUFFER_ERROR"
  ELSE UDS_SUCCESS

fior_write(r, offset, data, size, io) ==
  IF fior_validateIO(r, offset, size, Len(data), TRUE) # UDS_SUCCESS
  THEN Written(fior_validateIO(r, offset, size, Len(data), TRUE), r)
  ELSE LET Stored(w) == Written(w.result, [r EXCEPT !.file = w.file])
       IN  Then(writeBufferAtOffset(r.file, offset, data, io), Stored)

(* A read with a least length, or of the whole size.                       *)
fior_read(r, offset, size, length) ==
  LET len == IF length = NULL THEN size ELSE length
      valid == fior_validateIO(r, offset, size, len, FALSE)
      Got(data) ==
        IF length = NULL /\ Len(data) < size THEN Read("UDS_CORRUPT_FILE", r, <<>>)
        ELSE IF Len(data) < len
        THEN Read(IF data = <<>> THEN "UDS_END_OF_FILE" ELSE "UDS_SHORT_READ", r, <<>>)
        ELSE Read(UDS_SUCCESS, r, data)
  IN  IF valid # UDS_SUCCESS THEN Read(valid, r, <<>>)
      ELSE Then(readDataAtOffset(r.file, offset, size), Got)

(* The checks of a block region.  A read may be cut short by the region's  *)
(* end, a write may not.                                                   *)
bior_validateIO(r, offset, size, length, willWrite) ==
  LET limit == r.end - r.start
      len == IF willWrite THEN length ELSE Smaller(limit, offset + size) - offset
  IN  IF fior_validateIO(r, offset, size, length, willWrite) # UDS_SUCCESS
      THEN fior_validateIO(r, offset, size, length, willWrite)
      ELSE IF offset > limit THEN "UDS_OUT_OF_RANGE"
      ELSE IF offset = limit /\ length > 0 THEN "UDS_END_OF_FILE"
      ELSE IF offset + len > limit THEN "UDS_OUT_OF_RANGE"
      ELSE UDS_SUCCESS

bior_write(r, offset, data, size, io) ==
  IF bior_validateIO(r, offset, size, Len(data), TRUE) # UDS_SUCCESS
  THEN Written(bior_validateIO(r, offset, size, Len(data), TRUE), r)
  ELSE fior_write(r, r.start + offset, data, size, io)

(* Just as much is read from the parent as the region has.                 *)
bior_read(r, offset, size, length) ==
  LET valid == bior_validateIO(r, offset, size, IF length = NULL THEN size ELSE length, FALSE)
  IN  IF valid # UDS_SUCCESS THEN Read(valid, r, <<>>)
      ELSE fior_read(r, r.start + offset, Smaller(r.end - r.start, offset + size) - offset, NULL)

(* Zeros, a buffer at a time.                                              *)
RECURSIVE clearFrom(_, _)
clearFrom(r, offset) ==
  LET Rest(w) == IF w.result # UDS_SUCCESS THEN w
                 ELSE clearFrom(w.region, offset + r.bestSize)
  IN  IF offset >= r.end THEN Written(UDS_SUCCESS, r)
      ELSE Then(fior_write(r, offset, Zeros(Smaller(r.end - offset, r.bestSize)),
                           r.bestSize, "ok"), Rest)

bior_clear(r) == clearFrom(r, r.start)

bior_getDataSize(r) == Larger(Smaller(Len(r.file), r.end) - r.start, 0)

(* A region over a buffer: writing past the end pads and grows it, writing *)
(* before the end overwrites.                                              *)
bufior_write(r, offset, data) ==
  LET current == r.position + r.buf.end
      needed == offset - current + Len(data)
      n == needed - availableSpace(r.buf) + r.buf.length + r.buf.length - 1
      grown == IF needed > availableSpace(r.buf)
               THEN growBuffer(r.buf, (n \div r.buf.length) * r.buf.length)
               ELSE Outcome(UDS_SUCCESS, r.buf)
      Padded(g) == IF g.result # UDS_SUCCESS \/ offset = current THEN g
                   ELSE zeroBytes(g.buffer, offset - current)
      Stored(p) == IF p.result # UDS_SUCCESS \/ data = <<>> THEN p ELSE putBytes(p.buffer, data)
      Restored(s) == IF s.result # UDS_SUCCESS \/ current <= offset + Len(data) THEN s
                     ELSE resetBufferEnd(s.buffer, current - r.position)
      Done(s) == Written(s.result, [r EXCEPT !.buf = s.buffer])
  IN  IF offset >= current THEN Then(Then(Then(grown, Padded), Stored), Done)
      ELSE IF offset < r.position THEN Written("UDS_BUFFER_ERROR", r)
      ELSE Then(Then(Then(resetBufferEnd(r.buf, offset - r.position), Stored), Restored), Done)

(* Reading moves the buffer's start to the offset and then past the bytes. *)
bufior_read(r, offset, size, length) ==
  LET current == r.position + r.buf.start
      moved == IF offset < current THEN rewindBuffer(r.buf, current - offset)
               ELSE skipForward(r.buf, offset - current)
      len == IF length = NULL THEN size ELSE length
      Got(g) == Read(IF Len(g.bytes) >= len THEN UDS_SUCCESS
                     ELSE IF g.bytes = <<>> THEN "UDS_END_OF_FILE" ELSE "UDS_SHORT_READ",
                     [r EXCEPT !.buf = g.buffer], g.bytes)
      Take(m) == IF m.result # UDS_SUCCESS THEN Read(m.result, r, <<>>)
                 ELSE Got(getBytesFromBuffer(m.buffer, Smaller(size, contentLength(m.buffer))))
  IN  Then(moved, Take)

writeToRegion(r, offset, data, size, io) ==
  CASE r.kind = "file" -> fior_write(r, offset, data, size, io)
    [] r.kind = "block" -> bior_write(r, offset, data, size, io)
    [] OTHER -> bufior_write(r, offset, data)

readFromRegion(r, offset, size, length) ==
  CASE r.kind = "file" -> fior_read(r, offset, size, length)
    [] r.kind = "block" -> bior_read(r, offset, size, length)
    [] OTHER -> bufior_read(r, offset, size, length)

clearRegion(r) ==
  CASE r.kind = "file" -> Written(UDS_SUCCESS, [r EXCEPT !.file = setOpenFileSize(@, 0)])
    [] r.kind = "block" -> bior_clear(r)
    [] OTHER -> Written(UDS_SUCCESS, [r EXCEPT !.buf = resetBufferEnd(@, 0).buffer])

getRegionDataSize(r) ==
  CASE r.kind = "file" -> Len(r.file)
    [] r.kind = "block" -> bior_getDataSize(r)
    [] OTHER -> r.position + r.buf.end

\* a file or a buffer has no limit; nothing in these instances lies beyond 1000
getRegionLimit(r) == IF r.kind = "block" THEN r.end - r.start ELSE 1000
-----------------------------------------------------------------------------
(* The buffered writer.                                                    *)

makeBufferedWriter(r, bufSize) ==
  [pos |-> 0, size |-> IF bufSize = 0 THEN r.bestSize ELSE bufSize, buf |-> <<>>,
   err |-> UDS_SUCCESS, used |-> FALSE]

(* A write or flush in progress: the writer, its region, the result so     *)
(* far, and the fault to come: which of its writes fails, and how.         *)
Fault(z) == IF z.failAt = 1 THEN z.how ELSE "ok"


(* A part of a buffer is written as it is, and the position moves to the   *)
(* next whole buffer.                                                      *)
flushBufferedWriter(z) ==
  LET Done(w) ==
        IF w.result # UDS_SUCCESS
        THEN [z EXCEPT !.region = w.region, !.result = w.result, !.writer.err = w.result]
        ELSE [z EXCEPT !.region = w.region, !.failAt = @ - 1, !.writer.buf = <<>>,
                       !.writer.pos = @ + z.writer.size]
  IN  IF z.writer.err # UDS_SUCCESS THEN [z EXCEPT !.result = z.writer.err]
      ELSE IF z.writer.buf = <<>> THEN z
      ELSE Then(writeToRegion(z.region, z.writer.pos, z.writer.buf, z.writer.size, Fault(z)),
                Done)

(* Whole buffers go straight to the region when nothing is buffered.  The  *)
(* result of such a write is kept in the writer only: the call itself does *)
(* not report it.                                                          *)
RECURSIVE writeLoop(_, _)
writeLoop(z, data) ==
  LET size == z.writer.size
      n == (Len(data) \div size) * size
      chunk == Smaller(Len(data), size - Len(z.writer.buf))
      Direct(w) ==
        IF w.result # UDS_SUCCESS
        THEN [z EXCEPT !.region = w.region, !.writer.err = w.result]
        ELSE writeLoop([z EXCEPT !.region = w.region, !.failAt = @ - 1, !.writer.pos = @ + n],
                       SubSeq(data, n + 1, Len(data)))
      Copied(c) == writeLoop(IF Len(c.writer.buf) = size THEN flushBufferedWriter(c) ELSE c,
                             SubSeq(data, chunk + 1, Len(data)))
  IN  IF data = <<>> \/ z.result # UDS_SUCCESS THEN z
      ELSE IF Len(data) >= size /\ z.writer.buf = <<>>
      THEN Then(writeToRegion(z.region, z.writer.pos, SubSeq(data, 1, n), n, Fault(z)), Direct)
      ELSE Then([z EXCEPT !.writer.buf = @ \o SubSeq(data, 1, chunk)], Copied)

writeToBufferedWriter(z, data) ==
  IF z.writer.err # UDS_SUCCESS THEN [z EXCEPT !.result = z.writer.err]
  ELSE [writeLoop(z, data) EXCEPT !.writer.used = TRUE]
-----------------------------------------------------------------------------
(* The buffered reader: offset is where the bytes after the buffer are.    *)

makeBufferedReader(r) ==
  [bufsize |-> r.bestSize, offset |-> 0, buffer |-> Zeros(r.bestSize), extent |-> 0,
   bufpos |-> 0, eof |-> FALSE]

currentPosition(rd) == rd.offset - (rd.extent - rd.bufpos)

bufferPosition(rd) == rd.offset - rd.extent

\* the buffer after a read of data into it
Filled(rd, data) ==
  [i \in 1 .. rd.bufsize |-> IF i <= Len(data) THEN data[i] ELSE rd.buffer[i]]

(* A read in progress: reader, region, the bytes so far, how many more.    *)
RECURSIVE readLoop(_, _)
readLoop(z, counted) ==
  LET rd == z.reader
      len == (z.length \div rd.bufsize) * rd.bufsize
      Direct(g) ==
        IF g.result # UDS_SUCCESS THEN [z EXCEPT !.region = g.region, !.result = g.result]
        ELSE readLoop([z EXCEPT !.region = g.region, !.data = @ \o g.data,
                                !.length = @ - Len(g.data),
                                !.reader.offset = @ + Len(g.data),
                                !.reader.eof = @ \/ Len(g.data) < len,
                                !.result = IF Len(g.data) < len THEN "UDS_END_OF_FILE" ELSE @],
                      counted)
      Buffered(g) ==
        IF g.result # UDS_SUCCESS THEN [z EXCEPT !.region = g.region, !.result = g.result]
        ELSE readLoop([z EXCEPT
               !.region = g.region,
               !.data = @ \o SubSeq(g.data, 1, Smaller(Len(g.data), z.length)),
               !.length = @ - Smaller(Len(g.data), z.length),
               !.reader = [rd EXCEPT !.buffer = Filled(rd, g.data),
                                     !.offset = @ + Len(g.data), !.extent = Len(g.data),
                                     !.bufpos = Smaller(Len(g.data), z.length),
                                     !.eof = @ \/ Len(g.data) < rd.bufsize],
               !.result = IF Len(g.data) < rd.bufsize THEN "UDS_END_OF_FILE" ELSE @], counted)
  IN  IF z.length = 0 \/ z.result # UDS_SUCCESS THEN z
      ELSE IF z.length >= rd.bufsize
      THEN Then(readFromRegion(z.region, rd.offset, len, IF counted THEN 0 ELSE rd.bufsize),
                Direct)
      ELSE Then(readFromRegion(z.region, rd.offset, rd.bufsize, 0), Buffered)

(* What is left in the buffer comes first.  Running out of data is an      *)
(* error only when the caller did not ask for a count.                     *)
readBufferedData(rd, r, length, counted) ==
  LET n == Smaller(length, rd.extent - rd.bufpos)
      first == [reader |-> [rd EXCEPT !.bufpos = @ + n], region |-> r,
                data |-> SubSeq(rd.buffer, rd.bufpos + 1, rd.bufpos + n),
                length |-> length - n,
                result |-> IF rd.eof THEN "UDS_END_OF_FILE" ELSE UDS_SUCCESS]
      Short(z) == IF z.result = "UDS_END_OF_FILE" /\ z.data # <<>>
                  THEN [z EXCEPT !.result = "UDS_SHORT_READ"] ELSE z
      Whole(z) == IF \/ z.result = "UDS_SHORT_READ" /\ z.length = 0
                     \/ counted /\ z.result \in {"UDS_SHORT_READ", "UDS_END_OF_FILE"}
                  THEN [z EXCEPT !.result = UDS_SUCCESS] ELSE z
  IN  Then(Then(readLoop(first, counted), Short), Whole)

(* Move within the buffer when the position is in it, else empty or refill *)
(* the buffer.                                                             *)
repositionReader(rd, r, position) ==
  LET p == position % rd.bufsize
      Refilled(g) ==
        IF g.result # UDS_SUCCESS
        THEN [reader |-> rd, region |-> g.region, result |-> g.result]
        ELSE [reader |-> [rd EXCEPT !.buffer = Filled(rd, g.data), !.extent = Len(g.data),
                                    !.bufpos = p, !.offset = position + Len(g.data) - p,
                                    !.eof = Len(g.data) < rd.bufsize],
              region |-> g.region, result |-> UDS_SUCCESS]
  IN  IF position > rd.offset /\ position > getRegionLimit(r)
      THEN [reader |-> rd, region |-> r, result |-> "UDS_OUT_OF_RANGE"]
      ELSE IF position <= rd.offset /\ position > bufferPosition(rd)
      THEN [reader |-> [rd EXCEPT !.bufpos = @ + (position - currentPosition(rd))],
            region |-> r, result |-> UDS_SUCCESS]
      ELSE IF p = 0
      THEN [reader |-> [rd EXCEPT !.bufpos = 0, !.extent = 0, !.offset = position,
                                  !.eof = FALSE],
            region |-> r, result |-> UDS_SUCCESS]
      ELSE Then(readFromRegion(r, position - p, rd.bufsize, 0), Refilled)

(* Compare with a value, always through the buffer.  When it fails past    *)
(* the first buffer the reader goes back to where that buffer ended.       *)
RECURSIVE verifyLoop(_, _, _, _)
verifyLoop(rd, r, value, origOffset) ==
  LET Back(why, at, in) == [repositionReader(at, in, origOffset) EXCEPT !.result = why]
      Compared(g) ==
        LET n == Smaller(Len(g.data), Len(value))
            next == [rd EXCEPT !.offset = @ + Len(g.data), !.buffer = Filled(rd, g.data),
                               !.extent = Len(g.data), !.bufpos = 0,
                               !.eof = @ \/ Len(g.data) < rd.bufsize]
        IN  IF g.result # UDS_SUCCESS THEN Back(g.result, rd, g.region)
            ELSE IF g.data = <<>> THEN Back("UDS_CORRUPT_FILE", rd, g.region)
            ELSE IF SubSeq(g.data, 1, n) # SubSeq(value, 1, n)
            THEN Back("UDS_CORRUPT_FILE", next, g.region)
            ELSE verifyLoop([next EXCEPT !.bufpos = n], g.region,
                            SubSeq(value, n + 1, Len(value)), origOffset)
  IN  IF value = <<>> THEN [reader |-> rd, region |-> r, result |-> UDS_SUCCESS]
      ELSE IF rd.eof THEN Back("UDS_CORRUPT_FILE", rd, r)
      ELSE Then(readFromRegion(r, rd.offset, rd.bufsize, 0), Compared)

verifyBufferedData(rd, r, value) ==
  LET n == Smaller(Len(value), rd.extent - rd.bufpos)
  IN  IF SubSeq(rd.buffer, rd.bufpos + 1, rd.bufpos + n) # SubSeq(value, 1, n)
      THEN [reader |-> rd, region |-> r, result |-> "UDS_CORRUPT_FILE"]
      ELSE verifyLoop([rd EXCEPT !.bufpos = @ + n], r, SubSeq(value, n + 1, Len(value)),
                      rd.offset)
-----------------------------------------------------------------------------
NoRead == [op |-> "none", from |-> 0, asked |-> 0, counted |-> TRUE, data |-> <<>>]

(* The region before it is opened; a file that exists has its own bytes.   *)
Closed(s) ==
  [kind |-> s.kind, blockSize |-> IF s.kind = "buffered" THEN 1 ELSE s.blockSize,
   bestSize |-> s.bestSize, start |-> s.start, end |-> s.end,
   reading |-> s.reading, writing |-> s.writing,
   file |-> [i \in 1 .. s.fileSize |-> -i], buf |-> makeBuffer(s.bestSize), position |-> 0]

Init ==
  /\ scenario \in Scenarios
  /\ phase = IF scenario.kind = "memory" THEN "buffer" ELSE "closed"
  /\ region = Closed(scenario)
  /\ writer = makeBufferedWriter(Closed(scenario), 0)
  /\ reader = makeBufferedReader(Closed(scenario))
  /\ answer = UDS_SUCCESS
  /\ image = [p \in {} |-> 0]
  /\ place = 0
  /\ last = NoRead
  /\ buffer = makeBuffer(scenario.bestSize)
  /\ items = [past |-> <<>>, rest |-> <<>>]

(* Opening the file, setting its size and opening a range of its blocks.   *)
openBlockRegion ==
  /\ phase = "closed"
  /\ LET r == [region EXCEPT !.file =
                 IF scenario.create THEN setFileRegionLimit(<<>>, scenario.end) ELSE @]
         bad == r.kind = "block" /\ (\/ r.start > r.end \/ r.start % r.blockSize # 0
                                     \/ r.end % r.blockSize # 0)
     IN  /\ region' = r
         /\ phase' = IF bad THEN "refused" ELSE "write"
         /\ answer' = IF bad THEN "UDS_INVALID_ARGUMENT" ELSE UDS_SUCCESS
         /\ writer' = makeBufferedWriter(r, scenario.writerSize)
  /\ UNCHANGED <<scenario, reader, image, place, last, buffer, items>>

\* An old region is cleared before it is written.
ClearRegion ==
  /\ phase = "write" /\ ~writer.used /\ scenario.clears
  /\ LET c == clearRegion(region)
     IN  /\ c.region # region
         /\ region' = c.region /\ answer' = c.result
  /\ image' = [p \in 0 .. getRegionDataSize(region') - 1 |-> 0]
  /\ UNCHANGED <<scenario, phase, writer, reader, place, last, buffer, items>>

Faults == IF scenario.faults /\ writer.err = UDS_SUCCESS
          THEN {<<0, "ok">>} \cup {1, 2} \X {"lost", "torn"} ELSE {<<0, "ok">>}

Stream(from, len) == [i \in 1 .. len |-> from + i]

Working(io) ==
  [writer |-> writer, region |-> region, result |-> UDS_SUCCESS, failAt |-> io[1], how |-> io[2]]

WriteData(len) ==
  /\ phase = "write" /\ place + len <= scenario.streamSize
  /\ \E io \in Faults :
       LET z == writeToBufferedWriter(Working(io), Stream(place, len))
       IN  writer' = z.writer /\ region' = z.region /\ answer' = z.result
  /\ image' = [p \in DOMAIN image \cup place .. place + len - 1 |->
                 IF p \in place .. place + len - 1 THEN p + 1 ELSE image[p]]
  /\ place' = place + len
  /\ last' = NoRead
  /\ UNCHANGED <<scenario, phase, reader, buffer, items>>

\* After a flush the caller goes on at the next whole buffer.
FlushData ==
  /\ phase = "write" /\ writer.used
  /\ \E io \in Faults :
       LET z == flushBufferedWriter(Working(io))
       IN  writer' = z.writer /\ region' = z.region /\ answer' = z.result
  /\ place' = IF place % writer.size = 0 THEN place
              ELSE place + writer.size - (place % writer.size)
  /\ last' = [NoRead EXCEPT !.op = "flush"]
  /\ UNCHANGED <<scenario, phase, reader, image, buffer, items>>

(* The writer is freed, which does not flush it, and a reader made.        *)
StartReading ==
  /\ phase = "write"
  /\ phase' = "read"
  /\ reader' = makeBufferedReader(region)
  /\ place' = 0 /\ last' = NoRead
  /\ UNCHANGED <<scenario, region, writer, answer, image, buffer, items>>

ReadData(len, counted) ==
  /\ phase = "read"
  /\ LET z == readBufferedData(reader, region, len, counted)
     IN  /\ reader' = z.reader /\ region' = z.region /\ answer' = z.result
         /\ place' = place + Len(z.data)
         /\ last' = [op |-> "read", from |-> place, asked |-> len, counted |-> counted, data |-> z.data]
  /\ UNCHANGED <<scenario, phase, writer, image, buffer, items>>

SetPosition(position) ==
  /\ phase = "read"
  /\ LET z == repositionReader(reader, region, position)
     IN  /\ reader' = z.reader /\ region' = z.region /\ answer' = z.result
         /\ place' = IF z.result = UDS_SUCCESS THEN position ELSE place
  /\ last' = NoRead
  /\ UNCHANGED <<scenario, phase, writer, image, buffer, items>>

(* The bytes of the region, whatever it is a region of.                    *)
Contents(r) ==
  CASE r.kind = "file" -> r.file
    [] r.kind = "block" -> SubSeq(r.file, r.start + 1, Smaller(r.end, Len(r.file)))
    [] OTHER -> SubSeq(r.buf.data, 1, r.buf.end)

(* Verify a value that is there, or one that is wrong in its last byte.    *)
Verify(len, wrong) ==
  /\ phase = "read"
  /\ scenario.verifyAnywhere \/ reader.bufpos = reader.extent \/ ~wrong
  /\ place + len <= Len(Contents(region))
  /\ LET right == SubSeq(Contents(region), place + 1, place + len)
         z == verifyBufferedData(reader, region, IF wrong THEN [right EXCEPT ![len] = -100]
                                                 ELSE right)
     IN  /\ reader' = z.reader /\ region' = z.region /\ answer' = z.result
         /\ place' = IF wrong THEN place ELSE place + len
  /\ last' = NoRead
  /\ UNCHANGED <<scenario, phase, writer, image, buffer, items>>
-----------------------------------------------------------------------------
(* A buffer on its own, used as a queue of values.                         *)

Item(codec, values) == [codec |-> codec, values |-> values]

Width(item) == item.codec.width * Len(item.values)

PutItem(item) ==
  /\ phase = "buffer"
  /\ LET z == putIntoBuffer(buffer, item.codec, item.values)
     IN  /\ buffer' = z.buffer /\ answer' = z.result
         /\ items' = [past |-> IF z.buffer.start = 0 THEN <<>> ELSE items.past,
                      rest |-> IF z.result = UDS_SUCCESS THEN Append(items.rest, item)
                               ELSE items.rest]
  /\ UNCHANGED <<scenario, phase, region, writer, reader, image, place, last>>

\* The next value is read, or skipped.
GetItem(skip) ==
  /\ phase = "buffer" /\ items.rest # <<>>
  /\ LET item == Head(items.rest)
         z == IF skip THEN skipForward(buffer, Width(item))
              ELSE getFromBuffer(buffer, item.codec, Len(item.values))
     IN  /\ buffer' = z.buffer
         /\ answer' = IF skip \/ z.values = item.values THEN z.result ELSE "wrong"
         /\ items' = [past |-> Append(items.past, item), rest |-> Tail(items.rest)]
  /\ UNCHANGED <<scenario, phase, region, writer, reader, image, place, last>>

\* The last value read is put back.
RewindItem ==
  /\ phase = "buffer" /\ items.past # <<>>
  /\ LET item == items.past[Len(items.past)]
         z == rewindBuffer(buffer, Width(item))
     IN  /\ buffer' = z.buffer /\ answer' = z.result
         /\ items' = [past |-> SubSeq(items.past, 1, Len(items.past) - 1),
                      rest |-> <<item>> \o items.rest]
  /\ UNCHANGED <<scenario, phase, region, writer, reader, image, place, last>>

\* The last value put is cut off again.
TruncateBuffer ==
  /\ phase = "buffer" /\ items.rest # <<>>
  /\ LET z == resetBufferEnd(buffer, buffer.end - Width(items.rest[Len(items.rest)]))
     IN  buffer' = z.buffer /\ answer' = z.result
  /\ items' = [items EXCEPT !.rest = SubSeq(@, 1, Len(@) - 1)]
  /\ UNCHANGED <<scenario, phase, region, writer, reader, image, place, last>>

GrowBuffer ==
  /\ phase = "buffer" /\ buffer.length = scenario.bestSize
  /\ LET z == growBuffer(buffer, buffer.length + 2)
     IN  buffer' = z.buffer /\ answer' = z.result
  /\ UNCHANGED <<scenario, phase, region, writer, reader, image, place, last, items>>

Next ==
  \/ openBlockRegion \/ ClearRegion \/ FlushData \/ StartReading
  \/ (\E len \in scenario.lengths : WriteData(len))
  \/ (\E len \in scenario.lengths, counted \in BOOLEAN : ReadData(len, counted))
  \/ (\E position \in scenario.positions : SetPosition(position))
  \/ (\E len \in scenario.verifies, wrong \in BOOLEAN : Verify(len, wrong))
  \/ (\E item \in scenario.items : PutItem(item))
  \/ (\E skip \in BOOLEAN : GetItem(skip))
  \/ RewindItem \/ TruncateBuffer \/ GrowBuffer

Spec == Init /\ [][Next]_vars
-----------------------------------------------------------------------------
(* Correctness.                                                            *)

(* A flush that answered UDS_SUCCESS left every byte that was ever handed  *)
(* to the writer in its place in the region, although the write that lost  *)
(* one may itself have answered UDS_SUCCESS; and no write, in a range of a *)
(* file's blocks, touched the file outside the range.                      *)
FlushedIsStored ==
  /\ last.op = "flush" /\ answer = UDS_SUCCESS =>
       \A p \in DOMAIN image : /\ p < getRegionDataSize(region)
                              /\ Contents(region)[p + 1] = image[p]
  /\ region.kind = "block" /\ ~scenario.create =>
       \A i \in 1 .. scenario.fileSize :
         i <= region.start \/ i > region.end => region.file[i] = -i

(* A read returns the bytes of the region from where the caller is, and    *)
(* moves the caller past them; it answers UDS_SUCCESS without a count just *)
(* when the region had all that was asked for.  The reader keeps the       *)
(* invariants stated at its structure.                                     *)
ReadsAreExact ==
  phase = "read" =>
    /\ last.data = SubSeq(Contents(region), last.from + 1, last.from + Len(last.data))
    /\ last.op = "read" =>
         LET enough == last.from + last.asked <= getRegionDataSize(region)
         IN  IF last.counted THEN enough => Len(last.data) = last.asked
             ELSE (answer = UDS_SUCCESS) = enough
    /\ currentPosition(reader) = place
    /\ reader.eof \/ reader.offset % reader.bufsize = 0
    /\ reader.bufpos <= reader.extent /\ reader.extent <= reader.bufsize

RECURSIVE Offsets(_, _)
Offsets(queue, from) ==
  IF queue = <<>> THEN <<from>> ELSE <<from>> \o Offsets(Tail(queue), from + Width(Head(queue)))

(* A buffer is a queue: what was put in it, in any mixture of widths and   *)
(* orders, lies between start and end in the order it was put, what was    *)
(* taken lies before start until the buffer is compacted, and every value  *)
(* is decoded to the number that was put.                                  *)
BufferIsAQueue ==
  phase = "buffer" =>
    /\ answer # "wrong"
    /\ LET all == items.past \o items.rest
           at == Offsets(all, 0)
       IN  /\ at[Len(items.past) + 1] = buffer.start
           /\ at[Len(all) + 1] = buffer.end
           /\ \A k \in DOMAIN all :
                Flatten([i \in DOMAIN all[k].values |-> store(all[k].codec, all[k].values[i])])
                = SubSeq(buffer.data, at[k] + 1, at[k + 1])
=============================================================================
