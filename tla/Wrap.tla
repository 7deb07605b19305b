-------------------------------- MODULE Wrap --------------------------------
(***************************************************************************)
(* The streaming writer of a tarzan archive: `wrap_with` of wrap.rs.       *)
(*                                                                         *)
(* A tar stream is cut into *regions*, one per indexed member (everything  *)
(* from the end of the preceding member to the end of this one's padded    *)
(* data).  A region shorter than the chunk size is collected in a *group*  *)
(* that is compressed as one shared zstd frame; a longer one is streamed   *)
(* and cut into frames of its own.  Raw bytes live in a sliding window     *)
(* between being read and being compressed.                                *)
(*                                                                         *)
(* A byte of the tar stream is identified with its offset, so a frame is   *)
(* an interval of offsets and the digest of a content is the set of the    *)
(* offsets that were hashed.  Compressed sizes are nondeterministic.       *)
(***************************************************************************)
EXTENDS Integers, Sequences

CONSTANTS
    Block,        \* tar block (and header) size: 512 in the code
    ChunkSize,    \* opts.chunk_size
    Scratch,      \* most bytes one read may return: the 64 KiB scratch buffer
    IdentitySize, \* bytes of the identity frame: 14 in the code
    InputLens,    \* possible lengths of the input stream (the bound of a run)
    GlobalSizes,  \* sizes of a PAX global header with its data
    Headers,      \* what a parsed member may look like: see HeaderRecords
    FrameSizes,   \* compressed sizes of a data frame
    TocSizes,     \* sizes of a TOC: its JSON text, and its frame's payload
    MaxPayload,   \* largest payload of a skippable frame: u32::MAX
    ComputeSha256 \* opts.compute_sha256

ASSUME BlockAssumption == Block \in Nat \ {0}
ASSUME ChunkSizeAssumption == ChunkSize \in Nat \ {0}
ASSUME ScratchAssumption == Scratch \in Nat /\ Block <= Scratch
ASSUME IdentityAssumption == IdentitySize \in Nat
ASSUME InputAssumption == InputLens \subseteq Nat
ASSUME GlobalAssumption == GlobalSizes \subseteq Nat \ {0}

Kinds == {"File", "Sparse", "Other"}

(* What the parser tells of a member: `lead` bytes of extension headers come
   before its header, `map` bytes of a sparse map after it, and its data has
   `size` bytes in the stream. *)
HeaderRecords == {h \in [lead: Nat, kind: Kinds, map: Nat, size: Nat] :
                    h.kind # "Sparse" => h.map = 0}

ASSUME HeadersAssumption == Headers \subseteq HeaderRecords
ASSUME FrameAssumption == FrameSizes \subseteq Nat \ {0}
ASSUME TocAssumption == TocSizes \subseteq [json: Nat, payload: Nat] /\ MaxPayload \in Nat
ASSUME ShaAssumption == ComputeSha256 \in BOOLEAN

VARIABLES
    inputLen,       \* length of the input stream; the reader sees it as EOF
    pc,             \* where wrap_with is
    winBase,        \* Window.base
    winEnd,         \* Window.end(): also the number of bytes read so far
    parseStart,     \* parse_start; marker_start once the loop is left
    prevEnd,        \* prev_indexed_entry_end (= entry_end while streaming)
    nextChunkStart, \* next_chunk_start
    group,          \* members waiting for the shared frame
    groupSize,      \* group_size
    members,        \* the TOC entries, in tar order
    dataLeft,       \* data_left of the member being streamed
    content,        \* offsets the streaming hasher has consumed
    markerZero,     \* are the two blocks at marker_start all zero?
    pos,            \* pos: what the writer believes it has written
    frames,         \* the data frames that are in the output
    reported,       \* arguments of the on_member calls so far
    footer          \* the footer frame, once it is in the output

inVars == <<inputLen, winEnd>>
outVars == <<pos, frames, winBase, nextChunkStart, reported>>
groupVars == <<group, groupSize>>
streamVars == <<dataLeft, content>>
vars == <<inputLen, pc, winBase, winEnd, parseStart, prevEnd, nextChunkStart,
          group, groupSize, members, dataLeft, content, markerZero, pos,
          frames, reported, footer>>

NoDigest == {-1}
NoFooter == [tocOffset |-> -1, tocFrameSize |-> -1, tocJson |-> -1]
Padded(size) == ((size + Block - 1) \div Block) * Block

-----------------------------------------------------------------------------
(* Where a member with header h, parsed at parse_start, lies in the stream. *)

TarOffset(h) == parseStart + h.lead
DataStart(h) == TarOffset(h) + Block + h.map
EntryEnd(h) == DataStart(h) + Padded(h.size)

(* Variant: globals before the member are not counted in its region. *)
RegionWithoutGlobals(h) == EntryEnd(h) - parseStart

RegionSize(h) == EntryEnd(h) - prevEnd

(* dataStart and entryEnd are history: the TOC does not carry them. *)
TocMember(h, digest) ==
    [kind |-> h.kind, tarOffset |-> TarOffset(h), size |-> h.size,
     digest |-> digest, chunks |-> <<>>,
     dataStart |-> DataStart(h), entryEnd |-> EntryEnd(h)]

(* capture_to: the window grows to `target`; a stream that ends first makes
   the wrap fail (EntryRefused, StreamEnds). *)
CanCapture(target) == target <= inputLen
Captured(target) == IF winEnd < target THEN target ELSE winEnd
-----------------------------------------------------------------------------
(* The physical output. *)

(* Where the next byte of the output goes, whatever `pos` says. *)
PhysicalEnd == IF frames = <<>> THEN IdentitySize
               ELSE frames[Len(frames)].at + frames[Len(frames)].size

(* Variant: pos advances by the uncompressed size. *)
PosByRawSize(start, end, z) ==
    /\ frames' = Append(frames, [at |-> PhysicalEnd, size |-> z,
                                 start |-> start, end |-> end])
    /\ pos' = pos + (end - start)

(* compress_frame: bytes [start, end) of the window become one frame of z
   bytes.  try_slice refuses a range that the window does not hold; were that
   ever to happen, no step would be possible and TLC would report it. *)
CompressFrame(start, end, z) ==
    /\ winBase <= start /\ end <= winEnd'
    /\ frames' = Append(frames, [at |-> PhysicalEnd, size |-> z,
                                 start |-> start, end |-> end])
    /\ pos' = pos + z

Chunk(z, size, offset) ==
    [compressedOffset |-> pos, compressedSize |-> z,
     uncompressedSize |-> size, frameOffset |-> offset]

WithChunk(m, c) == [m EXCEPT !.chunks = Append(@, c)]

DrainTo(offset) == winBase' = offset /\ nextChunkStart' = offset

(* Gives each member of group g its chunk in a shared frame of z bytes. The
   entry's `offset` is the running sum that flush_group's loop computes. *)
WithGroupChunks(ms, g, z) ==
    [i \in DOMAIN ms |->
        IF \E k \in DOMAIN g : g[k].idx = i
        THEN LET e == g[CHOOSE k \in DOMAIN g : g[k].idx = i]
             IN  WithChunk(ms[i], Chunk(z, e.region, e.offset))
        ELSE ms[i]]

(* flush_group on a group that is not empty. *)
Flush(ms, g, size) == \E z \in FrameSizes :
    /\ CompressFrame(nextChunkStart, nextChunkStart + size, z)
    /\ members' = WithGroupChunks(ms, g, z)
    /\ DrainTo(nextChunkStart + size)
    /\ reported' = reported \o [k \in DOMAIN g |-> g[k].idx]

(* Variant: the group is flushed but not cleared. *)
FlushKeepsGroup(ms) ==
    /\ \/ group = <<>> /\ members' = ms /\ UNCHANGED outVars
       \/ group # <<>> /\ Flush(ms, group, groupSize)
    /\ group' = group
    /\ groupSize' = groupSize

(* Variant: the group is left as it is. *)
FlushForgotten(ms) == members' = ms /\ UNCHANGED <<outVars, groupVars>>

(* flush_group on the current group, whatever it holds. *)
FlushGroup(ms) ==
    /\ \/ group = <<>> /\ members' = ms /\ UNCHANGED outVars
       \/ group # <<>> /\ Flush(ms, group, groupSize)
    /\ group' = <<>>
    /\ groupSize' = 0
-----------------------------------------------------------------------------
Init ==
    /\ inputLen \in InputLens
    /\ pc = "parse"
    /\ winBase = 0 /\ winEnd = 0
    /\ parseStart = 0 /\ prevEnd = 0 /\ nextChunkStart = 0
    /\ group = <<>> /\ groupSize = 0
    /\ members = <<>>
    /\ dataLeft = 0 /\ content = {}
    /\ markerZero = FALSE
    /\ pos = IdentitySize
    /\ frames = <<>>
    /\ reported = <<>>
    /\ footer = NoFooter

(* ParsedItem::Global: only parse_start moves, so that the header joins the
   region of the next indexed member. *)
ParseGlobal == \E g \in GlobalSizes :
    /\ pc = "parse"
    /\ CanCapture(parseStart + g)
    /\ winEnd' = Captured(parseStart + g)
    /\ parseStart' = parseStart + g
    /\ UNCHANGED <<inputLen, pc, prevEnd, groupVars, members, streamVars,
                   markerZero, outVars, footer>>

(* Every member advances parse_start and prev_indexed_entry_end alike. *)
ParseMember(h) ==
    /\ pc = "parse"
    /\ parseStart' = EntryEnd(h)
    /\ prevEnd' = EntryEnd(h)
    /\ UNCHANGED <<inputLen, markerZero, footer>>

(* The member whose region is below the chunk size: captured whole, hashed
   from the window at tar_offset + 512, added to the group. *)

(* Variant: the content is taken to follow the first header block. *)
DigestAfterFirstBlock(h) ==
    IF h.kind = "File" /\ ComputeSha256
    THEN parseStart + Block .. parseStart + Block + h.size - 1
    ELSE NoDigest

GroupDigest(h) == IF h.kind = "File" /\ ComputeSha256
                  THEN TarOffset(h) + Block .. TarOffset(h) + Block + h.size - 1
                  ELSE NoDigest

(* Variant: every member is taken to start its shared frame. *)
EntryAtFrameStart(h, offset) ==
    [idx |-> Len(members) + 1, region |-> RegionSize(h), offset |-> 0]

GroupEntry(h, offset) ==
    [idx |-> Len(members) + 1, region |-> RegionSize(h), offset |-> offset]

SmallMember(h) ==
    /\ ParseMember(h)
    /\ RegionSize(h) < ChunkSize
    /\ CanCapture(EntryEnd(h))
    /\ winEnd' = Captured(EntryEnd(h))
    /\ UNCHANGED <<pc, streamVars>>

WithMember(h, digest) == Append(members, TocMember(h, digest))

(* Variant: a group is checked without the member that is about to join. *)
FitsWithoutIt(h) == group = <<>> \/ groupSize < ChunkSize

Fits(h) == group = <<>> \/ groupSize + RegionSize(h) <= ChunkSize

(* add_to_group: the member joins and the group stays open. *)
JoinGroup == \E h \in Headers :
    /\ SmallMember(h)
    /\ Fits(h)
    /\ groupSize + RegionSize(h) < ChunkSize
    /\ members' = WithMember(h, GroupDigest(h))
    /\ group' = Append(group, GroupEntry(h, groupSize))
    /\ groupSize' = groupSize + RegionSize(h)
    /\ UNCHANGED outVars

(* add_to_group: the member fills the group, which is flushed with it. *)
JoinAndFlush == \E h \in Headers :
    /\ SmallMember(h)
    /\ Fits(h)
    /\ groupSize + RegionSize(h) >= ChunkSize
    /\ Flush(WithMember(h, GroupDigest(h)),
             Append(group, GroupEntry(h, groupSize)),
             groupSize + RegionSize(h))
    /\ group' = <<>>
    /\ groupSize' = 0

(* add_to_group: the member does not fit, so the group is flushed without
   it and a new one is opened. *)
FlushThenJoin == \E h \in Headers :
    /\ SmallMember(h)
    /\ ~Fits(h)
    /\ Flush(WithMember(h, GroupDigest(h)), group, groupSize)
    /\ group' = <<GroupEntry(h, 0)>>
    /\ groupSize' = RegionSize(h)
-----------------------------------------------------------------------------
(* A member whose region is at least one chunk: its frames are written while
   it is read.  The group before it is flushed first. *)

Hashed == members[Len(members)].kind = "File" /\ ComputeSha256

BeginLarge == \E h \in Headers :
    /\ ParseMember(h)
    /\ RegionSize(h) >= ChunkSize
    /\ CanCapture(DataStart(h))
    /\ winEnd' = Captured(DataStart(h))
    /\ FlushGroup(WithMember(h, NoDigest))
    /\ pc' = "stream"
    /\ dataLeft' = h.size
    /\ content' = {}

(* Variant: full chunks are only cut once the member has been read. *)
FullChunkAfterData == dataLeft = 0 /\ winEnd - nextChunkStart >= ChunkSize

FullChunk == winEnd - nextChunkStart >= ChunkSize

(* The member being streamed gets frame [nextChunkStart, end). *)
PushFrame(end, z) ==
    /\ CompressFrame(nextChunkStart, end, z)
    /\ DrainTo(end)

StreamChunk(end, z) == Chunk(z, end - nextChunkStart, 0)

(* One turn of push_full_chunks, which runs until no full chunk is left
   before anything else is read. *)
PushFullChunk == \E z \in FrameSizes :
    /\ pc = "stream"
    /\ FullChunk
    /\ UNCHANGED winEnd
    /\ PushFrame(nextChunkStart + ChunkSize, z)
    /\ members' = [members EXCEPT ![Len(members)] =
                     WithChunk(@, StreamChunk(nextChunkStart + ChunkSize, z))]
    /\ UNCHANGED <<inputLen, pc, parseStart, prevEnd, groupVars, streamVars,
                   markerZero, reported, footer>>

(* Variant: a read asks for a whole scratch buffer. *)
ReadPastData == \E n \in 1 .. Scratch :
    /\ pc = "stream"
    /\ ~FullChunk
    /\ dataLeft > 0
    /\ winEnd + n <= inputLen
    /\ winEnd' = winEnd + n
    /\ dataLeft' = dataLeft - n
    /\ content' = content \cup (winEnd .. winEnd + n - 1)
    /\ UNCHANGED <<inputLen, pc, parseStart, prevEnd, groupVars, members,
                   markerZero, outVars, footer>>

(* One read of member data, which may be short. *)
ReadData == \E n \in 1 .. Scratch :
    /\ pc = "stream"
    /\ ~FullChunk
    /\ n <= dataLeft
    /\ winEnd + n <= inputLen
    /\ winEnd' = winEnd + n
    /\ dataLeft' = dataLeft - n
    /\ content' = content \cup (winEnd .. winEnd + n - 1)
    /\ UNCHANGED <<inputLen, pc, parseStart, prevEnd, groupVars, members,
                   markerZero, outVars, footer>>

CapturePadding ==
    /\ pc = "stream"
    /\ ~FullChunk
    /\ dataLeft = 0
    /\ winEnd < prevEnd
    /\ CanCapture(prevEnd)
    /\ winEnd' = Captured(prevEnd)
    /\ UNCHANGED <<inputLen, pc, parseStart, prevEnd, groupVars, members,
                   streamVars, markerZero, outVars, footer>>

(* push_frame writes nothing for an empty range. *)
PushRemainder(chunkless) ==
    \/ /\ nextChunkStart = prevEnd
       /\ members' = [members EXCEPT ![Len(members)] = chunkless]
       /\ UNCHANGED <<pos, frames, winBase, nextChunkStart>>
    \/ \E z \in FrameSizes :
       /\ nextChunkStart < prevEnd
       /\ PushFrame(prevEnd, z)
       /\ members' = [members EXCEPT ![Len(members)] =
                        WithChunk(chunkless, StreamChunk(prevEnd, z))]

FinishLarge ==
    /\ pc = "stream"
    /\ ~FullChunk
    /\ dataLeft = 0
    /\ winEnd >= prevEnd
    /\ UNCHANGED winEnd
    /\ PushRemainder([members[Len(members)] EXCEPT
                        !.digest = IF Hashed THEN content ELSE NoDigest])
    /\ reported' = Append(reported, Len(members))
    /\ pc' = "parse"
    /\ content' = {}
    /\ UNCHANGED <<inputLen, parseStart, prevEnd, groupVars, dataLeft,
                   markerZero, footer>>
-----------------------------------------------------------------------------
(* The end of the archive. *)

(* ParsedItem::End.  The parser is external: all that is used of it is that
   it has looked at one or two blocks from marker_start. *)
ParseEnd == \E look \in {Block, 2 * Block} :
    /\ pc = "parse"
    /\ CanCapture(parseStart + look)
    /\ winEnd' = Captured(parseStart + look)
    /\ markerZero' \in BOOLEAN
    /\ pc' = "drain"
    /\ UNCHANGED <<inputLen, parseStart, prevEnd, groupVars, members,
                   streamVars, outVars, footer>>

(* One read of io::copy, which drains the stream into the window. *)
DrainTrailing == \E n \in 1 .. Scratch :
    /\ pc = "drain"
    /\ winEnd + n <= inputLen
    /\ winEnd' = winEnd + n
    /\ UNCHANGED <<inputLen, pc, parseStart, prevEnd, groupVars, members,
                   streamVars, markerZero, outVars, footer>>

(* Variant: one block is enough. *)
MarkerOneBlock == winEnd >= parseStart + Block /\ markerZero

(* validate_end_of_archive *)
MarkerValid == winEnd >= parseStart + 2 * Block /\ markerZero

FlushLast ==
    /\ pc = "drain"
    /\ winEnd = inputLen
    /\ MarkerValid
    /\ UNCHANGED winEnd
    /\ FlushGroup(members)
    /\ pc' = "trailer"
    /\ UNCHANGED <<inputLen, parseStart, prevEnd, streamVars, markerZero,
                   footer>>

(* Variant: the trailing frame starts at the end marker. *)
WriteMarkerOnly == \E z \in FrameSizes :
    /\ pc = "trailer"
    /\ UNCHANGED winEnd
    /\ CompressFrame(parseStart, winEnd, z)
    /\ pc' = "toc"
    /\ UNCHANGED <<inputLen, winBase, parseStart, prevEnd, nextChunkStart,
                   groupVars, members, streamVars, markerZero, reported,
                   footer>>

(* The trailing frame, which holds the end marker at least, belongs to no
   member: its chunk is discarded. *)
WriteTrailer == \E z \in FrameSizes :
    /\ pc = "trailer"
    /\ nextChunkStart < winEnd
    /\ UNCHANGED winEnd
    /\ CompressFrame(nextChunkStart, winEnd, z)
    /\ pc' = "toc"
    /\ UNCHANGED <<inputLen, winBase, parseStart, prevEnd, nextChunkStart,
                   groupVars, members, streamVars, markerZero, reported,
                   footer>>

(* The TOC frame, then the footer that points at it; tocJson is history, the
   size of the text inside the TOC frame.  Only the payload has a limit. *)
WriteToc == \E t \in TocSizes :
    /\ pc = "toc"
    /\ t.payload <= MaxPayload
    /\ footer' = [tocOffset |-> pos, tocFrameSize |-> 8 + t.payload,
                  tocJson |-> t.json]
    /\ pc' = "done"
    /\ UNCHANGED <<inVars, parseStart, prevEnd, groupVars, members,
                   streamVars, markerZero, outVars>>
-----------------------------------------------------------------------------
(* The ways out with an error: what was written stays behind, without a
   footer. *)

GiveUp ==
    /\ pc' = "failed"
    /\ UNCHANGED <<inVars, parseStart, prevEnd, groupVars, members,
                   streamVars, markerZero, outVars, footer>>

(* The parser refuses a header, its sizes contradict each other or overflow,
   or the stream ends inside a header or a small member. *)
EntryRefused == pc = "parse" /\ GiveUp

(* Variant: a read of 0 bytes is tried again. *)
StreamEndIgnored == pc = "stream" /\ winEnd = inputLen /\ UNCHANGED vars

(* read returns 0 with data or padding still to come. *)
StreamEnds ==
    /\ pc = "stream"
    /\ ~FullChunk
    /\ winEnd = inputLen
    /\ winEnd < prevEnd
    /\ GiveUp

MarkerMissing == pc = "drain" /\ winEnd = inputLen /\ ~MarkerValid /\ GiveUp

TocTooLarge ==
    /\ pc = "toc"
    /\ \E t \in TocSizes : t.payload > MaxPayload
    /\ GiveUp

(* The output refuses a write, or the input a read. *)
IoFails == pc \in {"stream", "drain", "trailer", "toc"} /\ GiveUp

Stopped == pc \in {"done", "failed"} /\ UNCHANGED vars

(* The steps the program takes unless its input or output fails. *)
Progress ==
    \/ ParseGlobal \/ JoinGroup \/ JoinAndFlush \/ FlushThenJoin
    \/ BeginLarge \/ PushFullChunk \/ ReadData \/ CapturePadding \/ FinishLarge
    \/ ParseEnd \/ DrainTrailing \/ FlushLast \/ WriteTrailer \/ WriteToc
    \/ EntryRefused \/ StreamEnds \/ MarkerMissing \/ TocTooLarge

Next == Progress \/ IoFails \/ Stopped

Spec == Init /\ [][Next]_vars /\ WF_vars(Progress)
-----------------------------------------------------------------------------
(* Correctness. *)

FrameRecords == [at: Nat, size: Nat, start: Nat, end: Nat]
ChunkRecords == [compressedOffset: Nat, compressedSize: Nat,
                 uncompressedSize: Nat, frameOffset: Nat]
GroupRecords == [idx: Nat, region: Nat, offset: Nat]
MemberRecords == [kind: Kinds, tarOffset: Nat, size: Nat, digest: SUBSET Int,
                  chunks: Seq(ChunkRecords), dataStart: Nat, entryEnd: Nat]

(* Every variable of the writer keeps its type; in particular no offset or
   size is ever negative. *)
TypeOK ==
    /\ inputLen \in Nat
    /\ pc \in {"parse", "stream", "drain", "trailer", "toc", "done", "failed"}
    /\ winBase \in Nat /\ winEnd \in Nat
    /\ parseStart \in Nat /\ prevEnd \in Nat /\ nextChunkStart \in Nat
    /\ group \in Seq(GroupRecords) /\ groupSize \in Nat
    /\ members \in Seq(MemberRecords)
    /\ dataLeft \in Nat /\ content \in SUBSET Int
    /\ markerZero \in BOOLEAN
    /\ pos \in Nat
    /\ frames \in Seq(FrameRecords)
    /\ reported \in Seq(Nat)
    /\ footer \in [tocOffset: Int, tocFrameSize: Int, tocJson: Int]

(* Offset one past the last raw byte that the output encodes. *)
RawEnd == IF frames = <<>> THEN 0 ELSE frames[Len(frames)].end

Tiled == \A i \in DOMAIN frames :
    /\ frames[i].start < frames[i].end
    /\ frames[i].start = IF i = 1 THEN 0 ELSE frames[i - 1].end

(* Decompressing the frames in file order gives the tar stream back, byte
   for byte and with nothing twice, up to the point where the writer stands
   (compress_frame, push_full_chunks, flush_group, the trailing frame). *)
FramesTileTar ==
    /\ Tiled
    /\ pc \in {"parse", "stream", "drain", "trailer"} => RawEnd = nextChunkStart
    /\ pc \in {"toc", "done"} => RawEnd = inputLen

(* `pos`, from which every compressed_offset and the footer's toc_offset are
   taken, is the true length of the output; the frames lie end to end after
   the identity frame. *)
Packed == \A i \in DOMAIN frames :
    frames[i].at = IF i = 1 THEN IdentitySize
                   ELSE frames[i - 1].at + frames[i - 1].size

PosIsOutputLength == pos = PhysicalEnd /\ Packed

(* "kept equal to the window's base": what is not yet in a frame is still in
   the window, and the open group is exactly the part of it that belongs to
   indexed members. *)
WindowHoldsPending ==
    /\ winBase <= nextChunkStart /\ nextChunkStart <= winEnd
    /\ pc \in {"parse", "stream", "drain"} => winBase = nextChunkStart
    /\ pc \in {"parse", "drain"} =>
          /\ nextChunkStart + groupSize = prevEnd
          /\ prevEnd <= parseStart
    /\ pc = "parse" => winEnd = parseStart

(* The frame a chunk points at. *)
FrameOf(c) == CHOOSE f \in DOMAIN frames :
                 /\ frames[f].at = c.compressedOffset
                 /\ frames[f].size = c.compressedSize
RawStart(c) == frames[FrameOf(c)].start + c.frameOffset
RegionStart(i) == IF i = 1 THEN 0 ELSE members[i - 1].entryEnd

(* Each chunk of the TOC names a frame that is in the output and a range
   inside it; the chunks of one member cover its region from its first byte
   on, in order and without a gap, and the whole of it once the member has
   been reported.  Whether the frame is shared or not makes no difference. *)
ChunksTileRegions == \A i \in DOMAIN members :
    LET cs == members[i].chunks IN
    /\ \A k \in DOMAIN cs :
          /\ \E f \in DOMAIN frames :
                /\ frames[f].at = cs[k].compressedOffset
                /\ frames[f].size = cs[k].compressedSize
                /\ frames[f].start + cs[k].frameOffset + cs[k].uncompressedSize
                      <= frames[f].end
          /\ RawStart(cs[k]) = IF k = 1 THEN RegionStart(i)
                               ELSE RawStart(cs[k - 1]) + cs[k - 1].uncompressedSize
    /\ (\E r \in DOMAIN reported : reported[r] = i) =>
          /\ cs # <<>>
          /\ RawStart(cs[Len(cs)]) + cs[Len(cs)].uncompressedSize
                = members[i].entryEnd

(* The digest of a reported file covers exactly its content: no header, no
   padding, no byte of a neighbour; whether it was hashed from the window or
   while it was streamed, and however the reads were cut. *)
DigestsCoverContent == \A r \in DOMAIN reported :
    LET m == members[reported[r]] IN
    m.digest = IF m.kind = "File" /\ ComputeSha256
               THEN m.dataStart .. m.dataStart + m.size - 1
               ELSE NoDigest

(* on_member is called once for every member, in tar order, and the members
   still to be reported are those in the group or the one being streamed. *)
ReportsInOrder ==
    /\ \A r \in DOMAIN reported : reported[r] = r
    /\ \A k \in DOMAIN group : group[k].idx = Len(reported) + k
    /\ pc \in {"parse", "drain", "trailer", "toc", "done"} =>
          Len(members) = Len(reported) + Len(group)
    /\ pc = "stream" => group = <<>> /\ Len(members) = Len(reported) + 1

(* A member is reported "as soon as that member has been fully compressed":
   the entry handed to on_member never changes afterwards, and it stays in
   the TOC. *)
ReportedIsFinal ==
    [][\A r \in DOMAIN reported : members'[reported[r]] = members[reported[r]]]_vars

(* No frame that holds a member is larger than the chunk size, so reading a
   member never decodes more than that beside it; the group stays below. *)
FramesBounded ==
    /\ groupSize < ChunkSize
    /\ \A i \in DOMAIN frames :
          \/ frames[i].end - frames[i].start <= ChunkSize
          \/ i = Len(frames) /\ pc \in {"toc", "done", "failed"}

(* While the data of a large member is read, the window holds less than one
   chunk and one read, whatever the member's size. *)
StreamingWindowBounded ==
    pc = "stream" /\ content # {} => winEnd - winBase < ChunkSize + Scratch

(* "peak memory is bounded by `opts.chunk_size` rather than by the size of
   the input" (wrap.rs:139): the window never exceeds a few chunks, with room
   for the headers and one read. *)
PeakMemoryBounded == winEnd - winBase <= 3 * ChunkSize + Scratch

(* The footer, which makes a file an archive, is written only over a complete
   one: every raw byte is in a frame, the end marker was there, each member
   has been reported and the footer points right behind the last frame. *)
FooterMeansComplete == footer # NoFooter =>
    /\ RawEnd = inputLen
    /\ parseStart + 2 * Block <= inputLen /\ markerZero
    /\ Len(reported) = Len(members)
    /\ footer.tocOffset = PhysicalEnd

(* The writer implements LosslessStream: every step it takes, a failure
   included, extends the decodable prefix, seals a complete one, or changes
   neither. *)
Coded == IF Tiled THEN RawEnd ELSE -1

Lossless == INSTANCE LosslessStream
    WITH Totals <- InputLens, total <- inputLen, coded <- Coded,
         sealed <- footer # NoFooter

ImplementsLossless == Lossless!LosslessSpec

(* wrap returns, with an archive or with an error, on every input. *)
Terminates == <>(pc \in {"done", "failed"})
=============================================================================
