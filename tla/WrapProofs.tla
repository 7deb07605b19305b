----------------------------- MODULE WrapProofs -----------------------------
(***************************************************************************)
(* Theorems about Wrap, for every value of its constants.                  *)
(***************************************************************************)
EXTENDS Wrap, TLAPS

(* Where the writer's offsets stand to each other at each point of wrap_with:
   the part of the inductive invariant that typing needs, because a size is a
   difference of two offsets. *)
Layout ==
    /\ winBase <= nextChunkStart /\ nextChunkStart <= winEnd
    /\ winEnd <= inputLen
    /\ prevEnd <= parseStart
    /\ group = <<>> => groupSize = 0
    /\ group # <<>> => groupSize > 0
    /\ groupSize < ChunkSize
    /\ pc \in {"parse", "stream", "drain"} => winBase = nextChunkStart
    /\ pc \in {"parse", "drain"} => nextChunkStart + groupSize = prevEnd
    /\ pc = "parse" => winEnd = parseStart
    /\ pc = "stream" =>
          /\ group = <<>> /\ members # <<>>
          /\ prevEnd = parseStart
          /\ nextChunkStart <= prevEnd
          /\ winEnd + dataLeft <= prevEnd
    /\ pc = "drain" => parseStart <= winEnd
    /\ pc \in {"trailer", "toc", "done"} => winEnd = inputLen /\ group = <<>>

TypeInv == TypeOK /\ Layout

-----------------------------------------------------------------------------
(* Lemmas about sizes. *)

(* padded_data_size rounds up, by less than a block. *)
LEMMA PaddedFacts ==
    ASSUME NEW size \in Nat
    PROVE  /\ Padded(size) \in Nat
           /\ Padded(size) >= size /\ Padded(size) < size + Block
<1> DEFINE q == (size + Block - 1) \div Block
           r == (size + Block - 1) % Block
<1>1. q \in Nat /\ r \in 0 .. (Block - 1)
    BY BlockAssumption
<1>2. size + Block - 1 = Block * q + r
    BY BlockAssumption
<1>3. q * Block = Block * q /\ Block * q \in Nat
    BY <1>1, BlockAssumption
<1>4. Padded(size) = q * Block
    BY DEF Padded
<1> HIDE DEF q, r
<1> QED
    BY <1>1, <1>2, <1>3, <1>4, BlockAssumption

(* The offsets of a parsed member are in order. *)
LEMMA HeaderFacts ==
    ASSUME NEW h \in Headers, parseStart \in Nat, prevEnd \in Nat,
           prevEnd <= parseStart
    PROVE  /\ h.size \in Nat /\ h.kind \in Kinds
           /\ TarOffset(h) \in Nat /\ DataStart(h) \in Nat
           /\ EntryEnd(h) \in Nat /\ RegionSize(h) \in Nat
           /\ parseStart <= TarOffset(h)
           /\ TarOffset(h) < DataStart(h)
           /\ DataStart(h) + h.size <= EntryEnd(h)
           /\ RegionSize(h) = EntryEnd(h) - prevEnd
           /\ RegionSize(h) > 0
           /\ parseStart < EntryEnd(h)
<1>1. /\ h.size \in Nat /\ h.lead \in Nat /\ h.map \in Nat /\ h.kind \in Kinds
    BY HeadersAssumption DEF HeaderRecords
<1>2. Padded(h.size) \in Nat /\ Padded(h.size) >= h.size
    BY <1>1, PaddedFacts
<1> QED
    BY <1>1, <1>2, BlockAssumption
    DEF TarOffset, DataStart, EntryEnd, RegionSize

(* A new TOC entry is well typed. *)
LEMMA TocMemberType ==
    ASSUME NEW h \in Headers, NEW digest \in SUBSET Int,
           parseStart \in Nat, prevEnd \in Nat, prevEnd <= parseStart
    PROVE  TocMember(h, digest) \in MemberRecords
BY HeaderFacts DEF TocMember, MemberRecords

(* A TOC entry stays well typed when it gets another chunk. *)
LEMMA WithChunkType ==
    ASSUME NEW m \in MemberRecords, NEW c \in ChunkRecords
    PROVE  WithChunk(m, c) \in MemberRecords
<1>1. m.chunks \in Seq(ChunkRecords)
    BY DEF MemberRecords
<1>2. Append(m.chunks, c) \in Seq(ChunkRecords)
    BY <1>1
<1> QED
    BY <1>2 DEF WithChunk, MemberRecords

(* Giving each group member its chunk leaves the TOC well typed and as long
   as it was. *)
LEMMA GroupChunksType ==
    ASSUME NEW ms \in Seq(MemberRecords), NEW g \in Seq(GroupRecords),
           NEW z \in FrameSizes, pos \in Nat
    PROVE  /\ WithGroupChunks(ms, g, z) \in Seq(MemberRecords)
           /\ Len(WithGroupChunks(ms, g, z)) = Len(ms)
           /\ DOMAIN WithGroupChunks(ms, g, z) = DOMAIN ms
<1> DEFINE new == WithGroupChunks(ms, g, z)
<1>1. ASSUME NEW i \in DOMAIN ms
      PROVE  new[i] \in MemberRecords
    <2>1. CASE \E k \in DOMAIN g : g[k].idx = i
        <3> DEFINE k == CHOOSE j \in DOMAIN g : g[j].idx = i
        <3>1. k \in DOMAIN g
            BY <2>1
        <3>2. g[k] \in GroupRecords
            BY <3>1
        <3>3. Chunk(z, g[k].region, g[k].offset) \in ChunkRecords
            BY <3>2, FrameAssumption DEF Chunk, ChunkRecords, GroupRecords
        <3>4. ms[i] \in MemberRecords
            BY <1>1
        <3>5. WithChunk(ms[i], Chunk(z, g[k].region, g[k].offset))
                 \in MemberRecords
            BY <3>3, <3>4, WithChunkType
        <3>6. new[i] = WithChunk(ms[i], Chunk(z, g[k].region, g[k].offset))
            BY <1>1, <2>1 DEF WithGroupChunks
        <3> QED
            BY <3>5, <3>6
    <2>2. CASE ~ \E k \in DOMAIN g : g[k].idx = i
        BY <1>1, <2>2 DEF WithGroupChunks
    <2> QED
        BY <2>1, <2>2
<1>2. DOMAIN new = 1 .. Len(ms)
    BY DEF WithGroupChunks
<1>3. new = [i \in 1 .. Len(ms) |-> new[i]]
    BY <1>2 DEF WithGroupChunks
<1> HIDE DEF new
<1>4. \A i \in 1 .. Len(ms) : new[i] \in MemberRecords
    BY <1>1
<1>5. new \in Seq(MemberRecords) /\ Len(new) = Len(ms)
    BY <1>3, <1>4
<1> QED
    BY <1>2, <1>5 DEF new
-----------------------------------------------------------------------------
(* What the writer's helpers do to the typed state. *)

LEMMA PhysicalEndType ==
    ASSUME frames \in Seq(FrameRecords)
    PROVE  PhysicalEnd \in Nat
<1>1. CASE frames = <<>>
    BY <1>1, IdentityAssumption DEF PhysicalEnd
<1>2. CASE frames # <<>>
    <2>1. frames[Len(frames)] \in FrameRecords
        BY <1>2
    <2> QED
        BY <1>2, <2>1 DEF PhysicalEnd, FrameRecords
<1> QED
    BY <1>1, <1>2

LEMMA CompressFrameType ==
    ASSUME TypeOK, NEW start \in Nat, NEW end \in Nat, NEW z \in FrameSizes,
           winEnd' \in Nat, CompressFrame(start, end, z)
    PROVE  /\ pos' \in Nat /\ frames' \in Seq(FrameRecords)
           /\ winBase <= start /\ end <= winEnd'
<1>1. frames \in Seq(FrameRecords) /\ pos \in Nat /\ z \in Nat
    BY FrameAssumption DEF TypeOK
<1>2. PhysicalEnd \in Nat
    BY <1>1, PhysicalEndType
<1>3. [at |-> PhysicalEnd, size |-> z, start |-> start, end |-> end]
        \in FrameRecords
    BY <1>1, <1>2 DEF FrameRecords
<1> QED
    BY <1>1, <1>3 DEF CompressFrame

LEMMA FlushType ==
    ASSUME TypeOK, NEW ms \in Seq(MemberRecords), NEW g \in Seq(GroupRecords),
           NEW size \in Nat, winEnd' \in Nat, Flush(ms, g, size)
    PROVE  /\ pos' \in Nat /\ frames' \in Seq(FrameRecords)
           /\ members' \in Seq(MemberRecords) /\ Len(members') = Len(ms)
           /\ reported' \in Seq(Nat)
           /\ winBase' = nextChunkStart + size
           /\ nextChunkStart' = nextChunkStart + size
           /\ nextChunkStart + size <= winEnd'
<1>1. PICK z \in FrameSizes :
        /\ CompressFrame(nextChunkStart, nextChunkStart + size, z)
        /\ members' = WithGroupChunks(ms, g, z)
    BY DEF Flush
<1>2. nextChunkStart \in Nat /\ nextChunkStart + size \in Nat /\ pos \in Nat
    BY DEF TypeOK
<1>3. /\ pos' \in Nat /\ frames' \in Seq(FrameRecords)
      /\ nextChunkStart + size <= winEnd'
    BY <1>1, <1>2, CompressFrameType
<1>4. members' \in Seq(MemberRecords) /\ Len(members') = Len(ms)
    BY <1>1, <1>2, GroupChunksType
<1>5. winBase' = nextChunkStart + size /\ nextChunkStart' = nextChunkStart + size
    BY DEF Flush, DrainTo
<1>6. reported' \in Seq(Nat)
    <2>1. ASSUME NEW k \in DOMAIN g PROVE g[k].idx \in Nat
        <3>1. g[k] \in GroupRecords
            OBVIOUS
        <3> QED
            BY <3>1 DEF GroupRecords
    <2>2. [k \in DOMAIN g |-> g[k].idx] \in Seq(Nat)
        BY <2>1
    <2>3. reported \in Seq(Nat)
        BY DEF TypeOK
    <2>4. reported' = reported \o [k \in DOMAIN g |-> g[k].idx]
        BY DEF Flush
    <2> QED
        BY <2>2, <2>3, <2>4
<1> QED
    BY <1>3, <1>4, <1>5, <1>6

LEMMA FlushGroupType ==
    ASSUME TypeOK, Layout, pc \in {"parse", "drain"},
           NEW ms \in Seq(MemberRecords), winEnd' \in Nat, FlushGroup(ms)
    PROVE  /\ pos' \in Nat /\ frames' \in Seq(FrameRecords)
           /\ members' \in Seq(MemberRecords) /\ Len(members') = Len(ms)
           /\ reported' \in Seq(Nat)
           /\ winBase' = prevEnd /\ nextChunkStart' = prevEnd
           /\ group' = <<>> /\ groupSize' = 0
<1>1. CASE group = <<>> /\ members' = ms /\ UNCHANGED outVars
    BY <1>1 DEF FlushGroup, TypeOK, Layout, outVars
<1>2. CASE group # <<>> /\ Flush(ms, group, groupSize)
    <2>1. group \in Seq(GroupRecords) /\ groupSize \in Nat
        BY DEF TypeOK
    <2>2. nextChunkStart + groupSize = prevEnd
        BY DEF Layout
    <2> QED
        BY <1>2, <2>1, <2>2, FlushType DEF FlushGroup
<1> QED
    BY <1>1, <1>2 DEF FlushGroup

(* A group entry for a member parsed now is well typed. *)
LEMMA GroupEntryType ==
    ASSUME TypeOK, Layout, NEW h \in Headers, NEW offset \in Nat
    PROVE  GroupEntry(h, offset) \in GroupRecords
<1>1. RegionSize(h) \in Nat /\ Len(members) + 1 \in Nat
    BY HeaderFacts DEF TypeOK, Layout
<1> QED
    BY <1>1 DEF GroupEntry, GroupRecords

LEMMA WithMemberType ==
    ASSUME TypeOK, Layout, NEW h \in Headers, NEW digest \in SUBSET Int
    PROVE  /\ WithMember(h, digest) \in Seq(MemberRecords)
           /\ Len(WithMember(h, digest)) = Len(members) + 1
<1>1. TocMember(h, digest) \in MemberRecords
    BY TocMemberType DEF TypeOK, Layout
<1> QED
    BY <1>1 DEF WithMember, TypeOK

LEMMA GroupDigestType ==
    ASSUME NEW h \in Headers
    PROVE  GroupDigest(h) \in SUBSET Int
<1> SUFFICES ASSUME NEW x \in GroupDigest(h) PROVE x \in Int
    OBVIOUS
<1> QED
    BY DEF GroupDigest, NoDigest
-----------------------------------------------------------------------------
(* Typing. *)

LEMMA TypeInit == Init => TypeInv
<1> SUFFICES ASSUME Init PROVE TypeInv
    OBVIOUS
<1>1. TypeOK
    <2>1. inputLen \in Nat /\ pos \in Nat
        BY InputAssumption, IdentityAssumption DEF Init
    <2>2. /\ group \in Seq(GroupRecords) /\ members \in Seq(MemberRecords)
          /\ frames \in Seq(FrameRecords) /\ reported \in Seq(Nat)
        BY DEF Init
    <2>3. footer \in [tocOffset: Int, tocFrameSize: Int, tocJson: Int]
        BY DEF Init, NoFooter
    <2> QED
        BY <2>1, <2>2, <2>3 DEF Init, TypeOK
<1>2. Layout
    BY InputAssumption, ChunkSizeAssumption DEF Init, Layout
<1> QED
    BY <1>1, <1>2 DEF TypeInv

(* Every way of giving up leaves the rest of the state as it was. *)
LEMMA TypeGiveUp ==
    ASSUME TypeInv, GiveUp
    PROVE  TypeInv'
BY DEF TypeInv, TypeOK, Layout, GiveUp, inVars, groupVars, streamVars, outVars

(* Where a small member leaves the offsets. *)
LEMMA SmallMemberFacts ==
    ASSUME TypeInv, NEW h \in Headers, SmallMember(h)
    PROVE  /\ pc = "parse" /\ pc' = "parse"
           /\ winEnd' = EntryEnd(h) /\ parseStart' = EntryEnd(h)
           /\ prevEnd' = EntryEnd(h) /\ EntryEnd(h) \in Nat
           /\ EntryEnd(h) <= inputLen
           /\ RegionSize(h) \in Nat \ {0} /\ RegionSize(h) < ChunkSize
           /\ EntryEnd(h) = prevEnd + RegionSize(h)
           /\ UNCHANGED <<inputLen, markerZero, footer, dataLeft, content>>
<1>1. /\ pc = "parse" /\ pc' = "parse" /\ parseStart' = EntryEnd(h)
      /\ prevEnd' = EntryEnd(h) /\ winEnd' = Captured(EntryEnd(h))
      /\ EntryEnd(h) <= inputLen /\ RegionSize(h) < ChunkSize
      /\ UNCHANGED <<inputLen, markerZero, footer, dataLeft, content>>
    BY DEF SmallMember, ParseMember, CanCapture, streamVars
<1>2. /\ parseStart \in Nat /\ prevEnd \in Nat /\ prevEnd <= parseStart
      /\ winEnd = parseStart
    BY <1>1 DEF TypeInv, TypeOK, Layout
<1>3. /\ EntryEnd(h) \in Nat /\ RegionSize(h) \in Nat /\ RegionSize(h) > 0
      /\ RegionSize(h) = EntryEnd(h) - prevEnd /\ parseStart < EntryEnd(h)
    BY <1>2, HeaderFacts
<1>4. winEnd' = EntryEnd(h)
    BY <1>1, <1>2, <1>3 DEF Captured
<1> QED
    BY <1>1, <1>2, <1>3, <1>4

LEMMA TypeNext == TypeInv /\ [Next]_vars => TypeInv'
<1> SUFFICES ASSUME TypeInv, [Next]_vars PROVE TypeInv'
    OBVIOUS
<1> USE DEF TypeInv
<1> DEFINE Numbers == /\ inputLen \in Nat /\ winBase \in Nat /\ winEnd \in Nat
                      /\ parseStart \in Nat /\ prevEnd \in Nat
                      /\ nextChunkStart \in Nat /\ groupSize \in Nat
                      /\ dataLeft \in Nat
<1>0. Numbers
    BY DEF TypeOK
<1>1. CASE ParseGlobal
    <2>1. PICK g \in GlobalSizes :
            /\ pc = "parse" /\ CanCapture(parseStart + g)
            /\ winEnd' = Captured(parseStart + g)
            /\ parseStart' = parseStart + g
        BY <1>1 DEF ParseGlobal
    <2>2. /\ winEnd' = parseStart + g /\ parseStart' \in Nat
          /\ winEnd' <= inputLen /\ parseStart <= parseStart'
        BY <1>0, <2>1, GlobalAssumption DEF Captured, CanCapture, Layout
    <2>3. TypeOK'
        BY <1>1, <2>1, <2>2
        DEF ParseGlobal, TypeOK, groupVars, streamVars, outVars
    <2>4. Layout'
        BY <1>0, <1>1, <2>1, <2>2
        DEF ParseGlobal, Layout, groupVars, streamVars, outVars
    <2> QED
        BY <2>3, <2>4
<1>2. CASE JoinGroup
    <2>1. PICK h \in Headers :
            /\ SmallMember(h)
            /\ groupSize + RegionSize(h) < ChunkSize
            /\ members' = WithMember(h, GroupDigest(h))
            /\ group' = Append(group, GroupEntry(h, groupSize))
            /\ groupSize' = groupSize + RegionSize(h)
            /\ UNCHANGED outVars
        BY <1>2 DEF JoinGroup
    <2>2. /\ pc = "parse" /\ pc' = "parse"
          /\ winEnd' = EntryEnd(h) /\ parseStart' = EntryEnd(h)
          /\ prevEnd' = EntryEnd(h) /\ EntryEnd(h) \in Nat
          /\ EntryEnd(h) <= inputLen
          /\ RegionSize(h) \in Nat \ {0} /\ RegionSize(h) < ChunkSize
          /\ EntryEnd(h) = prevEnd + RegionSize(h)
          /\ UNCHANGED <<inputLen, markerZero, footer, dataLeft, content>>
        BY <2>1, SmallMemberFacts
    <2>3. /\ members' \in Seq(MemberRecords)
          /\ GroupEntry(h, groupSize) \in GroupRecords
        BY <2>1, WithMemberType, GroupDigestType, GroupEntryType DEF TypeOK
    <2>4. group' \in Seq(GroupRecords) /\ group' # <<>>
        <3>1. group \in Seq(GroupRecords)
            BY DEF TypeOK
        <3>2. group' = Append(group, GroupEntry(h, groupSize))
            BY <2>1
        <3> QED
            BY <2>3, <3>1, <3>2
    <2>5. TypeOK'
        <3>1. groupSize' \in Nat
            <4>1. groupSize \in Nat
                BY DEF TypeOK
            <4> QED
                BY <2>1, <2>2, <4>1
        <3>2. /\ winEnd' \in Nat /\ parseStart' \in Nat /\ prevEnd' \in Nat
              /\ pc' \in {"parse", "stream", "drain", "trailer", "toc", "done", "failed"}
            BY <2>2
        <3>3. UNCHANGED <<inputLen, winBase, nextChunkStart, dataLeft, content,
                          markerZero, pos, frames, reported, footer>>
            BY <2>1, <2>2 DEF outVars
        <3> QED
            BY <2>3, <2>4, <3>1, <3>2, <3>3 DEF TypeOK
    <2>6. Layout'
        <3>1. /\ winBase' = winBase /\ nextChunkStart' = nextChunkStart
              /\ groupSize' = groupSize + RegionSize(h)
              /\ groupSize' < ChunkSize
            BY <2>1 DEF outVars
        <3>2. groupSize' > 0 /\ nextChunkStart + groupSize' = EntryEnd(h)
            BY <1>0, <2>2, <3>1 DEF Layout
        <3>3. group' # <<>>
            BY <2>4
        <3> QED
            BY <1>0, <2>2, <3>1, <3>2, <3>3 DEF Layout
    <2> QED
        BY <2>5, <2>6
<1>3. CASE JoinAndFlush
    <2>1. PICK h \in Headers :
            /\ SmallMember(h)
            /\ Flush(WithMember(h, GroupDigest(h)),
                     Append(group, GroupEntry(h, groupSize)),
                     groupSize + RegionSize(h))
            /\ group' = <<>> /\ groupSize' = 0
        BY <1>3 DEF JoinAndFlush
    <2>2. /\ pc = "parse" /\ pc' = "parse"
          /\ winEnd' = EntryEnd(h) /\ parseStart' = EntryEnd(h)
          /\ prevEnd' = EntryEnd(h) /\ EntryEnd(h) \in Nat
          /\ EntryEnd(h) <= inputLen
          /\ RegionSize(h) \in Nat \ {0} /\ RegionSize(h) < ChunkSize
          /\ EntryEnd(h) = prevEnd + RegionSize(h)
          /\ UNCHANGED <<inputLen, markerZero, footer, dataLeft, content>>
        BY <2>1, SmallMemberFacts
    <2>3. /\ WithMember(h, GroupDigest(h)) \in Seq(MemberRecords)
          /\ GroupEntry(h, groupSize) \in GroupRecords
        BY <2>1, WithMemberType, GroupDigestType, GroupEntryType DEF TypeOK
    <2>4. Append(group, GroupEntry(h, groupSize)) \in Seq(GroupRecords)
        BY <2>3 DEF TypeOK
    <2>5. groupSize + RegionSize(h) \in Nat /\ winEnd' \in Nat
        BY <2>1, <2>2 DEF TypeOK
    <2>6. /\ pos' \in Nat /\ frames' \in Seq(FrameRecords)
          /\ members' \in Seq(MemberRecords) /\ reported' \in Seq(Nat)
          /\ winBase' = nextChunkStart + (groupSize + RegionSize(h))
          /\ nextChunkStart' = nextChunkStart + (groupSize + RegionSize(h))
        BY <2>1, <2>3, <2>4, <2>5, FlushType
    <2>7. winBase' = EntryEnd(h) /\ nextChunkStart' = EntryEnd(h)
        BY <1>0, <2>1, <2>2, <2>6 DEF Layout
    <2>8. TypeOK'
        BY <2>1, <2>2, <2>6, <2>7 DEF TypeOK
    <2>9. Layout'
        BY <1>0, <2>1, <2>2, <2>7, ChunkSizeAssumption DEF Layout
    <2> QED
        BY <2>8, <2>9
<1>4. CASE FlushThenJoin
    <2>1. PICK h \in Headers :
            /\ SmallMember(h)
            /\ Flush(WithMember(h, GroupDigest(h)), group, groupSize)
            /\ group' = <<GroupEntry(h, 0)>>
            /\ groupSize' = RegionSize(h)
        BY <1>4 DEF FlushThenJoin
    <2>2. /\ pc = "parse" /\ pc' = "parse"
          /\ winEnd' = EntryEnd(h) /\ parseStart' = EntryEnd(h)
          /\ prevEnd' = EntryEnd(h) /\ EntryEnd(h) \in Nat
          /\ EntryEnd(h) <= inputLen
          /\ RegionSize(h) \in Nat \ {0} /\ RegionSize(h) < ChunkSize
          /\ EntryEnd(h) = prevEnd + RegionSize(h)
          /\ UNCHANGED <<inputLen, markerZero, footer, dataLeft, content>>
        BY <2>1, SmallMemberFacts
    <2>3. /\ WithMember(h, GroupDigest(h)) \in Seq(MemberRecords)
          /\ GroupEntry(h, 0) \in GroupRecords
        BY <2>1, WithMemberType, GroupDigestType, GroupEntryType
    <2>4. group' \in Seq(GroupRecords) /\ group' # <<>>
        BY <2>1, <2>3
    <2>5. group \in Seq(GroupRecords) /\ groupSize \in Nat /\ winEnd' \in Nat
        BY <2>1, <2>2 DEF TypeOK
    <2>6. /\ pos' \in Nat /\ frames' \in Seq(FrameRecords)
          /\ members' \in Seq(MemberRecords) /\ reported' \in Seq(Nat)
          /\ winBase' = nextChunkStart + groupSize
          /\ nextChunkStart' = nextChunkStart + groupSize
        BY <2>1, <2>3, <2>5, FlushType
    <2>7. winBase' = prevEnd /\ nextChunkStart' = prevEnd
        BY <1>0, <2>1, <2>2, <2>6 DEF Layout
    <2>8. TypeOK'
        BY <2>1, <2>2, <2>4, <2>6, <2>7 DEF TypeOK
    <2>9. Layout'
        BY <1>0, <2>1, <2>2, <2>4, <2>7 DEF Layout
    <2> QED
        BY <2>8, <2>9
<1>5. CASE BeginLarge
    <2>1. PICK h \in Headers :
            /\ ParseMember(h)
            /\ CanCapture(DataStart(h)) /\ winEnd' = Captured(DataStart(h))
            /\ FlushGroup(WithMember(h, NoDigest))
            /\ pc' = "stream" /\ dataLeft' = h.size /\ content' = {}
        BY <1>5 DEF BeginLarge
    <2>2. /\ pc = "parse" /\ parseStart' = EntryEnd(h) /\ prevEnd' = EntryEnd(h)
          /\ UNCHANGED <<inputLen, markerZero, footer>>
        BY <2>1 DEF ParseMember
    <2>3. /\ h.size \in Nat /\ EntryEnd(h) \in Nat
          /\ parseStart < DataStart(h) /\ DataStart(h) + h.size <= EntryEnd(h)
          /\ DataStart(h) \in Nat
        BY <1>0, HeaderFacts DEF Layout
    <2>4. winEnd' = DataStart(h) /\ winEnd' <= inputLen
        BY <1>0, <2>1, <2>2, <2>3 DEF Captured, CanCapture, Layout
    <2>5. NoDigest \in SUBSET Int
        BY DEF NoDigest
    <2>6. /\ WithMember(h, NoDigest) \in Seq(MemberRecords)
          /\ Len(WithMember(h, NoDigest)) = Len(members) + 1
        BY <2>5, WithMemberType
    <2>7. /\ pos' \in Nat /\ frames' \in Seq(FrameRecords)
          /\ members' \in Seq(MemberRecords)
          /\ Len(members') = Len(members) + 1 /\ reported' \in Seq(Nat)
          /\ winBase' = prevEnd /\ nextChunkStart' = prevEnd
          /\ group' = <<>> /\ groupSize' = 0
        BY <2>1, <2>2, <2>3, <2>4, <2>6, FlushGroupType
    <2>8. members' # <<>>
        BY <2>7 DEF TypeOK
    <2>9. TypeOK'
        BY <2>1, <2>2, <2>3, <2>4, <2>7 DEF TypeOK
    <2>10. Layout'
        BY <1>0, <2>1, <2>2, <2>3, <2>4, <2>7, <2>8, ChunkSizeAssumption
        DEF Layout
    <2> QED
        BY <2>9, <2>10
<1>6. CASE PushFullChunk
    <2> DEFINE end == nextChunkStart + ChunkSize
    <2>1. PICK z \in FrameSizes :
            /\ CompressFrame(nextChunkStart, end, z)
            /\ DrainTo(end)
            /\ members' = [members EXCEPT ![Len(members)] =
                             WithChunk(@, StreamChunk(end, z))]
        BY <1>6 DEF PushFullChunk, PushFrame
    <2>2. /\ pc = "stream" /\ end <= winEnd /\ end \in Nat
          /\ nextChunkStart \in Nat /\ winEnd' \in Nat /\ winEnd' = winEnd
        BY <1>6, ChunkSizeAssumption DEF PushFullChunk, FullChunk, TypeOK
    <2>3. pos' \in Nat /\ frames' \in Seq(FrameRecords)
        BY <2>1, <2>2, CompressFrameType
    <2>4. StreamChunk(end, z) \in ChunkRecords
        BY <2>2, FrameAssumption, ChunkSizeAssumption
        DEF StreamChunk, Chunk, ChunkRecords, TypeOK
    <2>5. members # <<>> /\ members \in Seq(MemberRecords)
        BY <1>0, <2>2 DEF Layout, TypeOK
    <2>6. WithChunk(members[Len(members)], StreamChunk(end, z))
            \in MemberRecords
        BY <2>4, <2>5, WithChunkType
    <2>7. members' \in Seq(MemberRecords) /\ members' # <<>>
        BY <2>1, <2>5, <2>6
    <2>8. winBase' = end /\ nextChunkStart' = end
        BY <2>1 DEF DrainTo
    <2>9. TypeOK'
        BY <1>6, <2>2, <2>3, <2>7, <2>8
        DEF PushFullChunk, TypeOK, groupVars, streamVars
    <2>10. Layout'
        BY <1>0, <1>6, <2>2, <2>7, <2>8
        DEF PushFullChunk, Layout, groupVars, streamVars
    <2> QED
        BY <2>9, <2>10
<1>7. CASE ReadData
    <2>1. PICK n \in 1 .. Scratch :
            /\ pc = "stream" /\ n <= dataLeft /\ winEnd + n <= inputLen
            /\ winEnd' = winEnd + n /\ dataLeft' = dataLeft - n
            /\ content' = content \cup (winEnd .. winEnd + n - 1)
        BY <1>7 DEF ReadData
    <2>2. content' \in SUBSET Int
        BY <2>1 DEF TypeOK
    <2>3. n \in Nat
        BY ScratchAssumption
    <2>4. TypeOK'
        BY <1>7, <2>1, <2>2, <2>3 DEF ReadData, TypeOK, groupVars, outVars
    <2>5. Layout'
        BY <1>0, <1>7, <2>1, <2>3 DEF ReadData, Layout, groupVars, outVars
    <2> QED
        BY <2>4, <2>5
<1>8. CASE CapturePadding
    <2>1. winEnd' = prevEnd /\ pc = "stream" /\ dataLeft = 0 /\ prevEnd <= inputLen
        BY <1>8 DEF CapturePadding, Captured, CanCapture
    <2>2. TypeOK'
        BY <1>8, <2>1
        DEF CapturePadding, TypeOK, groupVars, streamVars, outVars
    <2>3. Layout'
        BY <1>0, <1>8, <2>1
        DEF CapturePadding, Layout, groupVars, streamVars, outVars
    <2> QED
        BY <2>2, <2>3
<1>9. CASE FinishLarge
    <2> DEFINE m == [members[Len(members)] EXCEPT
                       !.digest = IF Hashed THEN content ELSE NoDigest]
    <2>1. /\ pc = "stream" /\ pc' = "parse" /\ dataLeft = 0
          /\ winEnd = prevEnd /\ winEnd' = winEnd
          /\ PushRemainder(m)
        BY <1>0, <1>9 DEF FinishLarge, Layout
    <2>2. members # <<>> /\ members \in Seq(MemberRecords)
        BY <1>0, <2>1 DEF Layout, TypeOK
    <2>3. members[Len(members)] \in MemberRecords
        BY <2>2
    <2>4. (IF Hashed THEN content ELSE NoDigest) \in SUBSET Int
        BY DEF NoDigest, TypeOK
    <2>5. m \in MemberRecords
        BY <2>3, <2>4 DEF MemberRecords
    <2> HIDE DEF m
    <2>6. /\ pos' \in Nat /\ frames' \in Seq(FrameRecords)
          /\ members' \in Seq(MemberRecords)
          /\ winBase' = prevEnd /\ nextChunkStart' = prevEnd
        <3>1. CASE nextChunkStart = prevEnd
            <4>1. /\ members' = [members EXCEPT ![Len(members)] = m]
                  /\ UNCHANGED <<pos, frames, winBase, nextChunkStart>>
                BY <2>1, <3>1 DEF PushRemainder, TypeOK
            <4> QED
                BY <2>1, <2>2, <2>5, <3>1, <4>1 DEF TypeOK, Layout
        <3>2. CASE nextChunkStart # prevEnd
            <4>1. PICK z \in FrameSizes :
                    /\ nextChunkStart < prevEnd
                    /\ CompressFrame(nextChunkStart, prevEnd, z)
                    /\ DrainTo(prevEnd)
                    /\ members' = [members EXCEPT ![Len(members)] =
                                     WithChunk(m, StreamChunk(prevEnd, z))]
                BY <2>1, <3>2 DEF PushRemainder, PushFrame
            <4>2. prevEnd - nextChunkStart \in Nat
                BY <4>1 DEF TypeOK
            <4>3. StreamChunk(prevEnd, z) \in ChunkRecords
                BY <4>2, FrameAssumption
                DEF StreamChunk, Chunk, ChunkRecords, TypeOK
            <4>4. WithChunk(m, StreamChunk(prevEnd, z)) \in MemberRecords
                BY <2>5, <4>3, WithChunkType
            <4>5. pos' \in Nat /\ frames' \in Seq(FrameRecords)
                BY <2>1, <4>1, CompressFrameType DEF TypeOK
            <4> QED
                BY <2>2, <4>1, <4>4, <4>5 DEF DrainTo
        <3> QED
            BY <3>1, <3>2
    <2>7. reported' \in Seq(Nat)
        <3>1. reported' = Append(reported, Len(members))
            BY <1>9 DEF FinishLarge
        <3>2. reported \in Seq(Nat) /\ Len(members) \in Nat
            BY DEF TypeOK
        <3> QED
            BY <3>1, <3>2
    <2>8. content' \in SUBSET Int
        BY <1>9 DEF FinishLarge
    <2>9. UNCHANGED <<inputLen, parseStart, prevEnd, group, groupSize, dataLeft,
                      markerZero, footer>>
        BY <1>9 DEF FinishLarge, groupVars
    <2>10. TypeOK'
        BY <2>1, <2>6, <2>7, <2>8, <2>9 DEF TypeOK
    <2>11. Layout'
        BY <1>0, <2>1, <2>6, <2>9 DEF Layout
    <2> QED
        BY <2>10, <2>11
<1>10. CASE ParseEnd
    <2>1. PICK look \in {Block, 2 * Block} :
            /\ pc = "parse" /\ CanCapture(parseStart + look)
            /\ winEnd' = Captured(parseStart + look)
            /\ markerZero' \in BOOLEAN /\ pc' = "drain"
        BY <1>10 DEF ParseEnd
    <2>2. winEnd' = parseStart + look /\ winEnd' \in Nat /\ winEnd' <= inputLen
          /\ parseStart <= winEnd' /\ winEnd <= winEnd'
        BY <1>0, <2>1, BlockAssumption DEF Captured, CanCapture, Layout
    <2>3. TypeOK'
        BY <1>10, <2>1, <2>2
        DEF ParseEnd, TypeOK, groupVars, streamVars, outVars
    <2>4. Layout'
        BY <1>0, <1>10, <2>1, <2>2
        DEF ParseEnd, Layout, groupVars, streamVars, outVars
    <2> QED
        BY <2>3, <2>4
<1>11. CASE DrainTrailing
    <2>1. PICK n \in 1 .. Scratch :
            pc = "drain" /\ winEnd + n <= inputLen /\ winEnd' = winEnd + n
        BY <1>11 DEF DrainTrailing
    <2>2. n \in Nat
        BY ScratchAssumption
    <2>3. TypeOK'
        BY <1>11, <2>1, <2>2
        DEF DrainTrailing, TypeOK, groupVars, streamVars, outVars
    <2>4. Layout'
        BY <1>0, <1>11, <2>1, <2>2
        DEF DrainTrailing, Layout, groupVars, streamVars, outVars
    <2> QED
        BY <2>3, <2>4
<1>12. CASE FlushLast
    <2>1. /\ pc = "drain" /\ pc' = "trailer" /\ winEnd = inputLen
          /\ winEnd' = winEnd /\ FlushGroup(members)
          /\ UNCHANGED <<inputLen, parseStart, prevEnd, dataLeft, content,
                         markerZero, footer>>
        BY <1>12 DEF FlushLast, streamVars
    <2>2. members \in Seq(MemberRecords) /\ winEnd' \in Nat
        BY <2>1 DEF TypeOK
    <2>3. /\ pos' \in Nat /\ frames' \in Seq(FrameRecords)
          /\ members' \in Seq(MemberRecords) /\ reported' \in Seq(Nat)
          /\ winBase' = prevEnd /\ nextChunkStart' = prevEnd
          /\ group' = <<>> /\ groupSize' = 0
        BY <2>1, <2>2, FlushGroupType
    <2>4. TypeOK'
        BY <2>1, <2>3 DEF TypeOK
    <2>5. Layout'
        BY <1>0, <2>1, <2>3, ChunkSizeAssumption DEF Layout
    <2> QED
        BY <2>4, <2>5
<1>13. CASE WriteTrailer
    <2>1. PICK z \in FrameSizes :
            /\ pc = "trailer" /\ CompressFrame(nextChunkStart, winEnd, z)
            /\ winEnd' = winEnd /\ pc' = "toc"
        BY <1>13 DEF WriteTrailer
    <2>2. pos' \in Nat /\ frames' \in Seq(FrameRecords)
        BY <2>1, CompressFrameType DEF TypeOK
    <2>3. TypeOK'
        BY <1>13, <2>1, <2>2 DEF WriteTrailer, TypeOK, groupVars, streamVars
    <2>4. Layout'
        BY <1>0, <1>13, <2>1 DEF WriteTrailer, Layout, groupVars, streamVars
    <2> QED
        BY <2>3, <2>4
<1>14. CASE WriteToc
    <2>1. PICK t \in TocSizes :
            footer' = [tocOffset |-> pos, tocFrameSize |-> 8 + t.payload,
                       tocJson |-> t.json]
        BY <1>14 DEF WriteToc
    <2>2. footer' \in [tocOffset: Int, tocFrameSize: Int, tocJson: Int]
        BY <2>1, TocAssumption DEF TypeOK
    <2>3. TypeOK'
        BY <1>14, <2>2
        DEF WriteToc, TypeOK, inVars, groupVars, streamVars, outVars
    <2>4. Layout'
        BY <1>0, <1>14 DEF WriteToc, Layout, inVars, groupVars, streamVars,
                     outVars
    <2> QED
        BY <2>3, <2>4
<1>15. CASE EntryRefused \/ StreamEnds \/ MarkerMissing \/ TocTooLarge \/ IoFails
    BY <1>15, TypeGiveUp
    DEF EntryRefused, StreamEnds, MarkerMissing, TocTooLarge, IoFails
<1>16. CASE Stopped \/ UNCHANGED vars
    BY <1>16 DEF Stopped, vars, TypeOK, Layout
<1> QED
    BY <1>1, <1>2, <1>3, <1>4, <1>5, <1>6, <1>7, <1>8, <1>9, <1>10, <1>11,
       <1>12, <1>13, <1>14, <1>15, <1>16 DEF Next, Progress

(* Type correctness of the writer, together with the order of its offsets. *)
THEOREM TypeInvariant == Spec => []TypeInv
<1> QED
    BY TypeInit, TypeNext, PTL DEF Spec

(* Every variable of the writer keeps its type. *)
THEOREM TypeCorrect == Spec => []TypeOK
<1>1. TypeInv => TypeOK
    BY DEF TypeInv
<1> QED
    BY <1>1, TypeInvariant, PTL
-----------------------------------------------------------------------------
(* What the writer puts into the archive: its frames encode the tar stream
   without gap or overlap, `pos` is the length of the output, no frame of a
   member exceeds the chunk size, and the writer implements LosslessStream. *)

Writing == {"parse", "stream", "drain", "trailer"}
Written == {"toc", "done"}

(* A step that writes no frame, and does not leave the writing phases for
   the ones in which the stream is encoded. *)
QuietStep ==
    /\ UNCHANGED <<pos, frames, inputLen>>
    /\ pc' \in Writing => pc \in Writing /\ nextChunkStart' = nextChunkStart
    /\ pc' \in Written => pc \in Written

(* A step that writes bytes [nextChunkStart, end) as one frame. *)
FrameStep(end, z) ==
    /\ pc \in Writing
    /\ end \in Nat /\ nextChunkStart < end
    /\ CompressFrame(nextChunkStart, end, z)
    /\ UNCHANGED inputLen
    /\ \/ /\ nextChunkStart' = end
          /\ pc' \in {"parse", "stream", "trailer"}
          /\ end - nextChunkStart <= ChunkSize
       \/ end = inputLen /\ pc' = "toc"

LEMMA FlushIsFrameStep ==
    ASSUME TypeInv, NEW ms, NEW g, NEW size \in Nat, Flush(ms, g, size),
           size > 0, size <= ChunkSize, pc \in Writing,
           pc' \in {"parse", "stream", "trailer"}, UNCHANGED inputLen
    PROVE  \E end, z : z \in FrameSizes /\ FrameStep(end, z)
<1>1. PICK z \in FrameSizes :
        CompressFrame(nextChunkStart, nextChunkStart + size, z)
    BY DEF Flush
<1>2. nextChunkStart' = nextChunkStart + size
    BY DEF Flush, DrainTo
<1>3. nextChunkStart \in Nat
    BY DEF TypeInv, TypeOK
<1>4. FrameStep(nextChunkStart + size, z)
    BY <1>1, <1>2, <1>3, ChunkSizeAssumption DEF FrameStep
<1> QED
    BY <1>4

LEMMA FlushGroupStep ==
    ASSUME TypeInv, NEW ms, FlushGroup(ms), pc \in {"parse", "drain"},
           pc' \in {"stream", "trailer"}, UNCHANGED inputLen
    PROVE  QuietStep \/ \E end, z : z \in FrameSizes /\ FrameStep(end, z)
<1>1. CASE group = <<>> /\ UNCHANGED outVars
    BY <1>1 DEF QuietStep, outVars, Writing, Written
<1>2. CASE group # <<>> /\ Flush(ms, group, groupSize)
    <2>1. groupSize \in Nat /\ groupSize > 0 /\ groupSize <= ChunkSize
        BY <1>2, ChunkSizeAssumption DEF TypeInv, TypeOK, Layout
    <2> QED
        BY <1>2, <2>1, FlushIsFrameStep DEF Writing
<1> QED
    BY <1>1, <1>2 DEF FlushGroup

(* Every step of the writer is of one of these two forms. *)
LEMMA OutputSteps ==
    ASSUME TypeInv, [Next]_vars
    PROVE  QuietStep \/ \E end, z : z \in FrameSizes /\ FrameStep(end, z)
<1>1. CASE ParseGlobal
    BY <1>1 DEF ParseGlobal, QuietStep, outVars, Writing, Written
<1>2. CASE JoinGroup
    BY <1>2 DEF JoinGroup, SmallMember, ParseMember, QuietStep, outVars,
                Writing, Written
<1>3. CASE JoinAndFlush
    <2>1. PICK h \in Headers :
            /\ SmallMember(h) /\ Fits(h)
            /\ groupSize + RegionSize(h) >= ChunkSize
            /\ Flush(WithMember(h, GroupDigest(h)),
                     Append(group, GroupEntry(h, groupSize)),
                     groupSize + RegionSize(h))
        BY <1>3 DEF JoinAndFlush
    <2>2. /\ pc = "parse" /\ pc' = "parse" /\ UNCHANGED inputLen
          /\ RegionSize(h) \in Nat \ {0} /\ RegionSize(h) < ChunkSize
        BY <2>1, SmallMemberFacts
    <2>3. groupSize \in Nat /\ (group = <<>> => groupSize = 0)
        BY DEF TypeInv, TypeOK, Layout
    <2>4. groupSize + RegionSize(h) <= ChunkSize
        BY <2>1, <2>2, <2>3, ChunkSizeAssumption DEF Fits
    <2>5. groupSize + RegionSize(h) \in Nat /\ groupSize + RegionSize(h) > 0
        BY <2>2, <2>3
    <2> QED
        BY <2>1, <2>2, <2>4, <2>5, FlushIsFrameStep DEF Writing
<1>4. CASE FlushThenJoin
    <2>1. PICK h \in Headers :
            /\ SmallMember(h) /\ ~Fits(h)
            /\ Flush(WithMember(h, GroupDigest(h)), group, groupSize)
        BY <1>4 DEF FlushThenJoin
    <2>2. pc = "parse" /\ pc' = "parse" /\ UNCHANGED inputLen
        BY <2>1, SmallMemberFacts
    <2>3. groupSize \in Nat /\ groupSize > 0 /\ groupSize <= ChunkSize
        BY <2>1, ChunkSizeAssumption DEF TypeInv, TypeOK, Layout, Fits
    <2> QED
        BY <2>1, <2>2, <2>3, FlushIsFrameStep DEF Writing
<1>5. CASE BeginLarge
    <2>1. PICK h \in Headers :
            ParseMember(h) /\ FlushGroup(WithMember(h, NoDigest))
        BY <1>5 DEF BeginLarge
    <2>2. pc = "parse" /\ pc' = "stream" /\ UNCHANGED inputLen
        BY <1>5, <2>1 DEF BeginLarge, ParseMember
    <2> QED
        BY <2>1, <2>2, FlushGroupStep
<1>6. CASE PushFullChunk
    <2> DEFINE end == nextChunkStart + ChunkSize
    <2>1. PICK z \in FrameSizes :
            CompressFrame(nextChunkStart, end, z) /\ DrainTo(end)
        BY <1>6 DEF PushFullChunk, PushFrame
    <2>2. /\ pc = "stream" /\ pc' = "stream" /\ UNCHANGED inputLen
          /\ nextChunkStart' = end
        BY <1>6, <2>1 DEF PushFullChunk, DrainTo
    <2>3. end \in Nat /\ nextChunkStart < end /\ end - nextChunkStart <= ChunkSize
        BY ChunkSizeAssumption DEF TypeInv, TypeOK
    <2>4. FrameStep(end, z)
        BY <2>1, <2>2, <2>3 DEF FrameStep, Writing
    <2> QED
        BY <2>4
<1>7. CASE ReadData
    BY <1>7 DEF ReadData, QuietStep, outVars, Writing, Written
<1>8. CASE CapturePadding
    BY <1>8 DEF CapturePadding, QuietStep, outVars, Writing, Written
<1>9. CASE FinishLarge
    <2> DEFINE m == [members[Len(members)] EXCEPT
                       !.digest = IF Hashed THEN content ELSE NoDigest]
    <2>1. /\ pc = "stream" /\ pc' = "parse" /\ UNCHANGED inputLen
          /\ PushRemainder(m)
        BY <1>9 DEF FinishLarge
    <2> HIDE DEF m
    <2>2. CASE UNCHANGED <<pos, frames, winBase, nextChunkStart>>
        BY <2>1, <2>2 DEF QuietStep, Writing, Written
    <2>3. CASE ~ UNCHANGED <<pos, frames, winBase, nextChunkStart>>
        <3>1. PICK z \in FrameSizes :
                /\ nextChunkStart < prevEnd
                /\ CompressFrame(nextChunkStart, prevEnd, z) /\ DrainTo(prevEnd)
            BY <2>1, <2>3 DEF PushRemainder, PushFrame
        <3>2. nextChunkStart' = prevEnd
            BY <3>1 DEF DrainTo
        <3>3. prevEnd \in Nat /\ prevEnd - nextChunkStart <= ChunkSize
            BY <1>9, ChunkSizeAssumption
            DEF FinishLarge, FullChunk, TypeInv, TypeOK, Layout
        <3>4. FrameStep(prevEnd, z)
            BY <2>1, <3>1, <3>2, <3>3 DEF FrameStep, Writing
        <3> QED
            BY <3>4
    <2> QED
        BY <2>2, <2>3
<1>10. CASE ParseEnd
    BY <1>10 DEF ParseEnd, QuietStep, outVars, Writing, Written
<1>11. CASE DrainTrailing
    BY <1>11 DEF DrainTrailing, QuietStep, outVars, Writing, Written
<1>12. CASE FlushLast
    BY <1>12, FlushGroupStep DEF FlushLast
<1>13. CASE WriteTrailer
    <2>1. PICK z \in FrameSizes :
            /\ CompressFrame(nextChunkStart, winEnd, z)
            /\ nextChunkStart < winEnd
            /\ pc = "trailer" /\ pc' = "toc" /\ UNCHANGED inputLen
        BY <1>13 DEF WriteTrailer
    <2>2. winEnd \in Nat /\ winEnd = inputLen
        BY <2>1 DEF TypeInv, TypeOK, Layout
    <2>3. FrameStep(winEnd, z)
        BY <2>1, <2>2 DEF FrameStep, Writing
    <2> QED
        BY <2>3
<1>14. CASE WriteToc
    BY <1>14 DEF WriteToc, QuietStep, inVars, outVars, Writing, Written
<1>15. CASE EntryRefused \/ StreamEnds \/ MarkerMissing \/ TocTooLarge \/ IoFails
    BY <1>15 DEF EntryRefused, StreamEnds, MarkerMissing, TocTooLarge, IoFails,
                 GiveUp, QuietStep, inVars, outVars, Writing, Written
<1>16. CASE Stopped \/ UNCHANGED vars
    BY <1>16 DEF Stopped, vars, QuietStep, Writing, Written
<1> QED
    BY <1>1, <1>2, <1>3, <1>4, <1>5, <1>6, <1>7, <1>8, <1>9, <1>10, <1>11,
       <1>12, <1>13, <1>14, <1>15, <1>16 DEF Next, Progress
-----------------------------------------------------------------------------
(* The invariant of the output. *)

OutputInv == FramesTileTar /\ PosIsOutputLength /\ FramesBounded

(* One more frame, that starts where the stream encoded so far ends. *)
LEMMA OneMoreFrame ==
    ASSUME TypeInv, TypeInv', OutputInv, NEW end, NEW z \in FrameSizes,
           FrameStep(end, z)
    PROVE  OutputInv'
<1> DEFINE f == [at |-> PhysicalEnd, size |-> z,
                 start |-> nextChunkStart, end |-> end]
           n == Len(frames)
<1>1. /\ frames \in Seq(FrameRecords) /\ n \in Nat /\ nextChunkStart \in Nat
      /\ PhysicalEnd \in Nat /\ z \in Nat /\ end \in Nat
    <2>1. frames \in Seq(FrameRecords) /\ nextChunkStart \in Nat
        BY Zenon DEF TypeInv, TypeOK
    <2>2. PhysicalEnd \in Nat
        BY <2>1, PhysicalEndType
    <2>3. z \in Nat
        BY FrameAssumption
    <2>4. end \in Nat
        BY DEF FrameStep
    <2>5. n \in Nat
        BY <2>1
    <2> QED
        BY <2>1, <2>2, <2>3, <2>4, <2>5
<1>2. frames' = Append(frames, f) /\ pos' = pos + z
    BY DEF FrameStep, CompressFrame
<1>3. RawEnd = nextChunkStart /\ pos = PhysicalEnd
    BY DEF OutputInv, FramesTileTar, PosIsOutputLength, FrameStep, Writing
<1> HIDE DEF f
<1>4. /\ Len(frames') = n + 1 /\ DOMAIN frames' = 1 .. n + 1
      /\ frames'[n + 1] = f
      /\ \A i \in 1 .. n : frames'[i] = frames[i]
      /\ frames' # <<>>
    BY <1>1, <1>2
<1>5. DOMAIN frames = 1 .. n /\ (frames = <<>> <=> n = 0)
    BY <1>1
<1>6. f.at = PhysicalEnd /\ f.size = z /\ f.start = nextChunkStart /\ f.end = end
    BY DEF f
<1>7. RawEnd' = end /\ PhysicalEnd' = PhysicalEnd + z
    BY <1>4, <1>6 DEF RawEnd, PhysicalEnd
<1>8. Tiled'
    <2> SUFFICES ASSUME NEW i \in 1 .. n + 1
                 PROVE  /\ frames'[i].start < frames'[i].end
                        /\ frames'[i].start = IF i = 1 THEN 0
                                              ELSE frames'[i - 1].end
        BY <1>4 DEF Tiled
    <2>1. CASE i \in 1 .. n
        <3>1. /\ frames[i].start < frames[i].end
              /\ frames[i].start = IF i = 1 THEN 0 ELSE frames[i - 1].end
            BY <2>1, <1>5 DEF OutputInv, FramesTileTar, Tiled
        <3>2. i # 1 => i - 1 \in 1 .. n
            BY <2>1, <1>1
        <3> QED
            BY <2>1, <3>1, <3>2, <1>4
    <2>2. CASE i = n + 1
        <3>1. f.start < f.end
            BY <1>6 DEF FrameStep
        <3>2. CASE n = 0
            BY <2>2, <3>1, <3>2, <1>3, <1>4, <1>5, <1>6 DEF RawEnd
        <3>3. CASE n # 0
            <4>1. RawEnd = frames[n].end
                BY <3>3, <1>5 DEF RawEnd
            <4>2. i # 1 /\ i - 1 = n /\ n \in 1 .. n
                BY <2>2, <3>3, <1>1
            <4> QED
                BY <2>2, <3>1, <4>1, <4>2, <1>3, <1>4, <1>6
        <3> QED
            BY <3>2, <3>3
    <2> QED
        BY <2>1, <2>2, <1>1
<1>9. Packed'
    <2> SUFFICES ASSUME NEW i \in 1 .. n + 1
                 PROVE  frames'[i].at = IF i = 1 THEN IdentitySize
                          ELSE frames'[i - 1].at + frames'[i - 1].size
        BY <1>4 DEF Packed
    <2>1. CASE i \in 1 .. n
        <3>1. frames[i].at = IF i = 1 THEN IdentitySize
                             ELSE frames[i - 1].at + frames[i - 1].size
            BY <2>1, <1>5 DEF OutputInv, PosIsOutputLength, Packed
        <3>2. i # 1 => i - 1 \in 1 .. n
            BY <2>1, <1>1
        <3> QED
            BY <2>1, <3>1, <3>2, <1>4
    <2>2. CASE i = n + 1
        <3>1. CASE n = 0
            BY <2>2, <3>1, <1>4, <1>5, <1>6 DEF PhysicalEnd
        <3>2. CASE n # 0
            <4>1. PhysicalEnd = frames[n].at + frames[n].size
                BY <3>2, <1>5 DEF PhysicalEnd
            <4>2. i # 1 /\ i - 1 = n /\ n \in 1 .. n
                BY <2>2, <3>2, <1>1
            <4> QED
                BY <2>2, <4>1, <4>2, <1>4, <1>6
        <3> QED
            BY <3>1, <3>2
    <2> QED
        BY <2>1, <2>2, <1>1
<1>10. FramesTileTar'
    BY <1>7, <1>8 DEF FrameStep, FramesTileTar
<1>11. PosIsOutputLength'
    BY <1>2, <1>3, <1>7, <1>9 DEF PosIsOutputLength
<1>12. FramesBounded'
    <2>1. groupSize' < ChunkSize
        BY DEF TypeInv, Layout
    <2> SUFFICES ASSUME NEW i \in 1 .. n + 1
                 PROVE  \/ frames'[i].end - frames'[i].start <= ChunkSize
                        \/ i = Len(frames') /\ pc' \in {"toc", "done", "failed"}
        BY <2>1, <1>4 DEF FramesBounded
    <2>2. CASE i \in 1 .. n
        <3>1. frames[i].end - frames[i].start <= ChunkSize
            BY <2>2, <1>5 DEF OutputInv, FramesBounded, FrameStep, Writing
        <3> QED
            BY <2>2, <3>1, <1>4
    <2>3. CASE i = n + 1
        BY <2>3, <1>4, <1>6 DEF FrameStep
    <2> QED
        BY <2>2, <2>3, <1>1
<1> QED
    BY <1>10, <1>11, <1>12 DEF OutputInv

LEMMA OutputInit == Init => OutputInv
<1> SUFFICES ASSUME Init PROVE OutputInv
    OBVIOUS
<1>1. frames = <<>> /\ DOMAIN frames = {}
    BY DEF Init
<1>2. Tiled /\ Packed /\ RawEnd = 0 /\ PhysicalEnd = IdentitySize
    BY <1>1 DEF Tiled, Packed, RawEnd, PhysicalEnd
<1>3. FramesTileTar /\ PosIsOutputLength
    BY <1>2 DEF Init, FramesTileTar, PosIsOutputLength
<1>4. FramesBounded
    BY <1>1, ChunkSizeAssumption DEF Init, FramesBounded
<1> QED
    BY <1>3, <1>4 DEF OutputInv

LEMMA OutputNext == TypeInv /\ OutputInv /\ [Next]_vars => OutputInv'
<1> SUFFICES ASSUME TypeInv, OutputInv, [Next]_vars PROVE OutputInv'
    OBVIOUS
<1>1. TypeInv'
    BY TypeNext
<1>2. CASE QuietStep
    <2>1. frames' = frames /\ pos' = pos /\ inputLen' = inputLen
        BY <1>2 DEF QuietStep
    <2>2. RawEnd' = RawEnd /\ PhysicalEnd' = PhysicalEnd
        BY <2>1 DEF RawEnd, PhysicalEnd
    <2>3. Tiled' /\ Packed'
        BY <2>1 DEF OutputInv, FramesTileTar, Tiled, PosIsOutputLength, Packed
    <2>4. FramesTileTar'
        BY <1>2, <2>1, <2>2, <2>3
        DEF QuietStep, OutputInv, FramesTileTar, Writing, Written
    <2>5. PosIsOutputLength'
        BY <2>1, <2>2, <2>3 DEF OutputInv, PosIsOutputLength
    <2>6. groupSize' < ChunkSize
        BY <1>1 DEF TypeInv, Layout
    <2>7. pc \in {"toc", "done", "failed"} => pc' \in {"toc", "done", "failed"}
        BY <1>1, <1>2 DEF QuietStep, Writing, TypeInv, TypeOK
    <2>8. FramesBounded'
        BY <2>1, <2>6, <2>7 DEF OutputInv, FramesBounded
    <2> QED
        BY <2>4, <2>5, <2>8 DEF OutputInv
<1>3. CASE \E end, z : z \in FrameSizes /\ FrameStep(end, z)
    BY <1>1, <1>3, OneMoreFrame
<1> QED
    BY <1>2, <1>3, OutputSteps

(* What is said of the frames put out holds in every reachable state. *)
THEOREM OutputInvariant == Spec => []OutputInv
<1>1. Init => TypeInv /\ OutputInv
    BY TypeInit, OutputInit
<1>2. TypeInv /\ OutputInv /\ [Next]_vars => (TypeInv /\ OutputInv)'
    BY TypeNext, OutputNext
<1> QED
    BY <1>1, <1>2, PTL DEF Spec

(* Decoding the frames in file order gives back the tar stream. *)
THEOREM FramesTileTarTheorem == Spec => []FramesTileTar
<1>1. OutputInv => FramesTileTar
    BY DEF OutputInv
<1> QED
    BY <1>1, OutputInvariant, PTL

(* pos, and so every offset in the TOC and the footer, is the true position
   in the output. *)
THEOREM PosTheorem == Spec => []PosIsOutputLength
<1>1. OutputInv => PosIsOutputLength
    BY DEF OutputInv
<1> QED
    BY <1>1, OutputInvariant, PTL

(* No frame that holds a member is larger than a chunk. *)
THEOREM FramesBoundedTheorem == Spec => []FramesBounded
<1>1. OutputInv => FramesBounded
    BY DEF OutputInv
<1> QED
    BY <1>1, OutputInvariant, PTL

(* The window holds all that is not yet in a frame, and the open group is
   what lies in it before prev_indexed_entry_end. *)
THEOREM WindowTheorem == Spec => []WindowHoldsPending
<1>1. TypeInv => WindowHoldsPending
    BY DEF TypeInv, Layout, WindowHoldsPending
<1> QED
    BY <1>1, TypeInvariant, PTL
-----------------------------------------------------------------------------
(* Refinement. *)

(* The footer is there exactly when wrap_with has returned Ok. *)
FooterInv == footer # NoFooter <=> pc = "done"

LEMMA FooterSteps ==
    ASSUME [Next]_vars
    PROVE  \/ WriteToc
           \/ footer' = footer /\ (pc' = "done" <=> pc = "done")
<1>1. CASE ParseGlobal \/ ReadData \/ CapturePadding
    BY <1>1 DEF ParseGlobal, ReadData, CapturePadding
<1>2. CASE JoinGroup \/ JoinAndFlush \/ FlushThenJoin
    BY <1>2 DEF JoinGroup, JoinAndFlush, FlushThenJoin, SmallMember, ParseMember
<1>3. CASE BeginLarge
    BY <1>3 DEF BeginLarge, ParseMember
<1>4. CASE PushFullChunk \/ FinishLarge
    BY <1>4 DEF PushFullChunk, FinishLarge
<1>5. CASE ParseEnd \/ DrainTrailing \/ FlushLast \/ WriteTrailer
    BY <1>5 DEF ParseEnd, DrainTrailing, FlushLast, WriteTrailer
<1>6. CASE EntryRefused \/ StreamEnds \/ MarkerMissing \/ TocTooLarge \/ IoFails
    BY <1>6 DEF EntryRefused, StreamEnds, MarkerMissing, TocTooLarge, IoFails,
                GiveUp
<1>7. CASE Stopped \/ UNCHANGED vars
    BY <1>7 DEF Stopped, vars
<1> QED
    BY <1>1, <1>2, <1>3, <1>4, <1>5, <1>6, <1>7 DEF Next, Progress

LEMMA TocSealed ==
    ASSUME TypeInv, WriteToc
    PROVE  /\ footer' # NoFooter /\ pc = "toc" /\ pc' = "done"
           /\ frames' = frames /\ inputLen' = inputLen
<1>1. PICK t \in TocSizes :
        footer' = [tocOffset |-> pos, tocFrameSize |-> 8 + t.payload,
                   tocJson |-> t.json]
    BY DEF WriteToc
<1>2. footer'.tocOffset = pos /\ pos \in Nat
    BY <1>1 DEF TypeInv, TypeOK
<1>3. footer' # NoFooter
    BY <1>2 DEF NoFooter
<1> QED
    BY <1>3 DEF WriteToc, inVars, outVars

LEMMA FooterNext == TypeInv /\ FooterInv /\ [Next]_vars => FooterInv'
<1> SUFFICES ASSUME TypeInv, FooterInv, [Next]_vars PROVE FooterInv'
    OBVIOUS
<1>1. CASE WriteToc
    BY <1>1, TocSealed DEF FooterInv
<1>2. CASE footer' = footer /\ (pc' = "done" <=> pc = "done")
    BY <1>2 DEF FooterInv, NoFooter
<1> QED
    BY <1>1, <1>2, FooterSteps

WriterInv == TypeInv /\ OutputInv /\ FooterInv

LEMMA WriterInit == Init => WriterInv
<1>1. Init => FooterInv
    BY DEF Init, FooterInv
<1> QED
    BY <1>1, TypeInit, OutputInit DEF WriterInv

LEMMA WriterNext == WriterInv /\ [Next]_vars => WriterInv'
BY TypeNext, OutputNext, FooterNext DEF WriterInv

LEMMA LosslessStep ==
    ASSUME WriterInv, WriterInv', [Next]_vars
    PROVE  [Lossless!LosslessNext]_<<inputLen, Coded, footer # NoFooter>>
<1> USE DEF WriterInv
<1>1. Coded = RawEnd /\ Coded' = RawEnd'
    BY DEF Coded, OutputInv, FramesTileTar
<1>2. CASE WriteToc
    <2>1. /\ footer' # NoFooter /\ pc = "toc"
          /\ frames' = frames /\ inputLen' = inputLen
        BY <1>2, TocSealed
    <2>2. footer = NoFooter
        BY <2>1 DEF FooterInv
    <2>3. RawEnd = inputLen /\ RawEnd' = RawEnd
        BY <2>1 DEF OutputInv, FramesTileTar, RawEnd
    <2>4. Lossless!Seal
        BY <1>1, <2>1, <2>2, <2>3 DEF Lossless!Seal, NoFooter
    <2> QED
        BY <2>4 DEF Lossless!LosslessNext
<1>3. CASE footer' = footer /\ (pc' = "done" <=> pc = "done")
    <2>1. CASE QuietStep
        <3>1. frames' = frames /\ inputLen' = inputLen
            BY <2>1 DEF QuietStep
        <3>2. RawEnd' = RawEnd
            BY <3>1 DEF RawEnd
        <3>3. (footer # NoFooter)' = (footer # NoFooter)
            BY <1>3 DEF NoFooter
        <3> QED
            BY <1>1, <3>1, <3>2, <3>3
    <2>2. ASSUME NEW end, NEW z \in FrameSizes, FrameStep(end, z)
          PROVE  Lossless!Extend
        <3>1. pc # "done" /\ pc' # "done"
            BY <2>2 DEF FrameStep, Writing
        <3>2. footer = NoFooter /\ footer' = NoFooter
            BY <3>1 DEF FooterInv
        <3>3. RawEnd = nextChunkStart
            BY <2>2 DEF FrameStep, Writing, OutputInv, FramesTileTar
        <3>4. RawEnd' = end
            <4>1. frames' = Append(frames, [at |-> PhysicalEnd, size |-> z,
                                            start |-> nextChunkStart,
                                            end |-> end])
                BY <2>2 DEF FrameStep, CompressFrame
            <4>2. frames \in Seq(FrameRecords)
                BY DEF TypeInv, TypeOK
            <4>3. /\ frames' # <<>>
                  /\ frames'[Len(frames')] = [at |-> PhysicalEnd, size |-> z,
                                              start |-> nextChunkStart,
                                              end |-> end]
                BY <4>1, <4>2
            <4> QED
                BY <4>3 DEF RawEnd
        <3>5. /\ end \in Nat /\ nextChunkStart < end /\ end <= winEnd'
              /\ inputLen' = inputLen
            BY <2>2 DEF FrameStep, CompressFrame
        <3>6. /\ winEnd' <= inputLen /\ winEnd' \in Nat /\ inputLen \in Nat
              /\ nextChunkStart \in Nat
            BY <3>5 DEF TypeInv, TypeOK, Layout
        <3>7. Coded' \in Coded + 1 .. inputLen
            BY <1>1, <3>3, <3>4, <3>5, <3>6
        <3> QED
            BY <3>2, <3>5, <3>7 DEF Lossless!Extend
    <2> QED
        BY <2>1, <2>2, OutputSteps DEF Lossless!LosslessNext
<1> QED
    BY <1>2, <1>3, FooterSteps

(* The writer implements LosslessStream. *)
THEOREM LosslessTheorem == Spec => ImplementsLossless
<1>1. Init => Lossless!LosslessInit
    <2> SUFFICES ASSUME Init PROVE Lossless!LosslessInit
        OBVIOUS
    <2>1. frames = <<>> /\ DOMAIN frames = {}
        BY DEF Init
    <2>2. Coded = 0
        BY <2>1 DEF Coded, Tiled, RawEnd
    <2> QED
        BY <2>2 DEF Init, Lossless!LosslessInit
<1>2. WriterInv /\ WriterInv' /\ [Next]_vars
        => [Lossless!LosslessNext]_<<inputLen, Coded, footer # NoFooter>>
    BY LosslessStep
<1> QED
    BY <1>1, <1>2, WriterInit, WriterNext, PTL
    DEF Spec, ImplementsLossless, Lossless!LosslessSpec
=============================================================================
