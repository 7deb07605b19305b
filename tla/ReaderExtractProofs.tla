------------------------- MODULE ReaderExtractProofs -------------------------
(***************************************************************************)
(* Theorems about an archive that has opened: what an extraction or a      *)
(* verify of its members tells, and what the info command says of it.      *)
(***************************************************************************)
EXTENDS ReaderProofs

-----------------------------------------------------------------------------
(* The inductive invariant of the loop over a member's chunks. *)

(* The content the reader looks for, and how much of it has been copied. *)
Wanted == toc[idx].tarOffset + Block
Copied == toc[idx].size - remaining

(* Byte b of the tar stream is in no damaged frame. *)
Clear(b) == \A f \in badFrames : b < frames[f].start \/ frames[f].end <= b

(* Over the writer's TOC: where the loop stands in the tar stream, and that it
   has copied the content so far. *)
OnCourse ==
    /\ k \in 1 .. Len(members[idx].chunks) + 1
    /\ remaining > 0 => ChunkAt(idx, k) + skip = Wanted + Copied
    /\ \A j \in 1 .. Copied : out[j] = Wanted + j - 1

(* Over any TOC, only bytes of intact frames have been copied. *)
LoopInv == rpc = "chunk" =>
    /\ remaining <= toc[idx].size
    /\ Len(out) = Copied
    /\ \A j \in 1 .. Copied : out[j] \in Nat /\ Clear(out[j])
    /\ toc = members => OnCourse

(* What VerifyOkMeansIntact says of one member. *)
Intact(i) ==
    /\ members[i].kind = "File" /\ members[i].digest # NoDigest
    /\ toc[i].kind = "File" /\ toc[i].digest # NoDigest
    => /\ toc[i].size = members[i].size
       /\ \A f \in badFrames :
             \/ frames[f].end <= members[i].dataStart
             \/ members[i].dataStart + members[i].size <= frames[f].start
             \/ members[i].size = 0

(* Where the verify operation began. *)
First == IF op = "verifyAll" THEN 1 ELSE until

(* No verdict so far is a mismatch. *)
Clean == \A j \in DOMAIN verdicts : verdicts[j] # "mismatch"

VerifyInv == op \in {"verifyAll", "verifyMember"} =>
    /\ idx >= First
    /\ Clean => \A i \in First .. idx - 1 : Intact(i)
    /\ rpc = "ended" /\ outcome = "ok" => idx > until /\ Clean
    /\ op = "verifyAll" => until = Len(toc)

Reading == LoopInv /\ VerifyInv /\ ExtractExact /\ DamageIsolated

ReadInv == ArchiveInv /\ Reading

(* The trailing frame: no member is in it, and it begins where they end. *)
TrailInv ==
    /\ pc = "trailer" => nextChunkStart = prevEnd
    /\ pc \in {"toc", "done"} =>
          /\ frames # <<>>
          /\ frames[Len(frames)].start = prevEnd
          /\ \A i \in DOMAIN members : \A j \in DOMAIN members[i].chunks :
                \E f \in 1 .. Len(frames) - 1 : Leads(frames, members[i].chunks[j], f)

InfoInv == ArchiveInv /\ TrailInv /\ InfoAddsUp

-----------------------------------------------------------------------------
(* Frames that are found by their place in the file, and those around them. *)

LEMMA OneFrame ==
    ASSUME NEW fs \in Seq(FrameRecords), InOrder(fs), NEW f \in DOMAIN fs,
           NEW g \in DOMAIN fs, fs[f].at = fs[g].at
    PROVE  f = g
<1>1. f \in Nat /\ g \in Nat /\ fs[f] \in FrameRecords /\ fs[g] \in FrameRecords
    OBVIOUS
<1>2. /\ f < g => fs[f].at + fs[f].size <= fs[g].at
      /\ g < f => fs[g].at + fs[g].size <= fs[f].at
      /\ fs[f].size > 0 /\ fs[g].size > 0
    BY DEF InOrder
<1>3. fs[f].at \in Nat /\ fs[f].size \in Nat /\ fs[g].size \in Nat
    BY <1>1 DEF FrameRecords
<1> QED
    BY <1>1, <1>2, <1>3

(* A range that is a frame is a run of that frame alone. *)
LEMMA OneRun ==
    ASSUME frames \in Seq(FrameRecords), InOrder(frames), NEW f \in DOMAIN frames,
           NEW c, frames[f].at = c.compressedOffset, frames[f].size = c.compressedSize
    PROVE  FrameRuns(c) = {<<f, f>>}
<1>1. <<f, f>> \in FrameRuns(c)
    <2>1. f \in Nat
        OBVIOUS
    <2>2. f <= f
        BY <2>1
    <2> QED
        BY <2>2 DEF FrameRuns
<1>2. ASSUME NEW r \in FrameRuns(c) PROVE r = <<f, f>>
    <2>1. /\ r \in (DOMAIN frames) \X (DOMAIN frames)
          /\ r[1] \in DOMAIN frames /\ r[2] \in DOMAIN frames /\ r[1] <= r[2]
          /\ frames[r[1]].at = c.compressedOffset
          /\ frames[r[2]].at + frames[r[2]].size = c.compressedOffset + c.compressedSize
        BY DEF FrameRuns
    <2>2. r[1] = f
        BY <2>1, OneFrame
    <2> DEFINE g == r[2]
    <2>3. g \in DOMAIN frames /\ f <= g /\ g \in Nat /\ f \in Nat
        BY <2>1, <2>2
    <2>4. frames[g] \in FrameRecords /\ frames[f] \in FrameRecords
        BY <2>3
    <2>5. /\ frames[g].at \in Nat /\ frames[g].size \in Nat
          /\ frames[f].at \in Nat /\ frames[f].size \in Nat
        BY <2>4 DEF FrameRecords
    <2>6. frames[g].at + frames[g].size = frames[f].at + frames[f].size
        BY <2>1
    <2>7. frames[g].size > 0 /\ (f < g => frames[f].at + frames[f].size <= frames[g].at)
        BY <2>3 DEF InOrder
    <2> HIDE DEF g
    <2>8. g = f
        BY <2>3, <2>5, <2>6, <2>7
    <2> QED
        BY <2>1, <2>2, <2>8 DEF g
<1> QED
    BY <1>1, <1>2

(* A byte that is in one frame is in no other. *)
LEMMA OtherFrame ==
    ASSUME frames \in Seq(FrameRecords), Tiled, NEW f \in DOMAIN frames,
           NEW g \in DOMAIN frames, f # g, NEW b \in Int,
           frames[f].start <= b, b < frames[f].end
    PROVE  b < frames[g].start \/ frames[g].end <= b
<1>1. /\ frames[f].start \in Nat /\ frames[f].end \in Nat
      /\ frames[g].start \in Nat /\ frames[g].end \in Nat
    <2>1. frames[f] \in FrameRecords /\ frames[g] \in FrameRecords
        OBVIOUS
    <2> QED
        BY <2>1 DEF FrameRecords
<1>2. f \in Nat /\ g \in Nat
    OBVIOUS
<1>3. CASE f < g
    <2>1. frames[f].end <= frames[g].start
        BY <1>3, FramesApart
    <2> QED
        BY <1>1, <2>1
<1>4. CASE g < f
    <2>1. frames[g].end <= frames[f].start
        BY <1>4, FramesApart
    <2> QED
        BY <1>1, <2>1
<1> QED
    BY <1>2, <1>3, <1>4

(* A byte of a run of intact frames is in no damaged frame. *)
LEMMA RunClear ==
    ASSUME frames \in Seq(FrameRecords), Tiled, badFrames \subseteq DOMAIN frames,
           NEW c, NEW r \in FrameRuns(c), Decoded(r), NEW b \in Int,
           frames[r[1]].start <= b, b < frames[r[2]].end
    PROVE  Clear(b)
<1> SUFFICES ASSUME NEW f \in badFrames PROVE b < frames[f].start \/ frames[f].end <= b
    BY DEF Clear
<1>1. r[1] \in DOMAIN frames /\ r[2] \in DOMAIN frames /\ f \in DOMAIN frames
    BY DEF FrameRuns
<1>2. r[1] \in Nat /\ r[2] \in Nat /\ f \in Nat
    BY <1>1
<1>3. f \notin r[1] .. r[2]
    BY DEF Decoded
<1>4. f < r[1] \/ r[2] < f
    BY <1>2, <1>3
<1>5. /\ frames[r[1]].start \in Nat /\ frames[r[2]].end \in Nat
      /\ frames[f].start \in Nat /\ frames[f].end \in Nat
    <2>1. /\ frames[r[1]] \in FrameRecords /\ frames[r[2]] \in FrameRecords
          /\ frames[f] \in FrameRecords
        BY <1>1
    <2> QED
        BY <2>1 DEF FrameRecords
<1>6. CASE f < r[1]
    <2>1. frames[f].end <= frames[r[1]].start
        BY <1>1, <1>6, FramesApart
    <2> QED
        BY <1>5, <2>1
<1>7. CASE r[2] < f
    <2>1. frames[r[2]].end <= frames[f].start
        BY <1>1, <1>7, FramesApart
    <2> QED
        BY <1>5, <2>1
<1> QED
    BY <1>4, <1>6, <1>7
-----------------------------------------------------------------------------
(* What is known inside the loop. *)

LEMMA LoopKnown ==
    ASSUME ArchiveInv, rpc = "chunk"
    PROVE  /\ TocInv /\ Placed(members) /\ inputLen \in InputLens /\ pc = "done"
           /\ toc \in LoadedTocs
           /\ idx \in DOMAIN members /\ DOMAIN toc = DOMAIN members
           /\ toc[idx] \in MemberRecords /\ members[idx] \in MemberRecords
           /\ toc[idx].digest \in {members[idx].digest, NoDigest, WrongDigest}
           /\ Extractable(idx) /\ outcome = "none"
           /\ k \in Nat /\ k >= 1 /\ skip \in Nat /\ remaining \in Nat
           /\ out \in Seq(Nat \cup {WrongByte})
           /\ frames \in Seq(FrameRecords) /\ Tiled /\ InOrder(frames)
           /\ badFrames \subseteq DOMAIN frames
<1>1. /\ TocInv /\ Placed(members) /\ inputLen \in InputLens /\ pc = "done"
      /\ toc \in LoadedTocs
      /\ toc \in Seq(MemberRecords) /\ frames \in Seq(FrameRecords)
      /\ outcome = "none" /\ ReaderTypeOK /\ Begun
    BY Known
<1>2. /\ k \in Nat /\ skip \in Nat /\ remaining \in Nat
      /\ out \in Seq(Nat \cup {WrongByte}) /\ badFrames \subseteq DOMAIN frames
      /\ idx \in DOMAIN toc /\ Extractable(idx) /\ k >= 1
    BY <1>1 DEF ReaderTypeOK, Begun
<1>3. /\ DOMAIN toc = DOMAIN members
      /\ \A i \in DOMAIN members :
            toc[i].digest \in {members[i].digest, NoDigest, WrongDigest}
    BY <1>1, LoadedFacts
<1>4. Tiled /\ InOrder(frames) /\ members \in Seq(MemberRecords)
    BY <1>1, Complete
<1>5. toc[idx] \in MemberRecords /\ members[idx] \in MemberRecords
    BY <1>1, <1>2, <1>3, <1>4
<1> QED
    BY <1>1, <1>2, <1>3, <1>4, <1>5

(* The sizes in the entry at hand. *)
LEMMA ChunkKnown ==
    ASSUME ArchiveInv, InLoop
    PROVE  /\ CurrentChunk \in ChunkRecords
           /\ CurrentChunk.uncompressedSize \in Nat /\ CurrentChunk.frameOffset \in Nat
           /\ toc[idx].size \in Nat /\ toc[idx].tarOffset \in Nat
           /\ remaining \in Nat /\ remaining > 0 /\ skip \in Nat
<1>1. rpc = "chunk" /\ k <= Len(toc[idx].chunks) /\ remaining > 0
    BY DEF InLoop
<1>2. toc[idx] \in MemberRecords /\ k \in Nat /\ k >= 1 /\ remaining \in Nat /\ skip \in Nat
    BY <1>1, LoopKnown
<1>3. /\ toc[idx].chunks \in Seq(ChunkRecords)
      /\ toc[idx].size \in Nat /\ toc[idx].tarOffset \in Nat
    BY <1>2 DEF MemberRecords
<1>4. k \in 1 .. Len(toc[idx].chunks)
    BY <1>1, <1>2, <1>3
<1>5. CurrentChunk \in ChunkRecords
    BY <1>3, <1>4 DEF CurrentChunk
<1> QED
    BY <1>1, <1>2, <1>3, <1>5 DEF ChunkRecords

(* The frame that the writer's chunk points at holds the chunk. *)
LEMMA RightFrame ==
    ASSUME ArchiveInv, InLoop, toc = members
    PROVE  LET c == CurrentChunk IN
           /\ k \in 1 .. Len(members[idx].chunks)
           /\ ChunkAt(idx, k) \in Nat
           /\ ChunkAt(idx, k + 1) = ChunkAt(idx, k) + c.uncompressedSize
           /\ \E f \in DOMAIN frames :
                 /\ f = FrameOf(c) /\ FrameRuns(c) = {<<f, f>>}
                 /\ frames[f].start \in Nat /\ frames[f].end \in Nat
                 /\ ChunkAt(idx, k) + c.uncompressedSize <= frames[f].end
                 /\ skip < c.uncompressedSize
                       => ContentFrom(<<f, f>>) = ChunkAt(idx, k) + skip
<1> DEFINE c == members[idx].chunks[k]
<1>1. rpc = "chunk" /\ k <= Len(members[idx].chunks) /\ CurrentChunk = c
    BY DEF InLoop, CurrentChunk
<1>2. /\ TocInv /\ inputLen \in InputLens /\ pc = "done" /\ idx \in DOMAIN members
      /\ frames \in Seq(FrameRecords) /\ InOrder(frames)
      /\ k \in Nat /\ k >= 1 /\ skip \in Nat
    BY <1>1, LoopKnown
<1>3. /\ Len(members[idx].chunks) \in Nat
      /\ \A j \in 1 .. Len(members[idx].chunks) :
            /\ \E f \in DOMAIN frames : Leads(frames, members[idx].chunks[j], f)
            /\ StartIn(frames, members[idx].chunks[j]) = ChunkAt(idx, j)
            /\ ChunkAt(idx, j + 1) = ChunkAt(idx, j) + members[idx].chunks[j].uncompressedSize
            /\ ChunkAt(idx, j) \in Nat
    BY <1>2, MemberChunks
<1>4. k \in 1 .. Len(members[idx].chunks)
    BY <1>1, <1>2, <1>3
<1>5. /\ \E f \in DOMAIN frames : Leads(frames, c, f)
      /\ StartIn(frames, c) = ChunkAt(idx, k)
      /\ ChunkAt(idx, k + 1) = ChunkAt(idx, k) + c.uncompressedSize
      /\ ChunkAt(idx, k) \in Nat
    BY <1>3, <1>4
<1>6. c.uncompressedSize \in Nat /\ c.frameOffset \in Nat
    BY <1>1, ChunkKnown
<1> HIDE DEF c
<1>7. PICK f \in DOMAIN frames : Leads(frames, c, f)
    BY <1>5
<1>8. /\ frames[f].at = c.compressedOffset /\ frames[f].size = c.compressedSize
      /\ frames[f].start + c.frameOffset + c.uncompressedSize <= frames[f].end
    BY <1>7 DEF Leads
<1>9. StartIn(frames, c) = frames[f].start + c.frameOffset
    BY <1>2, <1>8, FoundIn
<1>10. \A g \in DOMAIN frames : frames[g].at = c.compressedOffset => g = f
    BY <1>2, <1>8, OneFrame
<1>11. f = FrameOf(c)
    BY <1>8, <1>10 DEF FrameOf
<1>12. FrameRuns(c) = {<<f, f>>}
    BY <1>2, <1>8, OneRun
<1>13. frames[f].start \in Nat /\ frames[f].end \in Nat /\ frames[f].end < Word
    <2>1. frames[f] \in FrameRecords
        BY <1>2
    <2> QED
        BY <1>2, <2>1, OffsetsFit DEF FrameRecords
<1>14. ChunkAt(idx, k) + c.uncompressedSize <= frames[f].end
    BY <1>5, <1>8, <1>9
<1>15. ASSUME skip < c.uncompressedSize
       PROVE  ContentFrom(<<f, f>>) = ChunkAt(idx, k) + skip
    <2> DEFINE o == c.frameOffset
               u == c.uncompressedSize
               start == frames[f].start
               end == frames[f].end
    <2>1. /\ o \in Nat /\ u \in Nat /\ start \in Nat /\ end \in Nat
          /\ start + o + u <= end /\ end < Word /\ skip < u
        BY <1>6, <1>8, <1>13, <1>15
    <2>2. ContentFrom(<<f, f>>) = start + ((o + skip) % Word)
        BY <1>1 DEF ContentFrom
    <2>3. ChunkAt(idx, k) = start + o
        BY <1>5, <1>9
    <2> HIDE DEF o, u, start, end
    <2>4. o + skip \in Nat /\ o + skip < Word
        BY <1>2, <2>1, WordAssumption
    <2>5. (o + skip) % Word = o + skip
        BY <2>4, WordAssumption
    <2> QED
        BY <1>2, <2>1, <2>2, <2>3, <2>5
<1> QED
    BY <1>1, <1>4, <1>5, <1>11, <1>12, <1>13, <1>14, <1>15
-----------------------------------------------------------------------------
(* The loop keeps its invariant. *)

LEMMA ChunkAtSame ==
    ASSUME UNCHANGED vars
    PROVE  ChunkAt(idx, k)' = ChunkAt(idx', k')
BY DEF ChunkAt, StartIn, FrameIn, Before, vars

LEMMA ClearSame ==
    ASSUME UNCHANGED <<vars, badFrames>>, NEW b
    PROVE  Clear(b)' <=> Clear(b)
BY DEF Clear, vars

LEMMA LoopBegins ==
    ASSUME ArchiveInv, rpc \in {"idle", "verify"}, NEW i \in DOMAIN toc, Locate(i),
           idx' = i, UNCHANGED <<vars, badFrames, toc>>
    PROVE  LoopInv'
<1>1. /\ TocInv /\ Placed(members) /\ inputLen \in InputLens /\ pc = "done"
      /\ toc \in LoadedTocs /\ toc \in Seq(MemberRecords)
    BY Known
<1>2. toc = members => skip' = toc[i].tarOffset + Block - Before(members, i)
    BY <1>1, Located
<1>3. /\ k' = 1 /\ out' = <<>> /\ remaining' = toc[i].size /\ toc[i].chunks # <<>>
    BY DEF Locate, Extractable
<1>4. /\ toc[i].chunks \in Seq(ChunkRecords) /\ toc[i].size \in Nat
      /\ toc[i].tarOffset \in Nat
    <2>1. toc[i] \in MemberRecords
        BY <1>1
    <2> QED
        BY <2>1 DEF MemberRecords
<1>5. 1 \in 1 .. Len(toc[i].chunks) + 1
    BY <1>4
<1>6. ChunkAt(idx, k)' = Before(members, i)
    BY <1>3, ChunkAtSame DEF ChunkAt
<1>7. Copied' = 0 /\ Wanted' = toc[i].tarOffset + Block
    <2>1. Wanted' = toc[i].tarOffset + Block
        BY DEF Wanted
    <2>2. Copied' = toc[i].size - toc[i].size
        BY <1>3 DEF Copied
    <2> QED
        BY <1>4, <2>1, <2>2
<1>8. \A j \in 1 .. Copied' : FALSE
    BY <1>7
<1>9. ASSUME toc = members PROVE OnCourse'
    <2>1. Before(members, i) \in Nat
        <3>1. i \in 1 .. Len(members) + 1
            BY <1>1, <1>9
        <3> QED
            BY <1>1, <1>9, <3>1, BeforeType
    <2>2. ChunkAt(idx, k)' + skip' = Wanted' + Copied'
        BY <1>2, <1>4, <1>6, <1>7, <1>9, <2>1, BlockAssumption
    <2>3. k' \in 1 .. Len(members'[idx'].chunks) + 1
        BY <1>3, <1>5, <1>9 DEF vars
    <2> QED
        BY <1>8, <2>2, <2>3 DEF OnCourse
<1>10. Len(out)' = Copied' /\ remaining' <= toc[i].size
    BY <1>3, <1>4, <1>7
<1> QED
    BY <1>8, <1>9, <1>10 DEF LoopInv, vars

LEMMA LoopSkips ==
    ASSUME ArchiveInv, LoopInv, SkipChunk, UNCHANGED vars
    PROVE  LoopInv'
<1> DEFINE u == CurrentChunk.uncompressedSize
<1>1. /\ InLoop /\ skip >= u /\ skip' = skip - u /\ k' = k + 1
      /\ UNCHANGED <<badFrames, toc, rpc, idx, remaining, out>>
    BY DEF SkipChunk
<1>2. rpc = "chunk" /\ remaining > 0
    BY <1>1 DEF InLoop
<1>3. u \in Nat /\ skip \in Nat /\ toc[idx].size \in Nat /\ toc[idx].tarOffset \in Nat
      /\ remaining \in Nat
    BY <1>1, ChunkKnown
<1>4. /\ remaining <= toc[idx].size /\ Len(out) = Copied
      /\ \A j \in 1 .. Copied : out[j] \in Nat /\ Clear(out[j])
      /\ toc = members => OnCourse
    BY <1>2 DEF LoopInv
<1>5. Wanted' = Wanted /\ Copied' = Copied
    BY <1>1 DEF Wanted, Copied
<1>6. Wanted \in Nat /\ Copied \in Int
    BY <1>3, BlockAssumption DEF Wanted, Copied
<1>7. \A j : Clear(out[j])' <=> Clear(out[j])
    BY <1>1 DEF Clear, vars
<1>8. ASSUME toc = members PROVE OnCourse'
    <2>1. /\ k \in 1 .. Len(members[idx].chunks) /\ ChunkAt(idx, k) \in Nat
          /\ ChunkAt(idx, k + 1) = ChunkAt(idx, k) + u
        BY <1>1, <1>8, RightFrame
    <2>2. Len(members[idx].chunks) \in Nat
        BY <1>2, <1>8, LoopKnown, MemberChunks
    <2>3. ChunkAt(idx, k)' = ChunkAt(idx, k) + u
        BY <1>1, <2>1, ChunkAtSame
    <2> HIDE DEF u
    <2>4. ChunkAt(idx, k) + skip = Wanted + Copied
        BY <1>2, <1>4, <1>8 DEF OnCourse
    <2>5. ChunkAt(idx, k)' + skip' = Wanted' + Copied'
        BY <1>1, <1>3, <1>5, <1>6, <2>1, <2>3, <2>4
    <2>6. k' \in 1 .. Len(members[idx].chunks) + 1
        BY <1>1, <2>1, <2>2
    <2> QED
        BY <1>1, <1>4, <1>5, <1>8, <2>5, <2>6 DEF OnCourse, vars
<1> QED
    BY <1>1, <1>4, <1>5, <1>7, <1>8 DEF LoopInv, vars

(* What is copied: bytes of intact frames, and over the writer's TOC the next
   bytes of the content. *)
LEMMA LoopCopies ==
    ASSUME ArchiveInv, LoopInv, CopyChunk, UNCHANGED vars
    PROVE  LoopInv'
<1> DEFINE u == CurrentChunk.uncompressedSize
           n == Take
<1>1. /\ InLoop /\ skip < u
      /\ remaining' = remaining - n /\ skip' = 0 /\ k' = k + 1
      /\ UNCHANGED <<badFrames, toc, rpc, idx>>
    BY DEF CopyChunk
<1>2. PICK r \in FrameRuns(CurrentChunk) :
         /\ Decoded(r)
         /\ ContentFrom(r) + n <= frames[r[2]].end
         /\ out' = out \o [j \in 1 .. n |-> ContentFrom(r) + j - 1]
    BY DEF CopyChunk
<1>3. rpc = "chunk" /\ remaining > 0
    BY <1>1 DEF InLoop
<1>4. /\ frames \in Seq(FrameRecords) /\ Tiled
      /\ out \in Seq(Nat \cup {WrongByte}) /\ badFrames \subseteq DOMAIN frames
    BY <1>3, LoopKnown
<1>5. /\ u \in Nat /\ skip \in Nat /\ CurrentChunk.frameOffset \in Nat
      /\ remaining \in Nat
      /\ toc[idx].size \in Nat /\ toc[idx].tarOffset \in Nat
    BY <1>1, ChunkKnown
<1>6. /\ remaining <= toc[idx].size /\ Len(out) = Copied
      /\ \A j \in 1 .. Copied : out[j] \in Nat /\ Clear(out[j])
      /\ toc = members => OnCourse
    BY <1>3 DEF LoopInv
<1>7. Copied \in Nat /\ Wanted \in Nat /\ Wanted' = Wanted
    <2>1. Copied \in Nat
        BY <1>5, <1>6 DEF Copied
    <2>2. Wanted \in Nat
        BY <1>5, BlockAssumption DEF Wanted
    <2>3. Wanted' = Wanted
        BY <1>1 DEF Wanted
    <2> QED
        BY <2>1, <2>2, <2>3
<1>8. /\ n \in Nat /\ n >= 1 /\ n <= remaining /\ skip + n <= u
      /\ n = remaining \/ skip + n = u
    <2>1. n = IF u - skip < remaining THEN u - skip ELSE remaining
        BY DEF Take, Lesser
    <2> HIDE DEF u, n
    <2> QED
        BY <1>1, <1>3, <1>5, <2>1
<1>9. Copied' = Copied + n
    BY <1>1, <1>5, <1>8 DEF Copied
<1>10. /\ frames[r[1]].start \in Nat /\ frames[r[2]].end \in Nat
       /\ r[1] \in DOMAIN frames /\ r[2] \in DOMAIN frames
    <2>1. r[1] \in DOMAIN frames /\ r[2] \in DOMAIN frames
        BY DEF FrameRuns
    <2>2. frames[r[1]] \in FrameRecords /\ frames[r[2]] \in FrameRecords
        BY <1>4, <2>1
    <2> QED
        BY <2>1, <2>2 DEF FrameRecords
<1>11. ContentFrom(r) \in Nat /\ frames[r[1]].start <= ContentFrom(r)
    <2> DEFINE o == CurrentChunk.frameOffset + skip
    <2>1. o \in Nat
        BY <1>5
    <2>2. ContentFrom(r) = frames[r[1]].start + (o % Word)
        BY DEF ContentFrom
    <2> HIDE DEF o
    <2>3. o % Word \in Nat
        BY <2>1, WordAssumption
    <2> QED
        BY <1>10, <2>2, <2>3
<1> HIDE DEF u, n
<1>12. /\ Len(out') = Copied + n
       /\ \A j \in 1 .. Copied : out'[j] = out[j]
       /\ \A j \in Copied + 1 .. Copied + n : out'[j] = ContentFrom(r) + (j - Copied) - 1
    <2> DEFINE s == [j \in 1 .. n |-> ContentFrom(r) + j - 1]
    <2>1. \A j \in 1 .. n : ContentFrom(r) + j - 1 \in Nat
        BY <1>8, <1>11
    <2>2. s \in Seq(Nat \cup {WrongByte}) /\ Len(s) = n
        BY <1>8, <2>1
    <2> DEFINE S == Nat \cup {WrongByte}
    <2>3. \A j \in Copied + 1 .. Copied + n : j - Copied \in 1 .. n
        BY <1>7, <1>8
    <2>4. \A j \in 1 .. n : s[j] = ContentFrom(r) + j - 1
        OBVIOUS
    <2>5. out' = out \o s
        BY <1>2
    <2>6. s \in Seq(S) /\ out \in Seq(S)
        BY <1>4, <2>2
    <2> HIDE DEF s, S
    <2>7. /\ Len(out \o s) = Len(out) + Len(s)
          /\ \A j \in 1 .. Len(out) : (out \o s)[j] = out[j]
          /\ \A j \in Len(out) + 1 .. Len(out) + Len(s) :
                (out \o s)[j] = s[j - Len(out)]
        BY <2>6, ConcatFacts
    <2>8. Len(out) = Copied /\ Len(s) = n
        BY <1>6, <2>2
    <2> QED
        BY <2>3, <2>4, <2>5, <2>7, <2>8
<1>13. remaining' \in Nat /\ remaining' <= toc[idx].size
    <2>1. remaining' \in Nat /\ remaining' <= remaining
        BY <1>1, <1>5, <1>8
    <2> QED
        BY <1>5, <1>6, <2>1
<1>14. ASSUME NEW j \in Copied + 1 .. Copied + n
       PROVE  out'[j] \in Nat /\ Clear(out'[j])
    <2> DEFINE b == ContentFrom(r) + (j - Copied) - 1
    <2>1. out'[j] = b
        BY <1>12
    <2>2. j - Copied \in Nat /\ 1 <= j - Copied /\ j - Copied <= n
        BY <1>7, <1>8
    <2>3. b \in Nat /\ ContentFrom(r) <= b /\ b < ContentFrom(r) + n
        BY <1>8, <1>11, <2>2
    <2>4. frames[r[1]].start <= b /\ b < frames[r[2]].end
        <3> DEFINE lo == frames[r[1]].start
                   hi == frames[r[2]].end
                   from == ContentFrom(r)
                   to == ContentFrom(r) + n
        <3>1. /\ lo \in Nat /\ hi \in Nat /\ from \in Nat /\ to \in Nat /\ b \in Nat
              /\ lo <= from /\ from <= b /\ b < to /\ to <= hi
            BY <1>2, <1>8, <1>10, <1>11, <2>3
        <3>2. lo <= b /\ b < hi
            <4> HIDE DEF lo, hi, from, to, b
            <4> QED
                BY <3>1
        <3> QED
            BY <3>2
    <2> HIDE DEF b
    <2>5. Clear(b)
        BY <1>2, <1>4, <2>3, <2>4, RunClear
    <2> QED
        BY <2>1, <2>3, <2>5
<1>15. ASSUME NEW j \in 1 .. Copied'
       PROVE  out'[j] \in Nat /\ Clear(out[j])'
    <2>1. Clear(out[j])' <=> Clear(out'[j])
        BY <1>1 DEF Clear, vars
    <2>2. CASE j \in 1 .. Copied
        BY <1>6, <1>12, <2>1, <2>2
    <2>3. CASE j \in Copied + 1 .. Copied + n
        BY <1>14, <2>1, <2>3
    <2> QED
        BY <1>7, <1>8, <1>9, <2>2, <2>3
<1>16. ASSUME toc = members PROVE OnCourse'
    <2>1. /\ k \in 1 .. Len(members[idx].chunks) /\ ChunkAt(idx, k) \in Nat
          /\ ChunkAt(idx, k + 1) = ChunkAt(idx, k) + u
        BY <1>1, <1>16, RightFrame DEF u
    <2>2. PICK f \in DOMAIN frames :
             /\ FrameRuns(CurrentChunk) = {<<f, f>>}
             /\ ContentFrom(<<f, f>>) = ChunkAt(idx, k) + skip
        BY <1>1, <1>16, RightFrame DEF u
    <2>3. r = <<f, f>>
        BY <2>2
    <2>4. Len(members[idx].chunks) \in Nat
        BY <1>3, <1>16, LoopKnown, MemberChunks
    <2>5. ChunkAt(idx, k)' = ChunkAt(idx, k) + u
        BY <1>1, <2>1, ChunkAtSame
    <2>6. /\ ChunkAt(idx, k) + skip = Wanted + Copied
          /\ \A j \in 1 .. Copied : out[j] = Wanted + j - 1
        BY <1>3, <1>6, <1>16 DEF OnCourse
    <2>7. ContentFrom(r) = Wanted + Copied
        BY <2>2, <2>3, <2>6
    <2>8. k' \in 1 .. Len(members[idx].chunks) + 1
        BY <1>1, <2>1, <2>4
    <2>9. remaining' > 0 => ChunkAt(idx, k)' + skip' = Wanted' + Copied'
        <3> SUFFICES ASSUME remaining' > 0 PROVE ChunkAt(idx, k)' + skip' = Wanted' + Copied'
            OBVIOUS
        <3> DEFINE at == ChunkAt(idx, k)
                   next == ChunkAt(idx, k)'
                   done == Copied'
                   from == Wanted'
        <3>1. remaining' = remaining - n /\ skip' = 0
            BY <1>1
        <3>2. skip + n = u
            BY <1>5, <1>8, <3>1
        <3>3. next = at + u /\ at + skip = Wanted + Copied /\ done = Copied + n
              /\ from = Wanted /\ at \in Nat
            BY <1>7, <1>9, <2>1, <2>5, <2>6
        <3>4. skip \in Nat /\ u \in Nat /\ Copied \in Nat /\ Wanted \in Nat
            BY <1>5, <1>7
        <3> HIDE DEF at, next, done, from
        <3>5. next = from + done
            BY <1>8, <3>2, <3>3, <3>4
        <3>6. next + skip' = from + done
            BY <1>8, <3>1, <3>3, <3>4, <3>5
        <3> QED
            BY <3>6 DEF next, from, done
    <2>10. ASSUME NEW j \in 1 .. Copied + n PROVE out'[j] = Wanted + j - 1
        <3>1. CASE j \in 1 .. Copied
            BY <1>12, <2>6, <3>1
        <3>2. CASE j \in Copied + 1 .. Copied + n
            BY <1>7, <1>8, <1>12, <2>7, <3>2
        <3> QED
            BY <1>7, <1>8, <3>1, <3>2
    <2> QED
        BY <1>1, <1>7, <1>9, <1>16, <2>8, <2>9, <2>10 DEF OnCourse, vars
<1> QED
    BY <1>1, <1>9, <1>12, <1>13, <1>15, <1>16 DEF LoopInv, vars
-----------------------------------------------------------------------------
(* How an extraction ends. *)

LEMMA CopiedWhole ==
    ASSUME ArchiveInv, LoopInv, LoopDone, toc = members
    PROVE  out = ContentOf(members[idx])
<1> DEFINE m == members[idx]
<1>1. rpc = "chunk" /\ remaining = 0
    BY DEF LoopDone
<1>2. /\ idx \in DOMAIN members /\ m \in MemberRecords /\ Placed(members)
      /\ Extractable(idx) /\ out \in Seq(Nat \cup {WrongByte})
    BY <1>1, LoopKnown
<1>3. m.size \in Nat /\ m.tarOffset \in Nat
    BY <1>2 DEF MemberRecords
<1>4. Copied = m.size /\ Wanted = m.tarOffset + Block
    BY <1>1, <1>3 DEF Copied, Wanted
<1>5. m.dataStart = Wanted
    BY <1>2, <1>4 DEF Placed, Extractable
<1>6. Len(out) = m.size /\ OnCourse
    BY <1>1, <1>4 DEF LoopInv
<1>7. \A j \in 1 .. m.size : out[j] = m.dataStart + j - 1
    BY <1>4, <1>5, <1>6 DEF OnCourse
<1> HIDE DEF m
<1>8. out = [j \in 1 .. Len(out) |-> out[j]]
    BY <1>2
<1> QED
    BY <1>6, <1>7, <1>8 DEF ContentOf, m

LEMMA FailureExplained ==
    ASSUME ArchiveInv, LoopInv, ChunkFails, toc = members
    PROVE  \E j \in DOMAIN members[idx].chunks :
              FrameOf(members[idx].chunks[j]) \in badFrames
<1> DEFINE u == CurrentChunk.uncompressedSize
<1>1. InLoop
    BY DEF ChunkFails
<1>2. k \in 1 .. Len(members[idx].chunks) /\ ChunkAt(idx, k) \in Nat
    BY <1>1, RightFrame
<1>3. PICK f \in DOMAIN frames :
         /\ f = FrameOf(CurrentChunk) /\ FrameRuns(CurrentChunk) = {<<f, f>>}
         /\ frames[f].end \in Nat
         /\ ChunkAt(idx, k) + u <= frames[f].end
         /\ skip < u => ContentFrom(<<f, f>>) = ChunkAt(idx, k) + skip
    BY <1>1, RightFrame
<1>4. skip \in Nat /\ remaining \in Nat /\ u \in Nat
    BY <1>1, ChunkKnown
<1>5. f \in badFrames
    <2>1. CASE \A r \in FrameRuns(CurrentChunk) : ~Decoded(r)
        <3>1. ~Decoded(<<f, f>>)
            BY <1>3, <2>1
        <3>2. PICK g \in f .. f : g \in badFrames
            BY <3>1 DEF Decoded
        <3>3. f \in Nat
            <4>1. frames \in Seq(FrameRecords)
                BY <1>1, LoopKnown DEF InLoop
            <4> QED
                BY <4>1
        <3>4. g = f
            BY <3>2, <3>3
        <3> QED
            BY <3>2, <3>4
    <2>2. CASE \E r \in FrameRuns(CurrentChunk) :
                 /\ skip < CurrentChunk.uncompressedSize
                 /\ ContentFrom(r) + Take > frames[r[2]].end
        <3>1. skip < u /\ ContentFrom(<<f, f>>) + Take > frames[f].end
            BY <1>3, <2>2
        <3>2. Take = IF u - skip < remaining THEN u - skip ELSE remaining
            BY DEF Take, Lesser
        <3> HIDE DEF u
        <3>3. Take \in Nat /\ skip + Take <= u
            BY <1>4, <3>1, <3>2
        <3> QED
            BY <1>2, <1>3, <1>4, <3>1, <3>3
    <2> QED
        BY <2>1, <2>2 DEF ChunkFails
<1>6. k \in DOMAIN members[idx].chunks
    <2>1. members[idx].chunks \in Seq(ChunkRecords)
        <3>1. members[idx] \in MemberRecords
            BY <1>1, LoopKnown DEF InLoop
        <3> QED
            BY <3>1 DEF MemberRecords
    <2> QED
        BY <1>2, <2>1
<1> QED
    BY <1>3, <1>5, <1>6 DEF CurrentChunk

LEMMA NeverTruncated ==
    ASSUME ArchiveInv, LoopInv, DataMissing, toc = members
    PROVE  FALSE
<1> DEFINE m == members[idx]
           n == Len(m.chunks)
<1>1. rpc = "chunk" /\ remaining > 0 /\ k > n
    BY DEF DataMissing
<1>2. /\ TocInv /\ pc = "done" /\ Placed(members) /\ idx \in DOMAIN members
      /\ m \in MemberRecords /\ Extractable(idx) /\ remaining \in Nat /\ skip \in Nat
    BY <1>1, LoopKnown
<1>3. ChunkAt(idx, n + 1) = m.entryEnd /\ n \in Nat
    BY <1>2, MemberChunks
<1>4. /\ m.dataStart \in Nat /\ m.size \in Nat /\ m.entryEnd \in Nat
      /\ m.tarOffset \in Nat
    BY <1>2 DEF MemberRecords
<1>5. /\ m.dataStart = m.tarOffset + Block
      /\ m.dataStart + m.size <= m.entryEnd
    BY <1>2 DEF Placed, Extractable
<1>6. k \in 1 .. n + 1 /\ ChunkAt(idx, k) + skip = Wanted + Copied
    BY <1>1 DEF LoopInv, OnCourse
<1>7. k = n + 1
    BY <1>1, <1>3, <1>6
<1>8. Wanted = m.dataStart /\ Copied = m.size - remaining
    BY <1>5 DEF Wanted, Copied
<1> HIDE DEF m, n
<1>9. m.entryEnd + skip = m.dataStart + m.size - remaining
    BY <1>3, <1>6, <1>7, <1>8
<1> QED
    BY <1>1, <1>2, <1>4, <1>5, <1>9
-----------------------------------------------------------------------------
(* What a matching digest tells. *)

(* The numbers of an interval in their order are as many as the interval has. *)
LEMMA WholeInterval ==
    ASSUME NEW s, NEW n \in Nat, NEW a \in Nat, NEW size \in Nat,
           DOMAIN s = 1 .. n, \A j \in 1 .. n : s[j] \in Nat,
           {s[j] : j \in DOMAIN s} = a .. a + size - 1,
           \A i, j \in DOMAIN s : i < j => s[i] < s[j]
    PROVE  n = size
<1> DEFINE T == a .. a + size - 1
           g == [j \in 1 .. n |-> s[j]]
<1>1. \A j \in 1 .. n : g[j] \in T
    OBVIOUS
<1>2. \A b \in T : \E j \in 1 .. n : g[j] = b
    <2> SUFFICES ASSUME NEW b \in T PROVE \E j \in 1 .. n : g[j] = b
        OBVIOUS
    <2>1. b \in {s[j] : j \in DOMAIN s}
        OBVIOUS
    <2> QED
        BY <2>1
<1>3. ASSUME NEW i \in 1 .. n, NEW j \in 1 .. n, g[i] = g[j] PROVE i = j
    <2>1. s[i] = s[j] /\ s[i] \in Nat
        BY <1>3
    <2>2. (i < j => s[i] < s[j]) /\ (j < i => s[j] < s[i])
        OBVIOUS
    <2>3. ~(i < j) /\ ~(j < i)
        BY <2>1, <2>2
    <2> QED
        BY <2>3
<1> HIDE DEF T
<1>4. g \in [1 .. n -> T]
    BY <1>1
<1>5. g \in Surjection(1 .. n, T) /\ g \in Injection(1 .. n, T)
    <2>1. g \in Surjection(1 .. n, T)
        BY <1>2, <1>4 DEF Surjection
    <2>2. g \in Injection(1 .. n, T)
        BY <1>3, <1>4 DEF Injection, IsInjective
    <2> QED
        BY <2>1, <2>2
<1> HIDE DEF g
<1>6. IsFiniteSet(1 .. n) /\ Cardinality(1 .. n) = n
    BY FS_Interval
<1>7. Cardinality(T) = n
    BY <1>5, <1>6, FS_Surjection
<1>8. Cardinality(T) = size
    <2>1. a \in Int /\ a + size - 1 \in Int
        OBVIOUS
    <2> DEFINE b == a + size - 1
               card == Cardinality(T)
    <2>2. card = IF a > b THEN 0 ELSE b - a + 1
        BY <2>1, FS_Interval DEF T
    <2> HIDE DEF card
    <2>3. card = size
        BY <2>2
    <2> QED
        BY <2>3 DEF card
<1> QED
    BY <1>7, <1>8

LEMMA DigestTells ==
    ASSUME ArchiveInv, LoopInv, LoopDone, HashesTo(out, toc[idx].digest)
    PROVE  Intact(idx)
<1> DEFINE a == toc[idx]
           m == members[idx]
<1>1. rpc = "chunk" /\ remaining = 0
    BY DEF LoopDone
<1>2. /\ idx \in DOMAIN members /\ a \in MemberRecords /\ m \in MemberRecords
      /\ a.digest \in {m.digest, NoDigest, WrongDigest} /\ TocInv /\ pc = "done"
      /\ out \in Seq(Nat \cup {WrongByte})
    BY <1>1, LoopKnown
<1> SUFFICES ASSUME m.kind = "File", m.digest # NoDigest, a.digest # NoDigest
             PROVE  /\ a.size = m.size
                    /\ \A f \in badFrames :
                          \/ frames[f].end <= m.dataStart
                          \/ m.dataStart + m.size <= frames[f].start
                          \/ m.size = 0
    BY DEF Intact
<1>3. a.size \in Nat /\ m.size \in Nat /\ m.dataStart \in Nat
    BY <1>2 DEF MemberRecords
<1>4. m.digest = m.dataStart .. m.dataStart + m.size - 1
    <2>1. Digested(members, Len(members)) /\ members \in Seq(MemberRecords)
        BY <1>2, Complete
    <2>2. m.digest = Expected(m)
        BY <1>2, <2>1 DEF Digested
    <2> QED
        BY <2>2 DEF Expected
<1>5. /\ DOMAIN out = 1 .. a.size
      /\ \A j \in 1 .. a.size : out[j] \in Nat /\ Clear(out[j])
    <2>1. Copied = a.size
        BY <1>1, <1>3 DEF Copied
    <2> QED
        BY <1>1, <1>2, <2>1 DEF LoopInv
<1>6. /\ {out[j] : j \in DOMAIN out} = a.digest
      /\ \A i, j \in DOMAIN out : i < j => out[i] < out[j]
    BY DEF HashesTo
<1> HIDE DEF a, m
<1>7. a.digest = m.digest
    <2> SUFFICES ASSUME a.digest = WrongDigest PROVE FALSE
        BY <1>2
    <2>1. WrongByte \in {out[j] : j \in DOMAIN out}
        BY <1>6 DEF WrongDigest
    <2>2. PICK j \in DOMAIN out : out[j] = WrongByte
        BY <2>1
    <2>3. WrongByte \in Nat
        BY <1>5, <2>2
    <2> QED
        BY <2>3 DEF WrongByte
<1>8. {out[j] : j \in DOMAIN out} = m.dataStart .. m.dataStart + m.size - 1
    BY <1>4, <1>6, <1>7
<1>9. a.size = m.size
    BY <1>3, <1>5, <1>6, <1>8, WholeInterval
<1>10. ASSUME NEW b \in m.dataStart .. m.dataStart + m.size - 1 PROVE Clear(b)
    <2>1. b \in {out[j] : j \in DOMAIN out}
        BY <1>8
    <2>2. PICK j \in DOMAIN out : out[j] = b
        BY <2>1
    <2> QED
        BY <1>5, <2>2
<1>11. ASSUME NEW f \in badFrames, m.size # 0
       PROVE  frames[f].end <= m.dataStart \/ m.dataStart + m.size <= frames[f].start
    <2>1. /\ frames[f].start \in Nat /\ frames[f].end \in Nat
          /\ frames[f].start < frames[f].end
        <3>1. /\ frames \in Seq(FrameRecords) /\ Tiled
              /\ badFrames \subseteq DOMAIN frames
            BY <1>1, LoopKnown
        <3>2. f \in DOMAIN frames /\ frames[f] \in FrameRecords
            BY <3>1
        <3> QED
            BY <3>1, <3>2 DEF Tiled, FrameRecords
    <2>2. \A b \in m.dataStart .. m.dataStart + m.size - 1 :
             b < frames[f].start \/ frames[f].end <= b
        BY <1>10 DEF Clear
    <2>3. CASE frames[f].start <= m.dataStart
        <3>1. m.dataStart \in m.dataStart .. m.dataStart + m.size - 1
            BY <1>3, <1>11
        <3> QED
            BY <1>3, <2>1, <2>2, <2>3, <3>1
    <2>4. CASE m.dataStart < frames[f].start /\ frames[f].start < m.dataStart + m.size
        <3>1. frames[f].start \in m.dataStart .. m.dataStart + m.size - 1
            BY <1>3, <2>1, <2>4
        <3> QED
            BY <2>1, <2>2, <3>1
    <2> QED
        BY <1>3, <2>1, <2>3, <2>4
<1> QED
    BY <1>9, <1>11
-----------------------------------------------------------------------------
(* Every step keeps what is known of the operations. *)

LEMMA IntactSame ==
    ASSUME UNCHANGED <<vars, badFrames, toc>>, NEW i
    PROVE  Intact(i)' <=> Intact(i)
BY DEF Intact, vars

LEMMA ReadIdle ==
    ASSUME Reading, UNCHANGED allVars
    PROVE  Reading'
<1>1. /\ UNCHANGED vars /\ UNCHANGED damage
      /\ UNCHANGED <<badFrames, toc, rpc, op, idx, until, k, skip, remaining, out,
                     verdicts, outcome>>
    BY DEF allVars, readVars
<1>2. LoopInv'
    <2>1. ChunkAt(idx, k)' = ChunkAt(idx, k)
        BY <1>1, ChunkAtSame
    <2>2. Wanted' = Wanted /\ Copied' = Copied
        BY <1>1 DEF Wanted, Copied
    <2>3. OnCourse' <=> OnCourse
        BY <1>1, <2>1, <2>2 DEF OnCourse, vars
    <2>4. \A j : Clear(out[j])' <=> Clear(out[j])
        BY <1>1 DEF Clear, vars
    <2> QED
        BY <1>1, <2>2, <2>3, <2>4 DEF LoopInv, Reading, vars
<1>3. VerifyInv'
    <2>1. \A i : Intact(i)' <=> Intact(i)
        BY <1>1, IntactSame
    <2> QED
        BY <1>1, <2>1 DEF VerifyInv, First, Clean, Reading
<1>4. ExtractExact'
    BY <1>1, HitSame DEF ExtractExact, ContentOf, Reading, vars
<1>5. DamageIsolated'
    BY <1>1, HitSame DEF DamageIsolated, FrameOf, Reading, vars
<1> QED
    BY <1>2, <1>3, <1>4, <1>5 DEF Reading

LEMMA VerifyKept ==
    ASSUME VerifyInv, UNCHANGED <<vars, badFrames, toc, op, idx, until, verdicts>>,
           rpc' = "ended" /\ outcome' = "ok" => idx > until /\ Clean
    PROVE  VerifyInv'
<1>1. \A i : Intact(i)' <=> Intact(i)
    BY IntactSame
<1>2. (Clean' <=> Clean) /\ First' = First
    BY DEF Clean, First
<1> QED
    BY <1>1, <1>2 DEF VerifyInv

LEMMA VerifyMoves ==
    ASSUME VerifyInv, UNCHANGED <<vars, badFrames, toc, op, until>>,
           idx \in Nat, until \in Nat, idx' = idx + 1, rpc' = "verify",
           Clean' => Clean /\ Intact(idx)
    PROVE  VerifyInv'
<1>1. \A i : Intact(i)' <=> Intact(i)
    BY IntactSame
<1>2. First' = First /\ First \in Nat
    BY DEF First
<1> SUFFICES ASSUME op \in {"verifyAll", "verifyMember"}
             PROVE  /\ idx' >= First
                    /\ Clean' => \A i \in First .. idx' - 1 : Intact(i)
                    /\ op = "verifyAll" => until = Len(toc)
    BY <1>1, <1>2 DEF VerifyInv
<1>3. /\ idx >= First
      /\ Clean => \A i \in First .. idx - 1 : Intact(i)
      /\ op = "verifyAll" => until = Len(toc)
    BY DEF VerifyInv
<1>4. ASSUME Clean', NEW i \in First .. idx' - 1
      PROVE  Intact(i)
    <2>1. i \in First .. idx - 1 \/ i = idx
        BY <1>2
    <2> QED
        BY <1>3, <1>4, <2>1
<1> QED
    BY <1>2, <1>3, <1>4

LEMMA CleanSoFar ==
    ASSUME NEW v \in {"ok", "mismatch", "none"},
           verdicts \in Seq({"ok", "mismatch", "none"}),
           verdicts' = Append(verdicts, v), Clean'
    PROVE  Clean /\ v # "mismatch"
<1> DEFINE S == {"ok", "mismatch", "none"}
<1>1. v \in S /\ verdicts \in Seq(S)
    OBVIOUS
<1> HIDE DEF S
<1>2. /\ Len(verdicts) \in Nat /\ DOMAIN verdicts = 1 .. Len(verdicts)
      /\ DOMAIN Append(verdicts, v) = 1 .. Len(verdicts) + 1
      /\ \A i \in 1 .. Len(verdicts) : Append(verdicts, v)[i] = verdicts[i]
      /\ Append(verdicts, v)[Len(verdicts) + 1] = v
    BY <1>1, AppendFacts
<1>3. \A j \in 1 .. Len(verdicts) + 1 : verdicts'[j] # "mismatch"
    BY <1>2 DEF Clean
<1>4. \A j \in 1 .. Len(verdicts) : j \in 1 .. Len(verdicts) + 1
    BY <1>2
<1>5. Clean
    BY <1>2, <1>3, <1>4 DEF Clean
<1>6. Len(verdicts) + 1 \in 1 .. Len(verdicts) + 1
    BY <1>2
<1> QED
    BY <1>2, <1>3, <1>5, <1>6

LEMMA ReadBegins ==
    ASSUME ReadInv, UNCHANGED vars, Begun',
           \/ BeginExtract \/ DeclineMember \/ ExtractPanics
           \/ BeginVerify \/ QuickVerify \/ Info \/ InfoPanics
    PROVE  Reading'
<1>1. rpc = "idle" /\ UNCHANGED <<damage, badFrames, toc>>
    BY DEF BeginExtract, DeclineMember, ExtractPanics, BeginVerify, QuickVerify,
           Info, InfoPanics
<1>2. /\ TocInv /\ pc = "done" /\ toc \in LoadedTocs /\ toc \in Seq(MemberRecords)
      /\ Len(toc) \in Nat /\ DOMAIN toc = 1 .. Len(toc) /\ verdicts = <<>>
    BY <1>1, Known DEF ReadInv, Begun
<1>3. CASE BeginExtract
    <2>1. PICK i \in DOMAIN toc : Locate(i) /\ op' = "extract" /\ idx' = i
        BY <1>3 DEF BeginExtract
    <2>2. LoopInv'
        BY <1>1, <2>1, LoopBegins DEF ReadInv
    <2>3. VerifyInv'
        BY <2>1 DEF VerifyInv
    <2>4. rpc' = "chunk"
        BY <2>1 DEF Locate
    <2>5. (ExtractExact /\ DamageIsolated)'
        BY <2>4 DEF Begun, ExtractExact, DamageIsolated
    <2> QED
        BY <2>2, <2>3, <2>5 DEF Reading
<1>4. CASE DeclineMember
    <2>1. PICK i \in DOMAIN toc : ~Extractable(i) /\ idx' = i /\ op' = "extract"
                                   /\ rpc' = "ended" /\ outcome' = "error"
        BY <1>4 DEF DeclineMember, End
    <2>2. LoopInv' /\ VerifyInv' /\ ExtractExact'
        BY <2>1 DEF LoopInv, VerifyInv, ExtractExact
    <2>3. Hit("toc")' # {} \/ members'[idx'].kind # "File"
        <3> SUFFICES ASSUME Hit("toc") = {}, members[i].kind = "File" PROVE FALSE
            BY <1>1, <2>1, HitSame DEF vars
        <3>1. toc = members
            BY <1>1, TocTrue DEF ReadInv
        <3>2. members[i].chunks # <<>>
            BY <1>2, <2>1, <3>1, MemberChunks
        <3> QED
            BY <2>1, <3>1, <3>2 DEF Extractable
    <2>4. DamageIsolated'
        BY <2>3 DEF DamageIsolated
    <2> QED
        BY <2>2, <2>4 DEF Reading
<1>5. CASE BeginVerify
    <2>1. /\ rpc' = "verify" /\ UNCHANGED verdicts
          /\ \/ op' = "verifyAll" /\ idx' = 1 /\ until' = Len(toc)
             \/ \E i \in DOMAIN toc : op' = "verifyMember" /\ idx' = i /\ until' = i
        BY <1>5 DEF BeginVerify
    <2>2. LoopInv'
        BY <2>1 DEF LoopInv
    <2>3. (ExtractExact /\ DamageIsolated)'
        BY <2>1 DEF Begun, ExtractExact, DamageIsolated
    <2>4. idx' \in Nat /\ First' = idx'
        BY <1>2, <2>1 DEF First
    <2>5. idx' .. idx' - 1 = {}
        <3>1. \A n \in Nat : n .. n - 1 = {}
            OBVIOUS
        <3> QED
            BY <2>4, <3>1, Zenon
    <2>6. First' .. idx' - 1 = {}
        BY <2>4, <2>5
    <2>7. op' = "verifyAll" => until' = Len(toc')
        BY <1>1, <2>1
    <2>8. idx' >= First'
        BY <2>4
    <2>9. VerifyInv'
        BY <2>1, <2>6, <2>7, <2>8 DEF VerifyInv
    <2> QED
        BY <2>2, <2>3, <2>9 DEF Reading
<1>6. CASE QuickVerify \/ Info \/ InfoPanics
    <2>1. op' \in {"quick", "info"} /\ rpc' = "ended"
        BY <1>6 DEF QuickVerify, Info, InfoPanics, End
    <2> QED
        BY <2>1 DEF Reading, LoopInv, VerifyInv, ExtractExact, DamageIsolated
<1>7. CASE ExtractPanics
    <2>1. op' = "extract" /\ rpc' = "ended" /\ outcome' = "panic"
        BY <1>7 DEF ExtractPanics, End
    <2>2. Hit("toc")' # {}
        BY <1>1, <1>7, HitSame, PanicExplained DEF ReadInv
    <2> QED
        BY <2>1, <2>2 DEF Reading, LoopInv, VerifyInv, ExtractExact, DamageIsolated
<1> QED
    BY <1>3, <1>4, <1>5, <1>6, <1>7

LEMMA ReadLoops ==
    ASSUME ReadInv, UNCHANGED vars, Begun',
           \/ SkipChunk \/ CopyChunk \/ ChunkFails \/ ChunkPanics
           \/ FinishExtract \/ DataMissing
    PROVE  Reading'
<1>1. /\ rpc = "chunk"
      /\ UNCHANGED <<damage, badFrames, toc, op, idx, until, verdicts>>
    BY DEF SkipChunk, CopyChunk, ChunkFails, ChunkPanics, FinishExtract, DataMissing,
           InLoop, LoopDone
<1>2. ArchiveInv /\ LoopInv /\ VerifyInv
    BY DEF ReadInv, Reading
<1>3. Hit("toc")' = {} => toc = members
    BY <1>1, <1>2, HitSame, TocTrue
<1>4. members' = members /\ frames' = frames
    BY DEF vars
<1>5. CASE SkipChunk \/ CopyChunk
    <2>1. rpc' = "chunk"
        BY <1>1, <1>5 DEF SkipChunk, CopyChunk
    <2>2. LoopInv'
        BY <1>2, <1>5, LoopSkips, LoopCopies
    <2>3. VerifyInv'
        BY <1>1, <1>2, <2>1, VerifyKept
    <2>4. (ExtractExact /\ DamageIsolated)'
        BY <2>1 DEF Begun, ExtractExact, DamageIsolated
    <2> QED
        BY <2>2, <2>3, <2>4 DEF Reading
<1>6. CASE ChunkFails
    <2>1. rpc' = "ended" /\ outcome' = "error"
        BY <1>6 DEF ChunkFails, End
    <2>2. LoopInv' /\ ExtractExact'
        BY <2>1 DEF LoopInv, ExtractExact
    <2>3. VerifyInv'
        BY <1>1, <1>2, <2>1, VerifyKept
    <2>4. toc = members => \E j \in DOMAIN members[idx].chunks :
                               FrameOf(members[idx].chunks[j]) \in badFrames
        BY <1>2, <1>6, FailureExplained
    <2>5. DamageIsolated'
        BY <1>1, <1>3, <1>4, <2>4 DEF DamageIsolated, FrameOf
    <2> QED
        BY <2>2, <2>3, <2>5 DEF Reading
<1>7. CASE FinishExtract
    <2>1. rpc' = "ended" /\ outcome' = "ok" /\ op = "extract" /\ LoopDone /\ out' = out
        BY <1>7 DEF FinishExtract, End
    <2>2. LoopInv' /\ VerifyInv' /\ DamageIsolated'
        BY <1>1, <2>1 DEF LoopInv, VerifyInv, DamageIsolated
    <2>3. toc = members => out = ContentOf(members[idx])
        BY <1>2, <2>1, CopiedWhole
    <2>4. ExtractExact'
        BY <1>1, <1>3, <1>4, <2>1, <2>3 DEF ExtractExact, ContentOf
    <2> QED
        BY <2>2, <2>4 DEF Reading
<1>8. CASE DataMissing
    <2>1. rpc' = "ended" /\ outcome' = "error"
        BY <1>8 DEF DataMissing, End
    <2>2. LoopInv' /\ ExtractExact'
        BY <2>1 DEF LoopInv, ExtractExact
    <2>3. VerifyInv'
        BY <1>1, <1>2, <2>1, VerifyKept
    <2>4. toc # members
        BY <1>2, <1>8, NeverTruncated
    <2>5. DamageIsolated'
        BY <1>3, <2>4 DEF DamageIsolated
    <2> QED
        BY <2>2, <2>3, <2>5 DEF Reading
<1>9. CASE ChunkPanics
    <2>1. rpc' = "ended" /\ outcome' = "panic"
        BY <1>9 DEF ChunkPanics, End
    <2>2. LoopInv' /\ ExtractExact'
        BY <2>1 DEF LoopInv, ExtractExact
    <2>3. VerifyInv'
        BY <1>1, <1>2, <2>1, VerifyKept
    <2>4. Hit("toc")' # {}
        BY <1>1, <1>2, <1>9, HitSame, PanicExplained
    <2>5. DamageIsolated'
        BY <2>4 DEF DamageIsolated
    <2> QED
        BY <2>2, <2>3, <2>5 DEF Reading
<1> QED
    BY <1>5, <1>6, <1>7, <1>8, <1>9

LEMMA ReadVerifies ==
    ASSUME ReadInv, UNCHANGED vars, Begun',
           VerifySkips \/ VerifyReads \/ VerifyPanics \/ VerifyCompares \/ VerifyEnds
    PROVE  Reading'
<1>1. /\ rpc \in {"verify", "chunk"}
      /\ UNCHANGED <<damage, badFrames, toc, op, until>>
    BY DEF VerifySkips, VerifyReads, VerifyPanics, VerifyCompares, VerifyEnds,
           AtMember, LoopDone
<1>2. ArchiveInv /\ LoopInv /\ VerifyInv
    BY DEF ReadInv, Reading
<1>3. /\ TocInv /\ pc = "done" /\ toc \in LoadedTocs /\ Begun
      /\ toc \in Seq(MemberRecords) /\ Len(toc) \in Nat /\ DOMAIN toc = 1 .. Len(toc)
      /\ ReaderTypeOK
    BY <1>1, <1>2, Known
<1>4. /\ idx \in Nat /\ until \in Nat
      /\ verdicts \in Seq({"ok", "mismatch", "none"})
    BY <1>3 DEF ReaderTypeOK
<1>6. rpc = "verify" => /\ idx >= 1 /\ until <= Len(toc)
                        /\ op \in {"verifyAll", "verifyMember"}
    BY <1>3 DEF Begun
<1>7. CASE VerifySkips
    <2>1. /\ rpc = "verify" /\ rpc' = "verify" /\ idx <= until /\ idx' = idx + 1
          /\ toc[idx].kind # "File" \/ toc[idx].digest = NoDigest
          /\ verdicts' = IF toc[idx].kind = "File" THEN Append(verdicts, "none") ELSE verdicts
        BY <1>7 DEF VerifySkips, AtMember
    <2>3. Intact(idx)
        BY <2>1 DEF Intact
    <2>4. Clean' => Clean
        <3>1. CASE verdicts' = Append(verdicts, "none")
            BY <1>4, <3>1, CleanSoFar
        <3>2. CASE verdicts' = verdicts
            BY <3>2 DEF Clean
        <3> QED
            BY <2>1, <3>1, <3>2
    <2>5. VerifyInv'
        BY <1>1, <1>2, <1>4, <2>1, <2>3, <2>4, VerifyMoves
    <2>6. (LoopInv /\ ExtractExact /\ DamageIsolated)'
        BY <2>1 DEF LoopInv, Begun, ExtractExact, DamageIsolated
    <2> QED
        BY <2>5, <2>6 DEF Reading
<1>8. CASE VerifyReads
    <2>1. /\ rpc = "verify" /\ idx <= until /\ Locate(idx)
          /\ UNCHANGED <<idx, verdicts>>
        BY <1>8 DEF VerifyReads, AtMember
    <2>2. rpc' = "chunk"
        BY <2>1 DEF Locate
    <2>3. idx \in DOMAIN toc
        BY <1>3, <1>4, <1>6, <2>1
    <2>4. LoopInv'
        BY <1>1, <1>2, <2>1, <2>3, LoopBegins
    <2>5. VerifyInv'
        BY <1>1, <1>2, <2>1, <2>2, VerifyKept
    <2>6. (ExtractExact /\ DamageIsolated)'
        BY <2>2 DEF Begun, ExtractExact, DamageIsolated
    <2> QED
        BY <2>4, <2>5, <2>6 DEF Reading
<1>9. CASE VerifyCompares
    <2> DEFINE v == IF HashesTo(out, toc[idx].digest) THEN "ok" ELSE "mismatch"
    <2>1. /\ LoopDone /\ rpc' = "verify" /\ idx' = idx + 1
          /\ verdicts' = Append(verdicts, v)
        BY <1>9 DEF VerifyCompares
    <2>2. ASSUME Clean' PROVE Clean /\ Intact(idx)
        <3>1. Clean /\ v # "mismatch"
            BY <1>4, <2>1, <2>2, CleanSoFar
        <3>2. HashesTo(out, toc[idx].digest)
            BY <3>1
        <3> QED
            BY <1>2, <2>1, <3>1, <3>2, DigestTells
    <2>3. VerifyInv'
        BY <1>1, <1>2, <1>4, <2>1, <2>2, VerifyMoves
    <2>4. (LoopInv /\ ExtractExact /\ DamageIsolated)'
        BY <2>1 DEF LoopInv, Begun, ExtractExact, DamageIsolated
    <2> QED
        BY <2>3, <2>4 DEF Reading
<1>10. CASE VerifyEnds
    <2>1. /\ rpc = "verify" /\ rpc' = "ended" /\ idx > until
          /\ outcome' = IF \E j \in DOMAIN verdicts : verdicts[j] = "mismatch"
                        THEN "error" ELSE "ok"
          /\ UNCHANGED <<idx, verdicts>>
        BY <1>10 DEF VerifyEnds, End
    <2>2. outcome' = "ok" => Clean
        BY <2>1 DEF Clean
    <2>3. VerifyInv'
        BY <1>1, <1>2, <2>1, <2>2, VerifyKept
    <2>4. (LoopInv /\ ExtractExact /\ DamageIsolated)'
        BY <1>1, <1>6, <2>1 DEF LoopInv, ExtractExact, DamageIsolated
    <2> QED
        BY <2>3, <2>4 DEF Reading
<1>11. CASE VerifyPanics
    <2>1. rpc = "verify" /\ rpc' = "ended" /\ outcome' = "panic" /\ UNCHANGED <<idx, verdicts>>
        BY <1>11 DEF VerifyPanics, AtMember, End
    <2>2. VerifyInv'
        BY <1>1, <1>2, <2>1, VerifyKept
    <2>3. (LoopInv /\ ExtractExact /\ DamageIsolated)'
        BY <1>1, <1>6, <2>1 DEF LoopInv, ExtractExact, DamageIsolated
    <2> QED
        BY <2>2, <2>3 DEF Reading
<1> QED
    BY <1>7, <1>8, <1>9, <1>10, <1>11

LEMMA ReadStart == ArchiveInit => ReadInv
<1>1. ArchiveInit => Reading
    BY DEF ArchiveInit, ReaderInit, Reading, LoopInv, VerifyInv, ExtractExact,
           DamageIsolated
<1> QED
    BY <1>1, ArchiveStart DEF ReadInv

LEMMA ReadStep == ReadInv /\ [ArchiveNext]_allVars => ReadInv'
<1> SUFFICES ASSUME ReadInv, [ArchiveNext]_allVars
             PROVE  ReadInv'
    OBVIOUS
<1>1. ArchiveInv /\ Reading /\ ArchiveInv'
    BY ArchiveStep DEF ReadInv
<1>2. Begun /\ Begun' /\ (rpc # "closed" => pc = "done")
    BY <1>1 DEF ArchiveInv, Session, Opened
<1>3. CASE UNCHANGED allVars
    BY <1>1, <1>3, ReadIdle DEF ReadInv
<1>4. CASE Next /\ UNCHANGED readVars
    <2>1. CASE rpc = "closed"
        <3>1. rpc' = "closed" /\ op' = "none" /\ outcome' = "none"
            BY <1>2, <1>4, <2>1 DEF Begun, readVars
        <3>2. Reading'
            BY <3>1 DEF Reading, LoopInv, VerifyInv, ExtractExact, DamageIsolated
        <3> QED
            BY <1>1, <3>2 DEF ReadInv
    <2>2. CASE rpc # "closed"
        <3>1. UNCHANGED vars
            BY <1>2, <1>4, <2>2, WriterStops
        <3> QED
            BY <1>1, <1>4, <3>1, ReadIdle DEF ReadInv, allVars
    <2> QED
        BY <2>1, <2>2
<1>5. CASE ReaderNext /\ UNCHANGED vars
    <2>1. CASE Damage \/ OpenArchive \/ RefuseArchive
        <3>1. rpc \in {"closed", "stored"} /\ op' = op
              /\ rpc' \in {"stored", "idle", "refused"}
            BY <2>1 DEF Damage, OpenArchive, RefuseArchive
        <3>2. op' = "none"
            BY <1>2, <3>1 DEF Begun
        <3>3. Reading'
            BY <3>1, <3>2 DEF Reading, LoopInv, VerifyInv, ExtractExact, DamageIsolated
        <3> QED
            BY <1>1, <3>3 DEF ReadInv
    <2>2. CASE \/ BeginExtract \/ DeclineMember \/ ExtractPanics
               \/ BeginVerify \/ QuickVerify \/ Info \/ InfoPanics
        BY <1>1, <1>2, <1>5, <2>2, ReadBegins DEF ReadInv
    <2>3. CASE \/ SkipChunk \/ CopyChunk \/ ChunkFails \/ ChunkPanics
               \/ FinishExtract \/ DataMissing
        BY <1>1, <1>2, <1>5, <2>3, ReadLoops DEF ReadInv
    <2>4. CASE VerifySkips \/ VerifyReads \/ VerifyPanics \/ VerifyCompares \/ VerifyEnds
        BY <1>1, <1>2, <1>5, <2>4, ReadVerifies DEF ReadInv
    <2> QED
        BY <1>5, <2>1, <2>2, <2>3, <2>4 DEF ReaderNext, Stepping
<1>6. CASE Finished
    BY <1>1, <1>6, ReadIdle DEF ReadInv, Finished
<1> QED
    BY <1>3, <1>4, <1>5, <1>6 DEF ArchiveNext
-----------------------------------------------------------------------------
(* Whatever the operation, its loop has copied bytes of intact frames only, and
   over the TOC as written it stands where the sums over the chunks say and has
   copied the content so far; every member that a verify has read and passed is
   intact. *)
THEOREM ReadInvariant == ArchiveSpec => []ReadInv
BY ReadStart, ReadStep, PTL DEF ArchiveSpec

(* An extraction that reports success has written the member's content, the
   whole of it and nothing else (extract_by_index), for every archive that
   the writer can make and any damage to its data frames. *)
THEOREM ExtractTheorem == ArchiveSpec => []ExtractExact
<1>1. ReadInv => ExtractExact
    BY DEF ReadInv, Reading
<1> QED
    BY <1>1, ReadInvariant, PTL

(* An extraction fails only if one of the member's own frames is damaged:
   "damage to one data frame takes out one member". *)
THEOREM DamageTheorem == ArchiveSpec => []DamageIsolated
<1>1. ReadInv => DamageIsolated
    BY DEF ReadInv, Reading
<1> QED
    BY <1>1, ReadInvariant, PTL

(* A verify that succeeds has read, of every file that the TOC as loaded calls
   a file and has a digest for, the whole content, and no frame with a byte of
   it is damaged, whatever value of one entry a damaged TOC gives wrongly
   (verify_all, verify_member). *)
THEOREM VerifyTheorem == ArchiveSpec => []VerifyOkMeansIntact
<1>1. ReadInv => VerifyOkMeansIntact
    <2> SUFFICES ASSUME ReadInv, op \in {"verifyAll", "verifyMember"}, outcome = "ok",
                        NEW i \in DOMAIN members, members[i].kind = "File",
                        members[i].digest # NoDigest, toc[i].kind = "File",
                        toc[i].digest # NoDigest, op = "verifyAll" \/ i = until
                 PROVE  /\ toc[i].size = members[i].size
                        /\ \A f \in badFrames :
                              \/ frames[f].end <= members[i].dataStart
                              \/ members[i].dataStart + members[i].size <= frames[f].start
                              \/ members[i].size = 0
        BY DEF VerifyOkMeansIntact
    <2>1. /\ TocInv /\ ReaderTypeOK /\ Opened /\ Begun /\ VerifyInv
        BY DEF ReadInv, Reading, ArchiveInv, Session
    <2>2. rpc = "ended"
        BY <2>1 DEF Begun
    <2>3. toc \in LoadedTocs /\ pc = "done"
        BY <2>1, <2>2 DEF Opened
    <2>4. Len(toc) = Len(members) /\ Len(members) \in Nat
          /\ DOMAIN members = 1 .. Len(members)
        BY <2>1, <2>3, LoadedFacts, Complete
    <2>5. idx \in Nat /\ until \in Nat
        BY <2>1 DEF ReaderTypeOK
    <2>6. /\ idx > until
          /\ \A j \in First .. idx - 1 : Intact(j)
          /\ op = "verifyAll" => until = Len(toc)
        BY <2>1, <2>2 DEF VerifyInv
    <2>7. i \in First .. idx - 1
        BY <2>4, <2>5, <2>6 DEF First
    <2> QED
        BY <2>6, <2>7 DEF Intact
<1> QED
    BY <1>1, ReadInvariant, PTL
-----------------------------------------------------------------------------
(* What the info command adds up. *)

LEMMA TrailNext == TypeInv /\ MemberInv /\ TrailInv /\ [Next]_vars => TrailInv'
<1> SUFFICES ASSUME TypeInv, MemberInv, TrailInv, [Next]_vars
             PROVE  TrailInv'
    OBVIOUS
<1>1. TypeOK /\ Layout /\ frames \in Seq(FrameRecords) /\ members \in Seq(MemberRecords)
      /\ winEnd \in Nat
    BY DEF TypeInv, TypeOK
<1>2. CASE FlushLast
    <2>1. FlushGroup(members) /\ pc = "drain" /\ pc' = "trailer"
          /\ prevEnd' = prevEnd /\ winEnd' = winEnd
        BY <1>2 DEF FlushLast
    <2>2. nextChunkStart' = prevEnd
        BY <1>1, <2>1, FlushGroupType
    <2> QED
        BY <2>1, <2>2 DEF TrailInv
<1>3. CASE WriteTrailer
    <2>1. PICK z \in FrameSizes : CompressFrame(nextChunkStart, winEnd, z)
        BY <1>3 DEF WriteTrailer
    <2>2. /\ pc = "trailer" /\ pc' = "toc" /\ members' = members /\ prevEnd' = prevEnd
          /\ nextChunkStart = prevEnd /\ nextChunkStart \in Nat
        BY <1>1, <1>3 DEF WriteTrailer, TrailInv, TypeOK
    <2> DEFINE x == NewFrame(nextChunkStart, winEnd, z)
    <2>3. frames' = Append(frames, x)
        BY <2>1 DEF CompressFrame, NewFrame
    <2>4. x \in FrameRecords /\ x.start = prevEnd
        BY <1>1, <2>2, FrameInOrder DEF MemberInv, NewFrame
    <2> HIDE DEF x
    <2>5. /\ frames' # <<>> /\ Len(frames') - 1 = Len(frames)
          /\ frames'[Len(frames')] = x /\ DOMAIN frames = 1 .. Len(frames)
          /\ \A f \in 1 .. Len(frames) : frames'[f] = frames[f]
        BY <1>1, <2>3, <2>4, AppendFacts
    <2>6. ASSUME NEW i \in DOMAIN members, NEW j \in DOMAIN members[i].chunks
          PROVE  \E f \in 1 .. Len(frames') - 1 : Leads(frames', members[i].chunks[j], f)
        <3>1. PICK f \in DOMAIN frames : Leads(frames, members[i].chunks[j], f)
            BY DEF MemberInv, TocSound, Chained, ChainedIn
        <3>2. Leads(frames', members[i].chunks[j], f)
            BY <2>5, <3>1 DEF Leads
        <3> QED
            BY <2>5, <3>1, <3>2
    <2> QED
        BY <2>2, <2>4, <2>5, <2>6 DEF TrailInv
<1>4. CASE WriteToc
    <2>1. pc = "toc" /\ pc' = "done" /\ UNCHANGED <<frames, members, prevEnd>>
        BY <1>4 DEF WriteToc, outVars
    <2> QED
        BY <2>1 DEF TrailInv, Leads
<1>5. CASE Stopped \/ UNCHANGED vars
    BY <1>5 DEF TrailInv, Leads, Stopped, vars
<1>6. CASE pc' \notin {"trailer", "toc", "done"}
    BY <1>6 DEF TrailInv
<1>7. \/ pc' \notin {"trailer", "toc", "done"}
      \/ FlushLast \/ WriteTrailer \/ WriteToc \/ Stopped \/ UNCHANGED vars
    BY DEF Next, Progress, ParseGlobal, JoinGroup, JoinAndFlush, FlushThenJoin,
        SmallMember, ParseMember, BeginLarge, PushFullChunk, ReadData,
        CapturePadding, FinishLarge, ParseEnd, DrainTrailing, EntryRefused,
        StreamEnds, MarkerMissing, TocTooLarge, IoFails, GiveUp
<1> QED
    BY <1>2, <1>3, <1>4, <1>5, <1>6, <1>7

(* The member in whose region a byte is. *)
LEMMA RegionWith ==
    ASSUME TocInv, pc = "done", NEW b \in Nat, b < Before(members, Len(members) + 1)
    PROVE  \E i \in DOMAIN members :
              Before(members, i) <= b /\ b < members[i].entryEnd
<1> DEFINE T == {i \in 1 .. Len(members) + 1 : b < Before(members, i)}
<1>1. /\ members \in Seq(MemberRecords) /\ Len(members) \in Nat
      /\ DOMAIN members = 1 .. Len(members)
    BY Complete
<1>2. T \subseteq Nat /\ Len(members) + 1 \in T
    BY <1>1
<1> HIDE DEF T
<1>3. PICK x \in T : \A y \in T : ~(<<y, x>> \in OpToRel(<, Nat))
    BY <1>2, WFMin, NatLessThanWellFounded, Zenon
<1>4. x \in 1 .. Len(members) + 1 /\ b < Before(members, x)
    BY <1>3 DEF T
<1>5. x # 1
    BY <1>4 DEF Before
<1>6. /\ x - 1 \in 1 .. Len(members) /\ x - 1 \in 1 .. Len(members) + 1
      /\ x - 1 \in Nat /\ x \in Nat /\ x - 1 < x
    BY <1>1, <1>4, <1>5
<1>7. ~(b < Before(members, x - 1))
    BY <1>3, <1>6 DEF OpToRel, T
<1>8. Before(members, x - 1) \in Nat
    BY <1>1, <1>6, BeforeType
<1>9. Before(members, x) = members[x - 1].entryEnd
    BY <1>5 DEF Before
<1> QED
    BY <1>1, <1>4, <1>6, <1>7, <1>8, <1>9

(* The chunk of that member that holds the byte. *)
LEMMA ChunkWith ==
    ASSUME TocInv, pc = "done", NEW i \in DOMAIN members, NEW b \in Nat,
           Before(members, i) <= b, b < members[i].entryEnd
    PROVE  \E j \in DOMAIN members[i].chunks :
              ChunkAt(i, j) <= b /\ b < ChunkAt(i, j + 1)
<1> DEFINE cs == members[i].chunks
           T == {j \in 1 .. Len(cs) + 1 : b < ChunkAt(i, j)}
<1>1. /\ cs \in Seq(ChunkRecords) /\ Len(cs) \in Nat
      /\ ChunkAt(i, 1) = Before(members, i) /\ Before(members, i) \in Nat
      /\ ChunkAt(i, Len(cs) + 1) = members[i].entryEnd
      /\ \A j \in 1 .. Len(cs) : ChunkAt(i, j) \in Nat
    BY MemberChunks
<1>2. DOMAIN cs = 1 .. Len(cs)
    BY <1>1
<1> HIDE DEF cs
<1>3. T \subseteq Nat /\ Len(cs) + 1 \in T
    BY <1>1
<1> HIDE DEF T
<1>4. PICK x \in T : \A y \in T : ~(<<y, x>> \in OpToRel(<, Nat))
    BY <1>3, WFMin, NatLessThanWellFounded, Zenon
<1>5. x \in 1 .. Len(cs) + 1 /\ b < ChunkAt(i, x)
    BY <1>4 DEF T
<1>6. x # 1
    BY <1>1, <1>5
<1>7. /\ x - 1 \in 1 .. Len(cs) /\ x - 1 \in 1 .. Len(cs) + 1
      /\ x - 1 \in Nat /\ x \in Nat /\ x - 1 < x /\ (x - 1) + 1 = x
    BY <1>1, <1>5, <1>6
<1>8. ~(b < ChunkAt(i, x - 1))
    BY <1>4, <1>7 DEF OpToRel, T
<1>9. ChunkAt(i, x - 1) <= b /\ b < ChunkAt(i, (x - 1) + 1)
    BY <1>1, <1>5, <1>7, <1>8
<1> QED
    BY <1>2, <1>7, <1>9 DEF cs

(* Of the chunks at one offset one comes first. *)
LEMMA FirstFound ==
    ASSUME toc \in Seq(MemberRecords), NEW i \in DOMAIN toc,
           NEW j \in DOMAIN toc[i].chunks
    PROVE  \E p \in FirstPlaces :
              ChunkIn(p).compressedOffset = toc[i].chunks[j].compressedOffset
<1> DEFINE offset == toc[i].chunks[j].compressedOffset
           S == {p \in ChunkPlaces : ChunkIn(p).compressedOffset = offset}
           Rows == {p[1] : p \in S}
<1>1. <<i, j>> \in S
    BY DEF ChunkPlaces, ChunkIn
<1>2. ASSUME NEW p \in ChunkPlaces
      PROVE  p[1] \in Nat /\ p[2] \in Nat /\ p = <<p[1], p[2]>>
    <2>1. PICK n \in DOMAIN toc : p \in {n} \X (DOMAIN toc[n].chunks)
        BY DEF ChunkPlaces
    <2>2. toc[n] \in MemberRecords
        OBVIOUS
    <2>3. toc[n].chunks \in Seq(ChunkRecords)
        BY <2>2 DEF MemberRecords
    <2>4. p[1] = n /\ p[2] \in DOMAIN toc[n].chunks /\ p = <<p[1], p[2]>>
        BY <2>1
    <2> QED
        BY <2>3, <2>4
<1> HIDE DEF offset
<1>3. Rows \subseteq Nat /\ Rows # {}
    BY <1>1, <1>2
<1> HIDE DEF Rows
<1>4. PICK a \in Rows : \A y \in Rows : ~(<<y, a>> \in OpToRel(<, Nat))
    BY <1>3, WFMin, NatLessThanWellFounded, Zenon
<1> DEFINE Columns == {p[2] : p \in {q \in S : q[1] = a}}
<1>5. Columns \subseteq Nat /\ Columns # {}
    <2>1. \E q \in S : q[1] = a
        BY DEF Rows
    <2> QED
        BY <1>2, <2>1
<1>6. PICK b \in Columns : \A y \in Columns : ~(<<y, b>> \in OpToRel(<, Nat))
    <2> HIDE DEF Columns
    <2> QED
        BY <1>5, WFMin, NatLessThanWellFounded, Zenon
<1>7. PICK p \in S : p[1] = a /\ p[2] = b
    OBVIOUS
<1>8. ASSUME NEW q \in ChunkPlaces, ChunkIn(q).compressedOffset = offset
      PROVE  ~Precedes(q, p)
    <2>1. q \in S /\ q[1] \in Nat /\ q[2] \in Nat /\ a \in Nat /\ b \in Nat
        BY <1>2, <1>3, <1>5, <1>8
    <2>2. q[1] \in Rows
        BY <2>1 DEF Rows
    <2>3. ~(q[1] < a)
        BY <1>4, <2>1, <2>2 DEF OpToRel
    <2>4. q[1] = a => q[2] \in Columns
        BY <2>1
    <2>5. q[1] = a => ~(q[2] < b)
        <3> HIDE DEF Columns
        <3> QED
            BY <1>6, <2>1, <2>4 DEF OpToRel
    <2> QED
        BY <1>7, <2>3, <2>5 DEF Precedes
<1>9. p \in FirstPlaces /\ ChunkIn(p).compressedOffset = offset
    BY <1>7, <1>8 DEF FirstPlaces
<1> QED
    BY <1>9 DEF offset

(* The frames that the chunks name are all but the trailing one. *)
LEMMA ChunkFrames ==
    ASSUME TocInv, TrailInv, pc = "done", toc = members
    PROVE  InfoFrames = {<<frames[f].at, frames[f].size>> : f \in 1 .. Len(frames) - 1}
<1> DEFINE D == {<<frames[f].at, frames[f].size>> : f \in 1 .. Len(frames) - 1}
<1>1. /\ frames \in Seq(FrameRecords) /\ InOrder(frames) /\ Tiled
      /\ members \in Seq(MemberRecords)
    BY Complete
<1>2. /\ frames # <<>> /\ frames[Len(frames)].start = Before(members, Len(members) + 1)
      /\ \A i \in DOMAIN members : \A j \in DOMAIN members[i].chunks :
            \E f \in 1 .. Len(frames) - 1 : Leads(frames, members[i].chunks[j], f)
    BY DEF TrailInv, TocInv, MemberInv
<1>3. Len(frames) \in Nat /\ Len(frames) >= 1 /\ DOMAIN frames = 1 .. Len(frames)
    BY <1>1, <1>2
<1>4. ASSUME NEW r \in InfoFrames PROVE r \in D
    <2>1. PICK p \in ChunkPlaces :
             r = <<ChunkIn(p).compressedOffset, ChunkIn(p).compressedSize>>
        BY DEF InfoFrames, FirstPlaces
    <2>2. PICK i \in DOMAIN members : \E j \in DOMAIN members[i].chunks :
             r = <<members[i].chunks[j].compressedOffset,
                   members[i].chunks[j].compressedSize>>
        <3>1. PICK i \in DOMAIN members : p \in {i} \X (DOMAIN members[i].chunks)
            BY DEF ChunkPlaces
        <3>2. p[1] = i /\ p[2] \in DOMAIN members[i].chunks
            BY <3>1
        <3> QED
            BY <2>1, <3>2 DEF ChunkIn
    <2>3. PICK j \in DOMAIN members[i].chunks :
             r = <<members[i].chunks[j].compressedOffset,
                   members[i].chunks[j].compressedSize>>
        BY <2>2
    <2>4. PICK f \in 1 .. Len(frames) - 1 : Leads(frames, members[i].chunks[j], f)
        BY <1>2
    <2>5. r = <<frames[f].at, frames[f].size>>
        BY <2>3, <2>4 DEF Leads
    <2> QED
        BY <2>5
<1>5. ASSUME NEW f \in 1 .. Len(frames) - 1
      PROVE  <<frames[f].at, frames[f].size>> \in InfoFrames
    <2> DEFINE b == frames[f].start
    <2>1. f \in DOMAIN frames /\ Len(frames) \in DOMAIN frames /\ f < Len(frames)
        BY <1>3
    <2>2. frames[f].end <= frames[Len(frames)].start
        BY <1>1, <2>1, FramesApart
    <2>3. /\ frames[f].start \in Nat /\ frames[f].end \in Nat
          /\ frames[Len(frames)].start \in Nat /\ frames[f].start < frames[f].end
        <3>1. frames[f] \in FrameRecords /\ frames[Len(frames)] \in FrameRecords
            BY <1>1, <2>1
        <3> QED
            BY <2>1, <1>1, <3>1 DEF Tiled, FrameRecords
    <2>4. b \in Nat /\ b < Before(members, Len(members) + 1)
        BY <1>2, <2>2, <2>3
    <2> HIDE DEF b
    <2>5. PICK i \in DOMAIN members : Before(members, i) <= b /\ b < members[i].entryEnd
        BY <2>4, RegionWith
    <2>6. PICK j \in DOMAIN members[i].chunks :
             ChunkAt(i, j) <= b /\ b < ChunkAt(i, j + 1)
        BY <2>4, <2>5, ChunkWith
    <2> DEFINE c == members[i].chunks[j]
    <2>7. /\ members[i].chunks \in Seq(ChunkRecords)
          /\ \A n \in 1 .. Len(members[i].chunks) :
                /\ StartIn(frames, members[i].chunks[n]) = ChunkAt(i, n)
                /\ ChunkAt(i, n + 1) = ChunkAt(i, n) + members[i].chunks[n].uncompressedSize
                /\ ChunkAt(i, n) \in Nat
        BY MemberChunks
    <2>8. j \in 1 .. Len(members[i].chunks) /\ c \in ChunkRecords
        BY <2>7
    <2>9. /\ StartIn(frames, c) = ChunkAt(i, j)
          /\ ChunkAt(i, j + 1) = ChunkAt(i, j) + c.uncompressedSize
          /\ ChunkAt(i, j) \in Nat
        BY <2>7, <2>8
    <2>10. PICK g \in 1 .. Len(frames) - 1 : Leads(frames, c, g)
        BY <1>2
    <2> HIDE DEF c
    <2>11. g \in DOMAIN frames /\ frames[g] \in FrameRecords
        BY <1>1, <1>3
    <2>12. /\ frames[g].at = c.compressedOffset /\ frames[g].size = c.compressedSize
           /\ frames[g].start + c.frameOffset + c.uncompressedSize <= frames[g].end
        BY <2>10 DEF Leads
    <2>13. ChunkAt(i, j) = frames[g].start + c.frameOffset
        BY <1>1, <2>9, <2>11, <2>12, FoundIn
    <2>14. /\ c.frameOffset \in Nat /\ c.uncompressedSize \in Nat
           /\ frames[g].start \in Nat /\ frames[g].end \in Nat
        BY <2>8, <2>11 DEF ChunkRecords, FrameRecords
    <2>15. frames[g].start <= b /\ b < frames[g].end /\ b \in Int
        <3>1. ChunkAt(i, j) <= b /\ b < ChunkAt(i, j) + c.uncompressedSize
            BY <2>6, <2>9
        <3>2. /\ frames[g].start + c.frameOffset <= b
              /\ b < frames[g].start + c.frameOffset + c.uncompressedSize
            BY <2>13, <3>1
        <3>3. b \in Nat
            BY <2>4
        <3>4. frames[g].start + c.frameOffset + c.uncompressedSize <= frames[g].end
            BY <2>12
        <3> DEFINE lo == frames[g].start
                   hi == frames[g].end
                   o == c.frameOffset
                   u == c.uncompressedSize
        <3>5. /\ lo \in Nat /\ hi \in Nat /\ o \in Nat /\ u \in Nat /\ b \in Nat
              /\ lo + o <= b /\ b < lo + o + u /\ lo + o + u <= hi
            BY <2>14, <3>2, <3>3, <3>4
        <3>6. lo <= b /\ b < hi /\ b \in Int
            <4> HIDE DEF lo, hi, o, u
            <4> QED
                BY <3>5
        <3> QED
            BY <3>6
    <2>16. g = f
        <3> SUFFICES ASSUME g # f PROVE FALSE
            OBVIOUS
        <3>1. b < frames[f].start \/ frames[f].end <= b
            BY <1>1, <2>1, <2>11, <2>15, OtherFrame
        <3> QED
            BY <2>3, <3>1 DEF b
    <2>17. PICK p \in FirstPlaces : ChunkIn(p).compressedOffset = c.compressedOffset
        <3>1. toc \in Seq(MemberRecords)
            BY <1>1
        <3> QED
            BY <3>1, FirstFound DEF c
    <2>18. PICK h \in 1 .. Len(frames) - 1 : Leads(frames, ChunkIn(p), h)
        <3>1. PICK a \in DOMAIN members : p \in {a} \X (DOMAIN members[a].chunks)
            BY DEF FirstPlaces, ChunkPlaces
        <3>2. p[1] = a /\ p[2] \in DOMAIN members[a].chunks
            BY <3>1
        <3> QED
            BY <1>2, <3>2 DEF ChunkIn
    <2>19. h \in DOMAIN frames /\ frames[h].at = frames[f].at
           /\ frames[h].size = ChunkIn(p).compressedSize
        BY <1>3, <2>12, <2>16, <2>17, <2>18 DEF Leads
    <2>20. h = f
        BY <1>1, <2>1, <2>19, OneFrame
    <2>21. <<ChunkIn(p).compressedOffset, ChunkIn(p).compressedSize>> \in InfoFrames
        BY DEF InfoFrames
    <2> QED
        BY <2>12, <2>16, <2>17, <2>19, <2>20, <2>21
<1> QED
    BY <1>4, <1>5

LEMMA InfoCounts ==
    ASSUME ArchiveInv, TrailInv, Info, UNCHANGED vars
    PROVE  InfoAddsUp'
<1> SUFFICES ASSUME Hit("toc") = {}
             PROVE  LET data == SubSeq(frames, 1, Len(frames) - 1) IN
                    out' = <<Len(data), SumOf([f \in DOMAIN data |-> data[f].size], Len(data)),
                             IF data = <<>> THEN 0 ELSE data[Len(data)].end>>
    BY HitSame DEF InfoAddsUp, Info, vars
<1> DEFINE n == Len(frames) - 1
           data == SubSeq(frames, 1, n)
           P == [f \in 1 .. n |-> <<frames[f].at, frames[f].size>>]
<1>1. /\ rpc = "idle"
      /\ out' = <<Cardinality(InfoFrames), TotalSize(InfoFrames),
                   ChunkTarStart(Len(toc) + 1) % Word>>
    BY DEF Info
<1>2. /\ TocInv /\ inputLen \in InputLens /\ pc = "done" /\ toc \in LoadedTocs /\ toc = members
      /\ frames \in Seq(FrameRecords) /\ InOrder(frames) /\ Tiled
      /\ members \in Seq(MemberRecords) /\ Len(members) \in Nat
    BY <1>1, Known, TocTrue, Complete
<1>3. frames # <<>> /\ frames[Len(frames)].start = Before(members, Len(members) + 1)
    BY <1>2 DEF TrailInv, TocInv, MemberInv
<1>4. /\ n \in Nat /\ n + 1 = Len(frames) /\ DOMAIN frames = 1 .. n + 1
      /\ n <= Len(frames)
    BY <1>2, <1>3
<1>5. /\ Len(data) = n /\ DOMAIN data = 1 .. n
      /\ \A f \in 1 .. n : data[f] = frames[f]
    BY <1>2, <1>4
<1> HIDE DEF n, data
<1>6. InfoFrames = {P[f] : f \in 1 .. n}
    <2>1. InfoFrames = {<<frames[f].at, frames[f].size>> : f \in 1 .. n}
        BY <1>2, ChunkFrames DEF n
    <2> QED
        BY <2>1
<1>7. \A f \in 1 .. n : P[f] = <<frames[f].at, frames[f].size>> /\ P[f][2] = frames[f].size
    OBVIOUS
<1>8. \A f \in 1 .. n : f \in DOMAIN frames /\ frames[f].size \in Nat
    <2> SUFFICES ASSUME NEW f \in 1 .. n PROVE f \in DOMAIN frames /\ frames[f].size \in Nat
        OBVIOUS
    <2>1. f \in DOMAIN frames
        BY <1>4
    <2>2. frames[f] \in FrameRecords
        BY <1>2, <2>1
    <2> QED
        BY <2>1, <2>2 DEF FrameRecords
<1>9. ASSUME NEW f \in 1 .. n, NEW g \in 1 .. n, P[f] = P[g] PROVE f = g
    <2>1. frames[f].at = frames[g].at /\ frames[f].size = frames[g].size
        BY <1>7, <1>9
    <2>2. f \in DOMAIN frames /\ g \in DOMAIN frames
        BY <1>8
    <2> QED
        BY <1>2, <2>1, <2>2, OneFrame
<1>10. Cardinality(InfoFrames) = n
    <2>1. IsFiniteSet(1 .. n) /\ Cardinality(1 .. n) = n
        BY <1>4, FS_Interval
    <2>2. P \in [1 .. n -> InfoFrames]
        BY <1>6
    <2>3. P \in Surjection(1 .. n, InfoFrames)
        BY <1>6, <2>2 DEF Surjection
    <2>4. P \in Injection(1 .. n, InfoFrames)
        BY <1>9, <2>2 DEF Injection, IsInjective
    <2> QED
        BY <2>1, <2>3, <2>4, FS_Surjection
<1>11. TotalSize(InfoFrames) = SumOf([f \in DOMAIN data |-> data[f].size], Len(data))
    <2>1. TotalSize(InfoFrames) = SumOf([f \in 1 .. n |-> P[f][2]], n)
        <3>1. \A f \in 1 .. n : P[f][2] \in Nat
            BY <1>7, <1>8
        <3>2. \A f, g \in 1 .. n : P[f] = P[g] => f = g
            BY <1>9
        <3> HIDE DEF P
        <3> QED
            BY <1>4, <1>6, <3>1, <3>2, TotalIs
    <2>2. [f \in 1 .. n |-> P[f][2]] = [f \in DOMAIN data |-> data[f].size]
        BY <1>5, <1>7
    <2> QED
        BY <1>5, <2>1, <2>2
<1>12. ChunkTarStart(Len(toc) + 1) % Word = IF data = <<>> THEN 0 ELSE data[Len(data)].end
    <2>1. ChunkTarStart(Len(members) + 1) % Word = Before(members, Len(members) + 1)
        <3> DEFINE b == Before(members, Len(members) + 1)
        <3>1. Len(members) + 1 \in 1 .. Len(members) + 1
            BY <1>2
        <3>2. ChunkTarStart(Len(members) + 1) = b /\ b \in Nat
            BY <1>2, <3>1, ChunkStart
        <3>3. b < Word
            BY <1>2, OffsetsFit
        <3> HIDE DEF b
        <3>4. b % Word = b
            BY <3>2, <3>3, WordAssumption
        <3> QED
            BY <3>2, <3>4 DEF b
    <2>2. frames[n + 1].start = IF n + 1 = 1 THEN 0 ELSE frames[(n + 1) - 1].end
        BY <1>2, <1>4 DEF Tiled
    <2>3. (data = <<>> <=> n = 0) /\ (n # 0 => data[Len(data)] = frames[n])
        BY <1>4, <1>5
    <2> QED
        BY <1>2, <1>3, <1>4, <2>1, <2>2, <2>3
<1> QED
    BY <1>1, <1>5, <1>10, <1>11, <1>12 DEF data, n

LEMMA InfoStart == ArchiveInit => InfoInv
BY ArchiveStart DEF InfoInv, ArchiveInit, Init, ReaderInit, TrailInv, InfoAddsUp

LEMMA InfoStep == InfoInv /\ [ArchiveNext]_allVars => InfoInv'
<1> SUFFICES ASSUME InfoInv, [ArchiveNext]_allVars PROVE InfoInv'
    OBVIOUS
<1>1. ArchiveInv /\ ArchiveInv' /\ TrailInv /\ InfoAddsUp
    BY ArchiveStep DEF InfoInv
<1>2. /\ [Next]_vars /\ (rpc # "closed" => UNCHANGED vars)
      /\ ReaderNext \/ UNCHANGED readVars
    <2>1. rpc # "closed" => pc = "done"
        BY <1>1 DEF ArchiveInv, Session, Opened
    <2>2. pc = "done" /\ Next => UNCHANGED vars
        BY WriterStops
    <2> QED
        BY <2>1, <2>2 DEF ArchiveNext, Finished, allVars, ReaderNext, Damage
<1>3. TrailInv'
    BY <1>1, <1>2, TrailNext DEF ArchiveInv, TocInv
<1>4. CASE op' # "info" \/ outcome' # "ok"
    BY <1>1, <1>3, <1>4 DEF InfoInv, InfoAddsUp
<1>5. CASE Info
    BY <1>1, <1>2, <1>3, <1>5, InfoCounts DEF InfoInv, Info
<1>6. CASE op' = "info" /\ outcome' = "ok" /\ ~Info
    <2>1. rpc = "ended" /\ op = "info" /\ UNCHANGED readVars
        BY <1>1, <1>2, <1>6
        DEF ArchiveInv, Session, Begun, readVars, ReaderNext, Stepping, Damage,
            OpenArchive, RefuseArchive, BeginExtract, DeclineMember, ExtractPanics,
            BeginVerify, QuickVerify, InfoPanics, SkipChunk, CopyChunk, ChunkFails,
            ChunkPanics, FinishExtract, DataMissing, VerifySkips, VerifyReads,
            VerifyPanics, VerifyCompares, VerifyEnds, InLoop, LoopDone, AtMember,
            End, ReaderTypeOK
    <2>2. UNCHANGED vars /\ UNCHANGED <<damage, op, out, outcome>>
        BY <1>2, <2>1 DEF readVars
    <2>3. InfoAddsUp'
        BY <1>1, <2>2, HitSame DEF InfoAddsUp, vars
    <2> QED
        BY <1>1, <1>3, <2>3 DEF InfoInv
<1> QED
    BY <1>4, <1>5, <1>6

(* What info says of the frames that hold members: every one is counted once,
   shared or not, and the sizes add up (cmd_info.rs). *)
THEOREM InfoTheorem == ArchiveSpec => []InfoAddsUp
<1>1. InfoInv => InfoAddsUp
    BY DEF InfoInv
<1> QED
    BY <1>1, InfoStart, InfoStep, PTL DEF ArchiveSpec
=============================================================================
