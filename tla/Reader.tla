------------------------------- MODULE Reader -------------------------------
(***************************************************************************)
(* Reading an archive back: `TarzanReader` of reader.rs, on the archive    *)
(* that the writer of module Wrap has produced, after the storage may have *)
(* damaged any part of it.                                                 *)
(*                                                                         *)
(* Nothing of the tar stream is visible to the reader.  It knows the TOC   *)
(* and the frames, and finds a file's content from the sizes of all the    *)
(* chunks before it, the member's tar_offset and the offset of the member  *)
(* inside a shared frame.  What it writes is a sequence of offsets of the  *)
(* tar stream, so a read of a wrong byte shows.                            *)
(*                                                                         *)
(* The numbers of a TOC are u64.  Where the reader adds or subtracts       *)
(* unchecked, a build with overflow checks panics and a release build goes *)
(* on modulo 2^64; both are steps of the model.                            *)
(***************************************************************************)
EXTENDS Wrap, FiniteSets, Folds

CONSTANTS
    MaxTocJson, \* MAX_TOC_DECOMPRESSED_BYTES
    MetaDamages, \* which fields outside the data frames may be damaged
    MaxBadFrames, \* most data frames that are damaged at once
    Word,         \* u64::MAX + 1
    Slips         \* what a damaged number is off by, modulo Word

(* The fields of the frames that are not data, in their order on disk, and the
   length of the file, which is wrong when bytes are cut off or appended. *)
FrameHead == {"magic", "length", "marker", "type", "version"}
Fields == [identity |-> FrameHead,
           toc |-> FrameHead \cup {"payload"},
           footer |-> FrameHead \cup {"tocOffset", "tocSize", "hash"},
           file |-> {"length"}]
DamageKinds == UNION {{f} \X Fields[f] : f \in DOMAIN Fields}

ASSUME DamageAssumption ==
    MetaDamages \subseteq SUBSET DamageKinds /\ MaxBadFrames \in Nat

ASSUME CapAssumption == MaxTocJson \in Nat

ASSUME WordAssumption ==
    /\ Word \in Nat \ {0}
    /\ \A length \in InputLens : length < Word
    /\ Slips \subseteq Int

VARIABLES
    damage,    \* the damage outside the data frames
    badFrames, \* indices of the damaged data frames
    toc,       \* the members as the reader has loaded them
    rpc,       \* where the reader is
    op,        \* what it was asked to do
    idx,       \* the member at hand
    until,     \* the last member to verify
    k,         \* the next chunk of the member
    skip,      \* bytes of the member's region still to be skipped
    remaining, \* bytes of content still to be copied
    out,       \* what has been written to the caller's sink
    verdicts,  \* the VerifyRecords so far
    outcome    \* what the caller was told

readVars == <<damage, badFrames, toc, rpc, op, idx, until, k, skip, remaining,
              out, verdicts, outcome>>
allVars == <<vars, readVars>>

WrongByte == -2

-----------------------------------------------------------------------------
(* What the reader computes from the TOC. *)

Ranges == UNION {{<<c.compressedOffset, c.compressedSize>> :
                    c \in {toc'[i].chunks[j] : j \in DOMAIN toc'[i].chunks}} :
                  i \in DOMAIN toc'}

Precedes(a, b) == a[1] < b[1] \/ (a[1] = b[1] /\ a[2] < b[2])

(* Variant: chunks that share a frame are not reduced to one range. *)
LayoutWithoutDedup == \A i, j \in DOMAIN toc' : i < j =>
    \A a \in DOMAIN toc'[i].chunks, b \in DOMAIN toc'[j].chunks :
        toc'[i].chunks[a].compressedOffset + toc'[i].chunks[a].compressedSize
            <= toc'[j].chunks[b].compressedOffset

(* validate_chunk_layout.  In the sorted list of distinct ranges each starts
   after the one before it has ended, hence after all those before it. *)
ValidChunkLayout ==
    /\ \A r \in Ranges : IdentitySize <= r[1] /\ r[1] + r[2] <= footer.tocOffset
    /\ \A a, b \in Ranges : Precedes(a, b) => a[1] + a[2] <= b[1]

(* f[1] + ... + f[n], as a function of n that proofs can reason about. *)
SumOf(f, n) ==
    LET sum[j \in 0 .. n] == IF j = 0 THEN 0 ELSE sum[j - 1] + f[j]
    IN  sum[n]

TotalChunkSize(m) ==
    SumOf([j \in DOMAIN m.chunks |-> m.chunks[j].uncompressedSize], Len(m.chunks))

(* Variant: members are taken to own whole frames. *)
TarStartByFrames(i) ==
    SumOf([j \in DOMAIN toc |->
              IF toc[j].chunks # <<>> /\ toc[j].chunks[1].frameOffset = 0
              THEN TotalChunkSize(toc[j]) ELSE 0], i - 1)

(* chunk_tar_start: where the chunks of member i begin in the tar stream. *)
ChunkTarStart(i) == SumOf([j \in DOMAIN toc |-> TotalChunkSize(toc[j])], i - 1)

CurrentChunk == toc[idx].chunks[k]

(* The first and the last of the whole frames that the chunk's range consists
   of.  A range that begins or ends inside a frame has none. *)
FrameRuns(c) == {r \in (DOMAIN frames) \X (DOMAIN frames) :
    /\ r[1] <= r[2]
    /\ frames[r[1]].at = c.compressedOffset
    /\ frames[r[2]].at + frames[r[2]].size = c.compressedOffset + c.compressedSize}

-----------------------------------------------------------------------------
ReaderInit ==
    /\ damage = {} /\ badFrames = {}
    /\ toc = <<>>
    /\ rpc = "closed" /\ op = "none"
    /\ idx = 0 /\ until = 0 /\ k = 0
    /\ skip = 0 /\ remaining = 0
    /\ out = <<>> /\ verdicts = <<>>
    /\ outcome = "none"

(* External: the storage.  No file is longer than a u64 can say. *)
Damage ==
    /\ rpc = "closed" /\ pc = "done"
    /\ footer.tocOffset < Word
    /\ damage' \in MetaDamages
    /\ badFrames' \in {b \in SUBSET DOMAIN frames : Cardinality(b) <= MaxBadFrames}
    /\ rpc' = "stored"
    /\ UNCHANGED <<toc, op, idx, until, k, skip, remaining, out, verdicts, outcome>>

(* The TOC's zstd frame carries no checksum, so damage to it may go through as
   another text, here with one value of one entry changed.  Any number may read
   as another; a lost frame_offset is 0, a lost content_sha256 is none; a type
   may read as another type. *)
Misread(n) == {(n + slip) % Word : slip \in Slips}

WrongDigest == {WrongByte}

AlteredChunk(c) ==
    {[c EXCEPT !.compressedOffset = n] : n \in Misread(c.compressedOffset)}
    \cup {[c EXCEPT !.compressedSize = n] : n \in Misread(c.compressedSize)}
    \cup {[c EXCEPT !.uncompressedSize = n] : n \in Misread(c.uncompressedSize)}
    \cup {[c EXCEPT !.frameOffset = n] : n \in Misread(c.frameOffset) \cup {0}}

Altered(m) ==
    {[m EXCEPT !.size = n] : n \in Misread(m.size)}
    \cup {[m EXCEPT !.tarOffset = n] : n \in Misread(m.tarOffset)}
    \cup {[m EXCEPT !.kind = t] : t \in Kinds}
    \cup {[m EXCEPT !.digest = d] : d \in {NoDigest, WrongDigest}}
    \cup UNION {{[m EXCEPT !.chunks = [@ EXCEPT ![j] = c]] :
                   c \in AlteredChunk(m.chunks[j])} : j \in DOMAIN m.chunks}

LoadedTocs == IF <<"toc", "payload">> \in damage
              THEN UNION {{[members EXCEPT ![i] = m] : m \in Altered(members[i])} :
                            i \in DOMAIN members}
              ELSE {members}

Hit(frame) == {x \in Fields[frame] : <<frame, x>> \in damage}

(* read_identity_frame and the match on the version.  The payload may have any
   length from 6 on, so that a damaged length field may be accepted. *)
IdentityReads == Hit("identity") \subseteq {"length"}

(* read_footer: everything but the pointers and the hash is a constant, and the
   footer is looked for at the end of the file. *)
FooterReads == Hit("footer") \cap FrameHead = {} /\ Hit("file") = {}

(* The pointers have to add up with the size of the file, and to lead to the
   head of a TOC frame of that size (read_toc, decode_toc_payload). *)
TocReads ==
    /\ Hit("footer") \cap {"tocOffset", "tocSize"} = {}
    /\ Hit("toc") \subseteq {"payload"}
    /\ footer.tocJson <= MaxTocJson

(* from_seekable *)
OpenArchive ==
    /\ rpc = "stored"
    /\ IdentityReads /\ FooterReads /\ TocReads
    /\ toc' \in LoadedTocs
    /\ ValidChunkLayout
    /\ rpc' = "idle"
    /\ UNCHANGED <<damage, badFrames, op, idx, until, k, skip, remaining, out,
                   verdicts, outcome>>

(* A damaged TOC payload may as well fail to decompress or to parse. *)
RefuseArchive ==
    /\ rpc = "stored"
    /\ toc' \in LoadedTocs
    /\ \/ ~(IdentityReads /\ FooterReads /\ TocReads)
       \/ damage \cap {<<"identity", "length">>, <<"toc", "payload">>} # {}
       \/ ~ValidChunkLayout
    /\ rpc' = "refused"
    /\ UNCHANGED <<damage, badFrames, op, idx, until, k, skip, remaining, out,
                   verdicts, outcome>>

End(result) == rpc' = "ended" /\ outcome' = result
-----------------------------------------------------------------------------
(* extract_by_index on member i: the checks and sums before its loop. *)

Extractable(i) == toc[i].kind = "File" /\ toc[i].chunks # <<>>

(* Variant: the content is taken to start at the entry's tar_offset. *)
LocateHeader(i) ==
    /\ Extractable(i)
    /\ skip' = (toc[i].tarOffset - ChunkTarStart(i)) % Word
    /\ remaining' = toc[i].size
    /\ k' = 1
    /\ out' = <<>>
    /\ rpc' = "chunk"

Locate(i) ==
    /\ Extractable(i)
    /\ skip' = (toc[i].tarOffset - ChunkTarStart(i) + Block) % Word
    /\ remaining' = toc[i].size
    /\ k' = 1
    /\ out' = <<>>
    /\ rpc' = "chunk"

(* One of these sums and differences does not fit a u64. *)
Overflows(i) ==
    \/ ChunkTarStart(i) >= Word
    \/ toc[i].tarOffset < ChunkTarStart(i)
    \/ toc[i].tarOffset - ChunkTarStart(i) + Block >= Word

(* extract_member, extract_member_at *)
BeginExtract == \E i \in DOMAIN toc :
    /\ rpc = "idle"
    /\ Locate(i)
    /\ op' = "extract" /\ idx' = i /\ until' = i
    /\ UNCHANGED <<damage, badFrames, toc, verdicts, outcome>>

(* "not a regular file", "member has no chunks"; verify_member refuses the
   same members. *)
DeclineMember == \E i \in DOMAIN toc :
    /\ rpc = "idle"
    /\ ~Extractable(i)
    /\ op' = "extract" /\ idx' = i /\ until' = i
    /\ End("error")
    /\ UNCHANGED <<damage, badFrames, toc, k, skip, remaining, out, verdicts>>

(* With overflow checks. *)
ExtractPanics == \E i \in DOMAIN toc :
    /\ rpc = "idle"
    /\ Extractable(i) /\ Overflows(i)
    /\ op' = "extract" /\ idx' = i /\ until' = i
    /\ End("panic")
    /\ UNCHANGED <<damage, badFrames, toc, k, skip, remaining, out, verdicts>>

(* Is there a chunk to decode? *)
InLoop == rpc = "chunk" /\ remaining > 0 /\ k <= Len(toc[idx].chunks)

Decoded(r) == \A f \in r[1] .. r[2] : f \notin badFrames

(* A chunk before the content is decoded and thrown away. *)
SkipChunk ==
    /\ InLoop
    /\ \E r \in FrameRuns(CurrentChunk) : Decoded(r)
    /\ skip >= CurrentChunk.uncompressedSize
    /\ skip' = skip - CurrentChunk.uncompressedSize
    /\ k' = k + 1
    /\ UNCHANGED <<damage, badFrames, toc, rpc, op, idx, until, remaining, out,
                   verdicts, outcome>>

Lesser(a, b) == IF a < b THEN a ELSE b

(* Variant: the padding after the content is copied as well. *)
TakeAvailable == CurrentChunk.uncompressedSize - skip

Take == Lesser(CurrentChunk.uncompressedSize - skip, remaining)

(* Variant: the member is taken to begin the frame. *)
ContentAtFrameStart(r) == frames[r[1]].start + skip

ContentFrom(r) == frames[r[1]].start + ((CurrentChunk.frameOffset + skip) % Word)

CopyChunk ==
    /\ InLoop
    /\ skip < CurrentChunk.uncompressedSize
    /\ \E r \in FrameRuns(CurrentChunk) :
          /\ Decoded(r)
          /\ ContentFrom(r) + Take <= frames[r[2]].end
          /\ out' = out \o [j \in 1 .. Take |-> ContentFrom(r) + j - 1]
    /\ remaining' = remaining - Take
    /\ skip' = 0
    /\ k' = k + 1
    /\ UNCHANGED <<damage, badFrames, toc, rpc, op, idx, until, verdicts, outcome>>

(* A damaged frame fails, at its checksum at the latest, by when some bytes,
   right or wrong, may have reached the sink.  So does a range that is not made
   of whole frames, and a frame that is too short. *)
ChunkFails ==
    /\ InLoop
    /\ \/ \A r \in FrameRuns(CurrentChunk) : ~Decoded(r)
       \/ \E r \in FrameRuns(CurrentChunk) :
            /\ skip < CurrentChunk.uncompressedSize
            /\ ContentFrom(r) + Take > frames[r[2]].end
    /\ \/ out' = out
       \/ skip < CurrentChunk.uncompressedSize /\ out' = Append(out, WrongByte)
    /\ End("error")
    /\ UNCHANGED <<damage, badFrames, toc, op, idx, until, k, skip, remaining,
                   verdicts>>

(* chunk.frame_offset + skip, with overflow checks. *)
ChunkPanics ==
    /\ InLoop
    /\ skip < CurrentChunk.uncompressedSize
    /\ CurrentChunk.frameOffset + skip >= Word
    /\ End("panic")
    /\ UNCHANGED <<damage, badFrames, toc, op, idx, until, k, skip, remaining,
                   out, verdicts>>

LoopDone == rpc = "chunk" /\ remaining = 0

FinishExtract ==
    /\ LoopDone
    /\ op = "extract"
    /\ End("ok")
    /\ UNCHANGED <<damage, badFrames, toc, op, idx, until, k, skip, remaining,
                   out, verdicts>>

(* "archive truncated" *)
DataMissing ==
    /\ rpc = "chunk"
    /\ remaining > 0 /\ k > Len(toc[idx].chunks)
    /\ End("error")
    /\ UNCHANGED <<damage, badFrames, toc, op, idx, until, k, skip, remaining,
                   out, verdicts>>
-----------------------------------------------------------------------------
(* The verify operations. *)

BeginVerify ==
    /\ rpc = "idle"
    /\ \/ op' = "verifyAll" /\ idx' = 1 /\ until' = Len(toc)
       \/ \E i \in DOMAIN toc :
             Extractable(i) /\ op' = "verifyMember" /\ idx' = i /\ until' = i
    /\ rpc' = "verify"
    /\ UNCHANGED <<damage, badFrames, toc, k, skip, remaining, out, verdicts, outcome>>

AtMember == rpc = "verify" /\ idx <= until

(* Variant: idx stays. *)
VerifySkipsInPlace ==
    /\ AtMember
    /\ toc[idx].kind # "File" \/ toc[idx].digest = NoDigest
    /\ verdicts' = IF toc[idx].kind = "File" THEN Append(verdicts, "none") ELSE verdicts
    /\ UNCHANGED <<damage, badFrames, toc, rpc, op, idx, until, k, skip,
                   remaining, out, outcome>>

(* Members that are not files leave no record. *)
VerifySkips ==
    /\ AtMember
    /\ toc[idx].kind # "File" \/ toc[idx].digest = NoDigest
    /\ verdicts' = IF toc[idx].kind = "File" THEN Append(verdicts, "none") ELSE verdicts
    /\ idx' = idx + 1
    /\ UNCHANGED <<damage, badFrames, toc, rpc, op, until, k, skip, remaining,
                   out, outcome>>

VerifyReads ==
    /\ AtMember
    /\ toc[idx].kind = "File" /\ toc[idx].digest # NoDigest
    /\ Locate(idx)
    /\ UNCHANGED <<damage, badFrames, toc, op, idx, until, verdicts, outcome>>

VerifyPanics ==
    /\ AtMember
    /\ toc[idx].kind = "File" /\ toc[idx].digest # NoDigest
    /\ Extractable(idx) /\ Overflows(idx)
    /\ End("panic")
    /\ UNCHANGED <<damage, badFrames, toc, op, idx, until, k, skip, remaining,
                   out, verdicts>>

(* A digest of the writer is the set of the offsets it hashed, in their order;
   the digest of s is the same when s is that sequence. *)
HashesTo(s, digest) ==
    /\ {s[j] : j \in DOMAIN s} = digest
    /\ \A i, j \in DOMAIN s : i < j => s[i] < s[j]

(* Variant: the digest is not compared. *)
VerifyComparesSize ==
    /\ LoopDone
    /\ op # "extract"
    /\ verdicts' = Append(verdicts, "ok")
    /\ rpc' = "verify"
    /\ idx' = idx + 1
    /\ UNCHANGED <<damage, badFrames, toc, op, until, k, skip, remaining, out,
                   outcome>>

VerifyCompares ==
    /\ LoopDone
    /\ op # "extract"
    /\ verdicts' = Append(verdicts, IF HashesTo(out, toc[idx].digest)
                                    THEN "ok" ELSE "mismatch")
    /\ rpc' = "verify"
    /\ idx' = idx + 1
    /\ UNCHANGED <<damage, badFrames, toc, op, until, k, skip, remaining, out,
                   outcome>>

VerifyEnds ==
    /\ rpc = "verify" /\ idx > until
    /\ End(IF \E j \in DOMAIN verdicts : verdicts[j] = "mismatch" THEN "error" ELSE "ok")
    /\ UNCHANGED <<damage, badFrames, toc, op, idx, until, k, skip, remaining,
                   out, verdicts>>

(* Variant: hashing starts after the identity frame. *)
HashAfterIdentity == badFrames = {} /\ Hit("toc") = {} /\ "hash" \notin Hit("footer")

(* The digest of everything before the footer is the one the writer put into
   the footer. *)
HashMatches == badFrames = {} /\ Hit("identity") = {} /\ Hit("toc") = {}
               /\ "hash" \notin Hit("footer")

(* verify_archive_hash *)
QuickVerify ==
    /\ rpc = "idle"
    /\ op' = "quick"
    /\ End(IF HashMatches THEN "ok" ELSE "error")
    /\ UNCHANGED <<damage, badFrames, toc, idx, until, k, skip, remaining, out,
                   verdicts>>
-----------------------------------------------------------------------------
(* The info command: what it says of the frames that hold members. *)

(* The chunks in the order of the TOC, and those of them that are the first at
   their compressed offset. *)
ChunkPlaces == UNION {{i} \X (DOMAIN toc[i].chunks) : i \in DOMAIN toc}
ChunkIn(p) == toc[p[1]].chunks[p[2]]
FirstPlaces == {p \in ChunkPlaces : \A q \in ChunkPlaces :
    ChunkIn(q).compressedOffset = ChunkIn(p).compressedOffset => ~Precedes(q, p)}

(* Variant: the members of a shared frame are taken to have frames of their own. *)
FramesPerMember == {<<ChunkIn(p).compressedOffset + ChunkIn(p).frameOffset,
                      ChunkIn(p).compressedSize>> : p \in ChunkPlaces}

(* Keyed by the compressed offset; the first chunk there gives the size. *)
InfoFrames == {<<ChunkIn(p).compressedOffset, ChunkIn(p).compressedSize>> : p \in FirstPlaces}

(* The sizes of the frames in S, added in any order. *)
TotalSize(S) == MapThenFoldSet(LAMBDA x, y : x + y, 0, LAMBDA r : r[2],
                               LAMBDA s : CHOOSE r \in s : TRUE, S)

(* The sizes of the frames are those of ranges of the file that do not overlap
   (validate_chunk_layout), so only the tar bytes may be too many for a u64. *)
Info ==
    /\ rpc = "idle"
    /\ op' = "info"
    /\ out' = <<Cardinality(InfoFrames), TotalSize(InfoFrames),
                 ChunkTarStart(Len(toc) + 1) % Word>>
    /\ End("ok")
    /\ UNCHANGED <<damage, badFrames, toc, idx, until, k, skip, remaining, verdicts>>

InfoPanics ==
    /\ rpc = "idle"
    /\ ChunkTarStart(Len(toc) + 1) >= Word
    /\ op' = "info"
    /\ End("panic")
    /\ UNCHANGED <<damage, badFrames, toc, idx, until, k, skip, remaining, out,
                   verdicts>>
-----------------------------------------------------------------------------
Stepping ==
    \/ SkipChunk \/ CopyChunk \/ ChunkFails \/ ChunkPanics
    \/ FinishExtract \/ DataMissing
    \/ VerifySkips \/ VerifyReads \/ VerifyPanics \/ VerifyCompares \/ VerifyEnds

ReaderNext ==
    \/ Damage \/ OpenArchive \/ RefuseArchive
    \/ BeginExtract \/ DeclineMember \/ ExtractPanics \/ BeginVerify
    \/ QuickVerify \/ Info \/ InfoPanics
    \/ Stepping

Finished == rpc \in {"refused", "ended"} /\ UNCHANGED allVars

ArchiveInit == Init /\ ReaderInit

ArchiveNext ==
    \/ Next /\ UNCHANGED readVars
    \/ ReaderNext /\ UNCHANGED vars
    \/ Finished

(* The loop of an operation that was begun runs on by itself. *)
ArchiveSpec == ArchiveInit /\ [][ArchiveNext]_allVars /\ WF_allVars(Stepping /\ UNCHANGED vars)
-----------------------------------------------------------------------------
(* Correctness. *)

(* The reader's variables keep their types, and its u64 sums and differences
   overflow only if a damaged TOC has been read: whatever data frames are
   damaged, those over the writer's chunks fit (extract_by_index, cmd_info.rs). *)
ReaderTypeOK ==
    /\ damage \subseteq DamageKinds
    /\ badFrames \subseteq DOMAIN frames
    /\ toc \in Seq(MemberRecords)
    /\ rpc \in {"closed", "stored", "idle", "chunk", "verify", "refused", "ended"}
    /\ op \in {"none", "extract", "verifyAll", "verifyMember", "quick", "info"}
    /\ idx \in Nat /\ until \in Nat /\ k \in Nat
    /\ skip \in Nat /\ remaining \in Nat
    /\ out \in Seq(Nat \cup {WrongByte})
    /\ verdicts \in Seq({"ok", "mismatch", "none"})
    /\ outcome \in {"none", "ok", "error", "panic"}
    /\ outcome = "panic" => Hit("toc") # {}

ContentOf(m) == [j \in 1 .. m.size |-> m.dataStart + j - 1]

(* An extraction that reports success has written the member's content,
   the whole of it and nothing else, whichever frames are damaged: the sums
   over the chunks of all members before it, global and extension headers,
   shared frames and frame boundaries all agree with what the writer did. *)
ExtractExact ==
    op = "extract" /\ outcome = "ok" /\ Hit("toc") = {} =>
        out = ContentOf(members[idx])

(* "damage to one data frame takes out one member (or a handful of small
   members that share a frame), not the whole archive": a file whose own frames
   are intact can be read. *)
DamageIsolated ==
    /\ op = "extract" /\ outcome \in {"error", "panic"} /\ Hit("toc") = {}
    /\ members[idx].kind = "File"
    => \E j \in DOMAIN members[idx].chunks :
          FrameOf(members[idx].chunks[j]) \in badFrames

(* A verify that succeeds means that every file it read is intact: the TOC has
   the size the writer gave it, and no frame with a byte of its content is
   damaged, even if a damaged TOC has led the reader elsewhere.  It reads what
   the TOC calls a file and has a digest for; an entry whose type or digest the
   damage has taken away leaves no record, or one that says so. *)
VerifyOkMeansIntact ==
    op \in {"verifyAll", "verifyMember"} /\ outcome = "ok" =>
        \A i \in DOMAIN members :
            /\ members[i].kind = "File" /\ members[i].digest # NoDigest
            /\ toc[i].kind = "File" /\ toc[i].digest # NoDigest
            /\ op = "verifyAll" \/ i = until
            => LET m == members[i] IN
               /\ toc[i].size = m.size
               /\ \A f \in badFrames :
                     \/ frames[f].end <= m.dataStart
                     \/ m.dataStart + m.size <= frames[f].start
                     \/ m.size = 0

(* "--quick catches any byte-level damage to the archive file": an archive
   that opens and passes is as it was written. *)
QuickCatchesDamage ==
    op = "quick" /\ outcome = "ok" => damage = {} /\ badFrames = {}

(* An intact archive opens, and in particular its chunk layout is accepted,
   unless its TOC is larger than the reader's cap. *)
IntactOpens ==
    rpc = "refused" /\ damage = {} => footer.tocJson > MaxTocJson

(* "Small members can share a compressed frame, so collapse chunk records to
   distinct frames" (cmd_info.rs:32): every frame but the trailing one, which
   no member is in, is counted once, and the sizes add up to what the writer
   put into these frames and to the tar bytes it took for them. *)
InfoAddsUp == op = "info" /\ outcome = "ok" /\ Hit("toc") = {} =>
    LET data == SubSeq(frames, 1, Len(frames) - 1) IN
    out = <<Len(data), SumOf([f \in DOMAIN data |-> data[f].size], Len(data)),
            IF data = <<>> THEN 0 ELSE data[Len(data)].end>>

(* An operation that was begun ends. *)
OperationsEnd == rpc \in {"chunk", "verify"} ~> rpc = "ended"

(* README, Compatibility: "Every archive written by any tarzan release from
   0.2.0 on opens". *)
WrittenArchiveOpens == rpc = "refused" => damage # {}

(* README, What happens when bits flip: "TOC frame | open rejects the file (TOC won't
   decompress)". *)
TocDamageRefused == rpc = "idle" => Hit("toc") = {}
=============================================================================
