-------------------------- MODULE WrapMemberProofs --------------------------
(***************************************************************************)
(* Theorems about the TOC that the writer builds: every chunk leads to the *)
(* bytes it stands for, digests cover the content and nothing else,        *)
(* members are reported once, in order, and never change afterwards, and   *)
(* the footer is written over a complete archive only.                     *)
(***************************************************************************)
EXTENDS WrapProofs

-----------------------------------------------------------------------------
(* Chunks and frames.  These operators say of any sequence of frames what
   FrameOf and RawStart say of the output, so that a lemma can compare the
   output before a step with the output after it. *)

FrameIn(fs, c) == CHOOSE f \in DOMAIN fs :
                     fs[f].at = c.compressedOffset /\ fs[f].size = c.compressedSize
StartIn(fs, c) == fs[FrameIn(fs, c)].start + c.frameOffset

Leads(fs, c, f) ==
    /\ fs[f].at = c.compressedOffset
    /\ fs[f].size = c.compressedSize
    /\ fs[f].start + c.frameOffset + c.uncompressedSize <= fs[f].end

(* The chunks cs lie in fs one behind the other, from `start` on. *)
ChainedIn(fs, cs, start) == \A k \in DOMAIN cs :
    /\ \E f \in DOMAIN fs : Leads(fs, cs[k], f)
    /\ StartIn(fs, cs[k]) = IF k = 1 THEN start
                            ELSE StartIn(fs, cs[k - 1]) + cs[k - 1].uncompressedSize

(* Where they end. *)
EndIn(fs, cs, start) ==
    IF cs = <<>> THEN start
    ELSE StartIn(fs, cs[Len(cs)]) + cs[Len(cs)].uncompressedSize

(* What lies in the frames fs lies at the same place in gs. *)
Stays(fs, gs) == \A cs \in Seq(ChunkRecords), start \in Nat :
    ChainedIn(fs, cs, start) =>
       /\ ChainedIn(gs, cs, start)
       /\ EndIn(gs, cs, start) = EndIn(fs, cs, start)

(* Frames of at least one byte that follow each other in the file: a chunk's
   offset leads to one of them only. *)
InOrder(fs) ==
    /\ \A f \in DOMAIN fs : fs[f].size > 0
    /\ \A f, g \in DOMAIN fs : f < g => fs[f].at + fs[f].size <= fs[g].at

-----------------------------------------------------------------------------
(* The inductive invariant: first what the TOC entries ms and the group g are
   worth when the frames fs are in the output, `rep` members have been reported
   and the next frame begins at `next`. *)

Before(ms, i) == IF i = 1 THEN 0 ELSE ms[i - 1].entryEnd

(* The regions follow each other. *)
Regions(ms) == \A i \in DOMAIN ms :
    /\ Before(ms, i) < ms[i].entryEnd
    /\ ms[i].entryEnd <= Before(ms, Len(ms) + 1)

(* The group is made of the members behind the reported ones, and knows where
   each of them will lie in the shared frame. *)
Waits(ms, rep, g, next) == \A k \in DOMAIN g :
    /\ g[k].idx = rep + k
    /\ ms[rep + k].chunks = <<>>
    /\ g[k].region = ms[rep + k].entryEnd - Before(ms, rep + k)
    /\ next + g[k].offset = Before(ms, rep + k)

(* The chunks of every member begin with its region, those of a reported member
   end with it. *)
Chained(fs, ms) == \A i \in DOMAIN ms :
    ChainedIn(fs, ms[i].chunks, Before(ms, i))
Covered(fs, ms, rep) == \A i \in 1 .. rep :
    /\ ms[i].chunks # <<>>
    /\ EndIn(fs, ms[i].chunks, Before(ms, i)) = ms[i].entryEnd

Expected(m) == IF m.kind = "File" /\ ComputeSha256
               THEN m.dataStart .. m.dataStart + m.size - 1
               ELSE NoDigest
Digested(ms, n) == \A i \in 1 .. n : ms[i].digest = Expected(ms[i])

TocSound(fs, ms, rep, g, next) ==
    /\ rep + Len(g) <= Len(ms)
    /\ Regions(ms)
    /\ Waits(ms, rep, g, next)
    /\ Chained(fs, ms)
    /\ Covered(fs, ms, rep)
    /\ Digested(ms, rep + Len(g))

(* What has been read, hashed and cut of the member that is being streamed. *)
StreamInv == pc = "stream" =>
    LET m == members[Len(members)] IN
    /\ EndIn(frames, m.chunks, Before(members, Len(members))) = nextChunkStart
    /\ m.entryEnd = m.dataStart + Padded(m.size)
    /\ dataLeft <= m.size
    /\ content = m.dataStart .. m.dataStart + m.size - dataLeft - 1
    /\ dataLeft > 0 => winEnd = m.dataStart + m.size - dataLeft
    /\ dataLeft = 0 => m.dataStart + m.size <= winEnd
    /\ content # {} => winEnd - winBase < ChunkSize + Scratch

EndInv ==
    /\ pc \in {"trailer", "toc", "done"} =>
          parseStart + 2 * Block <= inputLen /\ markerZero
    /\ pc = "done" => footer.tocOffset = pos

MemberInv ==
    /\ InOrder(frames)
    /\ prevEnd = Before(members, Len(members) + 1)
    /\ ReportsInOrder
    /\ TocSound(frames, members, Len(reported), group, nextChunkStart)
    /\ StreamInv
    /\ EndInv
-----------------------------------------------------------------------------
(* Lemmas about chunks and frames. *)

(* The frame a chunk names is found by it. *)
LEMMA FoundIn ==
    ASSUME NEW fs \in Seq(FrameRecords), InOrder(fs), NEW c,
           NEW f \in DOMAIN fs, fs[f].at = c.compressedOffset,
           fs[f].size = c.compressedSize
    PROVE  StartIn(fs, c) = fs[f].start + c.frameOffset
<1> DEFINE g == FrameIn(fs, c)
<1>1. g \in DOMAIN fs /\ fs[g].at = c.compressedOffset
    BY DEF FrameIn
<1> HIDE DEF g
<1>2. f \in Nat /\ g \in Nat /\ fs[f] \in FrameRecords /\ fs[g] \in FrameRecords
    BY <1>1
<1>3. /\ f < g => fs[f].at + fs[f].size <= fs[g].at
      /\ g < f => fs[g].at + fs[g].size <= fs[f].at
      /\ fs[f].size > 0 /\ fs[g].size > 0
    BY <1>1 DEF InOrder
<1>4. /\ fs[f].at \in Nat /\ fs[f].size \in Nat
      /\ fs[g].at \in Nat /\ fs[g].size \in Nat
    BY <1>2 DEF FrameRecords
<1>5. g = f
    BY <1>1, <1>2, <1>3, <1>4
<1> QED
    BY <1>5 DEF StartIn, g

LEMMA AppendFacts ==
    ASSUME NEW S, NEW s \in Seq(S), NEW x \in S
    PROVE  /\ Append(s, x) \in Seq(S) /\ Append(s, x) # <<>>
           /\ Len(s) \in Nat /\ Len(Append(s, x)) = Len(s) + 1
           /\ DOMAIN s = 1 .. Len(s)
           /\ DOMAIN Append(s, x) = 1 .. Len(s) + 1
           /\ \A i \in 1 .. Len(s) : Append(s, x)[i] = s[i]
           /\ Append(s, x)[Len(s) + 1] = x
OBVIOUS

LEMMA ConcatFacts ==
    ASSUME NEW S, NEW s \in Seq(S), NEW t \in Seq(S)
    PROVE  /\ s \o t \in Seq(S)
           /\ Len(s) \in Nat /\ Len(t) \in Nat
           /\ Len(s \o t) = Len(s) + Len(t)
           /\ DOMAIN s = 1 .. Len(s)
           /\ DOMAIN (s \o t) = 1 .. Len(s) + Len(t)
           /\ \A i \in 1 .. Len(s) : (s \o t)[i] = s[i]
           /\ \A i \in Len(s) + 1 .. Len(s) + Len(t) : (s \o t)[i] = t[i - Len(s)]
OBVIOUS

(* One more frame does not move a chunk that is in place. *)
LEMMA LeadsStays ==
    ASSUME NEW fs \in Seq(FrameRecords), NEW x \in FrameRecords,
           InOrder(fs), InOrder(Append(fs, x)), NEW c,
           \E f \in DOMAIN fs : Leads(fs, c, f)
    PROVE  /\ \E f \in DOMAIN Append(fs, x) : Leads(Append(fs, x), c, f)
           /\ StartIn(Append(fs, x), c) = StartIn(fs, c)
<1> DEFINE new == Append(fs, x)
<1>1. PICK f \in DOMAIN fs : Leads(fs, c, f)
    OBVIOUS
<1>2. new \in Seq(FrameRecords) /\ f \in DOMAIN new /\ new[f] = fs[f]
    BY AppendFacts
<1>3. InOrder(new)
    OBVIOUS
<1> HIDE DEF new
<1>4. Leads(new, c, f)
    BY <1>1, <1>2 DEF Leads
<1>5. StartIn(fs, c) = fs[f].start + c.frameOffset
    BY <1>1, FoundIn DEF Leads
<1>6. StartIn(new, c) = new[f].start + c.frameOffset
    BY <1>2, <1>3, <1>4, FoundIn DEF Leads
<1>7. /\ \E j \in DOMAIN new : Leads(new, c, j)
      /\ StartIn(new, c) = StartIn(fs, c)
    BY <1>2, <1>4, <1>5, <1>6
<1> QED
    BY <1>7 DEF new

LEMMA ChainStays ==
    ASSUME NEW fs \in Seq(FrameRecords), NEW x \in FrameRecords,
           InOrder(fs), InOrder(Append(fs, x)),
           NEW cs \in Seq(ChunkRecords), NEW start, ChainedIn(fs, cs, start)
    PROVE  /\ ChainedIn(Append(fs, x), cs, start)
           /\ EndIn(Append(fs, x), cs, start) = EndIn(fs, cs, start)
<1> DEFINE new == Append(fs, x)
<1>1. ASSUME NEW k \in DOMAIN cs
      PROVE  /\ \E f \in DOMAIN new : Leads(new, cs[k], f)
             /\ StartIn(new, cs[k]) = StartIn(fs, cs[k])
    BY <1>1, LeadsStays DEF ChainedIn
<1> HIDE DEF new
<1>2. ChainedIn(new, cs, start)
    <2> SUFFICES ASSUME NEW k \in DOMAIN cs
                 PROVE  /\ \E f \in DOMAIN new : Leads(new, cs[k], f)
                        /\ StartIn(new, cs[k]) =
                             IF k = 1 THEN start
                             ELSE StartIn(new, cs[k - 1])
                                    + cs[k - 1].uncompressedSize
        BY DEF ChainedIn
    <2>1. k # 1 => k - 1 \in DOMAIN cs
        OBVIOUS
    <2>2. StartIn(fs, cs[k]) =
             IF k = 1 THEN start
             ELSE StartIn(fs, cs[k - 1]) + cs[k - 1].uncompressedSize
        BY DEF ChainedIn
    <2> QED
        BY <1>1, <2>1, <2>2
<1>3. EndIn(new, cs, start) = EndIn(fs, cs, start)
    <2>1. CASE cs = <<>>
        BY <2>1 DEF EndIn
    <2>2. CASE cs # <<>>
        <3>1. Len(cs) \in DOMAIN cs
            BY <2>2
        <3> QED
            BY <1>1, <2>2, <3>1 DEF EndIn
    <2> QED
        BY <2>1, <2>2
<1> QED
    BY <1>2, <1>3 DEF new

(* A chunk in the new frame, that begins where the chain has ended, is its next
   link. *)
LEMMA ChainGrows ==
    ASSUME NEW fs \in Seq(FrameRecords), NEW x \in FrameRecords,
           InOrder(fs), InOrder(Append(fs, x)),
           NEW cs \in Seq(ChunkRecords), NEW start, ChainedIn(fs, cs, start),
           NEW c \in ChunkRecords, c.compressedOffset = x.at,
           c.compressedSize = x.size,
           x.start + c.frameOffset = EndIn(fs, cs, start),
           x.start + c.frameOffset + c.uncompressedSize <= x.end
    PROVE  /\ ChainedIn(Append(fs, x), Append(cs, c), start)
           /\ EndIn(Append(fs, x), Append(cs, c), start)
                = x.start + c.frameOffset + c.uncompressedSize
<1> DEFINE new == Append(fs, x)
           ds == Append(cs, c)
           n == Len(cs)
<1>1. /\ new \in Seq(FrameRecords) /\ new[Len(fs) + 1] = x
      /\ Len(fs) + 1 \in DOMAIN new /\ InOrder(new)
    BY AppendFacts
<1>2. /\ ds # <<>> /\ n \in Nat /\ Len(ds) = n + 1
      /\ DOMAIN cs = 1 .. n /\ DOMAIN ds = 1 .. n + 1
      /\ (\A i \in 1 .. n : ds[i] = cs[i]) /\ ds[n + 1] = c
    BY AppendFacts
<1>3. ChainedIn(new, cs, start) /\ EndIn(new, cs, start) = EndIn(fs, cs, start)
    BY ChainStays
<1>4. n = 0 <=> cs = <<>>
    OBVIOUS
<1> HIDE DEF new, ds, n
<1>5. Leads(new, c, Len(fs) + 1)
    BY <1>1 DEF Leads
<1>6. StartIn(new, c) = x.start + c.frameOffset
    BY <1>1, FoundIn
<1>7. ChainedIn(new, ds, start)
    <2> SUFFICES ASSUME NEW k \in 1 .. n + 1
                 PROVE  /\ \E f \in DOMAIN new : Leads(new, ds[k], f)
                        /\ StartIn(new, ds[k]) =
                             IF k = 1 THEN start
                             ELSE StartIn(new, ds[k - 1])
                                    + ds[k - 1].uncompressedSize
        BY <1>2 DEF ChainedIn
    <2>1. CASE k \in 1 .. n
        <3>1. k # 1 => k - 1 \in 1 .. n
            BY <2>1, <1>2
        <3>2. /\ \E f \in DOMAIN new : Leads(new, cs[k], f)
              /\ StartIn(new, cs[k]) =
                   IF k = 1 THEN start
                   ELSE StartIn(new, cs[k - 1]) + cs[k - 1].uncompressedSize
            BY <2>1, <1>2, <1>3 DEF ChainedIn
        <3> QED
            BY <2>1, <3>1, <3>2, <1>2
    <2>2. CASE k = n + 1
        <3>1. \E f \in DOMAIN new : Leads(new, ds[k], f)
            BY <2>2, <1>1, <1>2, <1>5
        <3>2. StartIn(new, ds[k]) = EndIn(new, cs, start)
            BY <2>2, <1>2, <1>3, <1>6
        <3>3. CASE n = 0
            BY <2>2, <3>1, <3>2, <3>3, <1>4 DEF EndIn
        <3>4. CASE n # 0
            <4>1. EndIn(new, cs, start) =
                    StartIn(new, cs[n]) + cs[n].uncompressedSize
                BY <3>4, <1>4 DEF EndIn, n
            <4>2. k # 1 /\ k - 1 = n /\ n \in 1 .. n
                BY <2>2, <3>4, <1>2
            <4>3. ds[k - 1] = cs[n]
                BY <4>2, <1>2
            <4> QED
                BY <3>1, <3>2, <4>1, <4>2, <4>3
        <3> QED
            BY <3>3, <3>4
    <2> QED
        BY <2>1, <2>2, <1>2
<1>8. EndIn(new, ds, start) = x.start + c.frameOffset + c.uncompressedSize
    BY <1>2, <1>6 DEF EndIn
<1> QED
    BY <1>7, <1>8 DEF new, ds
-----------------------------------------------------------------------------
(* Lemmas about what the writer does to the TOC. *)

LEMMA BeforeType ==
    ASSUME NEW ms \in Seq(MemberRecords), NEW i \in 1 .. Len(ms) + 1
    PROVE  Before(ms, i) \in Nat
<1>1. CASE i = 1
    BY <1>1 DEF Before
<1>2. CASE i # 1
    <2>1. ms[i - 1] \in MemberRecords
        BY <1>2
    <2> QED
        BY <1>2, <2>1 DEF Before, MemberRecords
<1> QED
    BY <1>1, <1>2

(* A member is added behind the others, with no chunk yet. *)
LEMMA NewMember ==
    ASSUME NEW fs, NEW ms \in Seq(MemberRecords), NEW rep \in Nat,
           NEW g \in Seq(GroupRecords), NEW next,
           TocSound(fs, ms, rep, g, next),
           NEW m \in MemberRecords, m.chunks = <<>>,
           Before(ms, Len(ms) + 1) < m.entryEnd
    PROVE  /\ TocSound(fs, Append(ms, m), rep, g, next)
           /\ Before(Append(ms, m), Len(ms) + 1) = Before(ms, Len(ms) + 1)
           /\ Before(Append(ms, m), Len(ms) + 2) = m.entryEnd
<1> DEFINE new == Append(ms, m)
           n == Len(ms)
<1>1. /\ n \in Nat /\ Len(new) = n + 1 /\ DOMAIN ms = 1 .. n
      /\ DOMAIN new = 1 .. n + 1 /\ new[n + 1] = m
      /\ \A i \in 1 .. n : new[i] = ms[i]
    BY AppendFacts
<1>2. rep + Len(g) <= n /\ DOMAIN g = 1 .. Len(g) /\ Len(g) \in Nat
    BY DEF TocSound
<1>3. m.entryEnd \in Nat
    BY DEF MemberRecords
<1>4. \A i \in 1 .. n + 1 : Before(ms, i) \in Nat
    BY BeforeType
<1> HIDE DEF new, n
<1>5. /\ \A i \in 1 .. n + 1 : Before(new, i) = Before(ms, i)
      /\ Before(new, n + 2) = m.entryEnd
    <2>1. ASSUME NEW i \in 1 .. n + 1
          PROVE  Before(new, i) = Before(ms, i)
        <3>1. i # 1 => i - 1 \in 1 .. n
            BY <1>1
        <3> QED
            BY <1>1, <3>1 DEF Before
    <2>2. n + 2 # 1 /\ (n + 2) - 1 = n + 1
        BY <1>1
    <2> QED
        BY <1>1, <2>1, <2>2 DEF Before
<1>6. /\ \A i \in 1 .. n : Before(ms, i) < ms[i].entryEnd
      /\ \A i \in 1 .. n : ms[i].entryEnd <= Before(ms, n + 1)
    BY <1>1 DEF TocSound, Regions, n
<1>7. ASSUME NEW i \in 1 .. n PROVE ms[i].entryEnd \in Nat
    <2>1. ms[i] \in MemberRecords
        BY <1>1
    <2> QED
        BY <2>1 DEF MemberRecords
<1>8. Regions(new)
    <2> SUFFICES ASSUME NEW i \in 1 .. n + 1
                 PROVE  /\ Before(new, i) < new[i].entryEnd
                        /\ new[i].entryEnd <= m.entryEnd
        BY <1>1, <1>5 DEF Regions
    <2>1. CASE i \in 1 .. n
        <3>1. /\ Before(ms, i) < ms[i].entryEnd
              /\ ms[i].entryEnd <= Before(ms, n + 1)
            BY <2>1, <1>6
        <3>2. n + 1 \in 1 .. n + 1 /\ Before(ms, n + 1) < m.entryEnd
            BY <1>1 DEF n
        <3> QED
            BY <1>1, <1>3, <1>4, <1>5, <1>7, <2>1, <3>1, <3>2
    <2>2. CASE i = n + 1
        <3>1. Before(ms, n + 1) < m.entryEnd
            BY DEF n
        <3> QED
            BY <2>2, <3>1, <1>1, <1>3, <1>5
    <2> QED
        BY <2>1, <2>2, <1>1
<1>9. Waits(new, rep, g, next)
    <2> SUFFICES ASSUME NEW k \in DOMAIN g
                 PROVE  /\ g[k].idx = rep + k
                        /\ new[rep + k].chunks = <<>>
                        /\ g[k].region =
                              new[rep + k].entryEnd - Before(new, rep + k)
                        /\ next + g[k].offset = Before(new, rep + k)
        BY DEF Waits
    <2>1. rep + k \in 1 .. n /\ rep + k \in 1 .. n + 1
        BY <1>1, <1>2
    <2> QED
        BY <2>1, <1>1, <1>5 DEF TocSound, Waits
<1>10. Chained(fs, new)
    <2> SUFFICES ASSUME NEW i \in 1 .. n + 1
                 PROVE  ChainedIn(fs, new[i].chunks, Before(new, i))
        BY <1>1 DEF Chained
    <2>1. CASE i \in 1 .. n
        BY <2>1, <1>1, <1>5 DEF TocSound, Chained
    <2>2. CASE i = n + 1
        BY <2>2, <1>1 DEF ChainedIn
    <2> QED
        BY <2>1, <2>2, <1>1
<1>11. Covered(fs, new, rep)
    <2> SUFFICES ASSUME NEW i \in 1 .. rep
                 PROVE  /\ new[i].chunks # <<>>
                        /\ EndIn(fs, new[i].chunks, Before(new, i))
                              = new[i].entryEnd
        BY DEF Covered
    <2>1. i \in 1 .. n /\ i \in 1 .. n + 1
        BY <1>1, <1>2
    <2> QED
        BY <2>1, <1>1, <1>5 DEF TocSound, Covered
<1>12. Digested(new, rep + Len(g))
    <2> SUFFICES ASSUME NEW i \in 1 .. rep + Len(g)
                 PROVE  new[i].digest = Expected(new[i])
        BY DEF Digested
    <2>1. i \in 1 .. n
        BY <1>1, <1>2
    <2> QED
        BY <2>1, <1>1 DEF TocSound, Digested
<1>13. TocSound(fs, new, rep, g, next)
    BY <1>1, <1>2, <1>8, <1>9, <1>10, <1>11, <1>12 DEF TocSound
<1>14. Before(new, n + 1) = Before(ms, n + 1)
    BY <1>1, <1>5
<1> QED
    BY <1>5, <1>13, <1>14 DEF new, n

(* The newest member joins the group. *)
LEMMA Joins ==
    ASSUME NEW fs, NEW ms \in Seq(MemberRecords), NEW rep \in Nat,
           NEW g \in Seq(GroupRecords), NEW next,
           TocSound(fs, ms, rep, g, next),
           rep + Len(g) + 1 = Len(ms),
           ms[Len(ms)].chunks = <<>>,
           ms[Len(ms)].digest = Expected(ms[Len(ms)]),
           NEW e \in GroupRecords, e.idx = Len(ms),
           e.region = ms[Len(ms)].entryEnd - Before(ms, Len(ms)),
           next + e.offset = Before(ms, Len(ms))
    PROVE  TocSound(fs, ms, rep, Append(g, e), next)
<1> DEFINE new == Append(g, e)
           n == Len(g)
<1>1. /\ n \in Nat /\ Len(new) = n + 1 /\ DOMAIN g = 1 .. n
      /\ DOMAIN new = 1 .. n + 1 /\ new[n + 1] = e
      /\ \A i \in 1 .. n : new[i] = g[i]
    BY AppendFacts
<1> HIDE DEF new
<1>2. Waits(ms, rep, new, next)
    <2> SUFFICES ASSUME NEW k \in 1 .. n + 1
                 PROVE  /\ new[k].idx = rep + k
                        /\ ms[rep + k].chunks = <<>>
                        /\ new[k].region =
                              ms[rep + k].entryEnd - Before(ms, rep + k)
                        /\ next + new[k].offset = Before(ms, rep + k)
        BY <1>1 DEF Waits
    <2>1. CASE k \in 1 .. n
        BY <2>1, <1>1 DEF TocSound, Waits
    <2>2. CASE k = n + 1
        <3>1. rep + k = Len(ms)
            BY <2>2, <1>1
        <3> QED
            BY <2>2, <3>1, <1>1
    <2> QED
        BY <2>1, <2>2, <1>1
<1>3. Digested(ms, rep + (n + 1))
    <2> SUFFICES ASSUME NEW i \in 1 .. rep + (n + 1)
                 PROVE  ms[i].digest = Expected(ms[i])
        BY DEF Digested
    <2>1. i \in 1 .. rep + n \/ i = Len(ms)
        BY <1>1
    <2> QED
        BY <2>1 DEF TocSound, Digested
<1>4. rep + Len(new) <= Len(ms)
    BY <1>1
<1> QED
    BY <1>1, <1>2, <1>3, <1>4 DEF TocSound, new

(* The group's frame is written: its members have their chunk. *)
LEMMA GroupSettles ==
    ASSUME NEW fs \in Seq(FrameRecords), NEW x \in FrameRecords,
           InOrder(fs), InOrder(Append(fs, x)),
           NEW ms \in Seq(MemberRecords), NEW rep \in Nat,
           NEW g \in Seq(GroupRecords), NEW next \in Nat,
           TocSound(fs, ms, rep, g, next), x.start = next,
           \A i \in rep + 1 .. rep + Len(g) : ms[i].entryEnd <= x.end,
           NEW new \in Seq(MemberRecords), Len(new) = Len(ms),
           \A i \in 1 .. Len(ms) : new[i] =
              IF i \in rep + 1 .. rep + Len(g)
              THEN WithChunk(ms[i],
                     [compressedOffset |-> x.at, compressedSize |-> x.size,
                      uncompressedSize |-> g[i - rep].region,
                      frameOffset |-> g[i - rep].offset])
              ELSE ms[i],
           NEW after
    PROVE  TocSound(Append(fs, x), new, rep + Len(g), <<>>, after)
<1> DEFINE gs == Append(fs, x)
           n == Len(ms)
           last == rep + Len(g)
<1>1. /\ n \in Nat /\ Len(g) \in Nat /\ DOMAIN ms = 1 .. n
      /\ DOMAIN new = 1 .. n /\ last <= n /\ DOMAIN g = 1 .. Len(g)
    BY DEF TocSound
<1>2. ASSUME NEW i \in 1 .. n
      PROVE  /\ new[i].entryEnd = ms[i].entryEnd
             /\ new[i].digest = ms[i].digest
             /\ Expected(new[i]) = Expected(ms[i])
    <2>1. ms[i] \in MemberRecords
        BY <1>1
    <2>2. new[i] = ms[i] \/ \E c : new[i] = WithChunk(ms[i], c)
        BY <1>2
    <2> QED
        BY <2>1, <2>2 DEF WithChunk, MemberRecords, Expected
<1>3. ASSUME NEW i \in 1 .. n + 1
      PROVE  Before(new, i) = Before(ms, i) /\ Before(ms, i) \in Nat
    <2>1. i # 1 => i - 1 \in 1 .. n
        BY <1>1
    <2>2. Before(ms, i) \in Nat
        BY BeforeType
    <2> QED
        BY <2>1, <2>2, <1>2 DEF Before
<1>4. ASSUME NEW i \in rep + 1 .. last
      PROVE  /\ i \in 1 .. n
             /\ ChainedIn(gs, new[i].chunks, Before(ms, i))
             /\ new[i].chunks # <<>>
             /\ EndIn(gs, new[i].chunks, Before(ms, i)) = ms[i].entryEnd
    <2> DEFINE k == i - rep
               c == [compressedOffset |-> x.at, compressedSize |-> x.size,
                     uncompressedSize |-> g[k].region,
                     frameOffset |-> g[k].offset]
    <2>1. k \in DOMAIN g /\ rep + k = i /\ i \in 1 .. n /\ i \in Nat
        BY <1>1
    <2>2. /\ ms[i].chunks = <<>>
          /\ g[k].region = ms[i].entryEnd - Before(ms, i)
          /\ next + g[k].offset = Before(ms, i)
        BY <2>1, Zenon DEF TocSound, Waits
    <2>3. /\ g[k] \in GroupRecords /\ ms[i] \in MemberRecords
          /\ Before(ms, i) \in Nat /\ ms[i].entryEnd \in Nat
        <3>1. g[k] \in GroupRecords /\ ms[i] \in MemberRecords
            BY <2>1
        <3>2. i \in 1 .. n + 1
            BY <2>1
        <3> QED
            BY <3>1, <3>2, <1>3 DEF MemberRecords
    <2>4. g[k].region \in Nat /\ g[k].offset \in Nat
        BY <2>3 DEF GroupRecords
    <2>5. c \in ChunkRecords
        BY <2>4 DEF ChunkRecords, FrameRecords
    <2>6. new[i].chunks = Append(<<>>, c)
        <3>1. new[i] = WithChunk(ms[i], c)
            BY <2>1
        <3> QED
            BY <2>2, <2>3, <3>1 DEF WithChunk, MemberRecords
    <2>7. ChainedIn(fs, <<>>, Before(ms, i)) /\ <<>> \in Seq(ChunkRecords)
        BY DEF ChainedIn
    <2>8. /\ c.compressedOffset = x.at /\ c.compressedSize = x.size
          /\ c.frameOffset = g[k].offset /\ c.uncompressedSize = g[k].region
        OBVIOUS
    <2>9. EndIn(fs, <<>>, Before(ms, i)) = Before(ms, i)
        BY DEF EndIn
    <2> HIDE DEF c, k
    <2>10. /\ x.start + c.frameOffset = EndIn(fs, <<>>, Before(ms, i))
           /\ x.start + c.frameOffset + c.uncompressedSize = ms[i].entryEnd
           /\ ms[i].entryEnd <= x.end
        <3>1. x.start + c.frameOffset = Before(ms, i)
            BY <2>2, <2>8
        <3>2. Before(ms, i) + c.uncompressedSize = ms[i].entryEnd
            BY <2>2, <2>3, <2>8
        <3>3. ms[i].entryEnd <= x.end
            OBVIOUS
        <3>4. x.start + c.frameOffset + c.uncompressedSize = ms[i].entryEnd
            BY <3>1, <3>2
        <3> QED
            BY <2>9, <3>1, <3>3, <3>4
    <2>11. /\ ChainedIn(gs, Append(<<>>, c), Before(ms, i))
           /\ EndIn(gs, Append(<<>>, c), Before(ms, i)) = ms[i].entryEnd
        <3>1. x.start + c.frameOffset + c.uncompressedSize <= x.end
            BY <2>10
        <3>2. c.compressedOffset = x.at /\ c.compressedSize = x.size
            BY <2>8
        <3>3. /\ ChainedIn(gs, Append(<<>>, c), Before(ms, i))
              /\ EndIn(gs, Append(<<>>, c), Before(ms, i))
                    = x.start + c.frameOffset + c.uncompressedSize
            BY <2>5, <2>7, <2>10, <3>1, <3>2, ChainGrows, ZenonT(30)
        <3> QED
            BY <2>10, <3>3
    <2>12. Append(<<>>, c) # <<>>
        BY <2>5, <2>7, AppendFacts
    <2> QED
        BY <2>1, <2>6, <2>11, <2>12
<1>5. ASSUME NEW i \in 1 .. n, i \notin rep + 1 .. last
      PROVE  /\ new[i] = ms[i]
             /\ ChainedIn(gs, ms[i].chunks, Before(ms, i))
             /\ EndIn(gs, ms[i].chunks, Before(ms, i))
                   = EndIn(fs, ms[i].chunks, Before(ms, i))
    <2>1. ms[i].chunks \in Seq(ChunkRecords)
        <3>1. ms[i] \in MemberRecords
            BY <1>1
        <3> QED
            BY <3>1 DEF MemberRecords
    <2>2. ChainedIn(fs, ms[i].chunks, Before(ms, i))
        BY <1>1 DEF TocSound, Chained
    <2>3. new[i] = ms[i]
        BY <1>5
    <2> QED
        BY <2>1, <2>2, <2>3, ChainStays
<1> HIDE DEF gs
<1>6. Regions(new)
    <2>1. n + 1 \in 1 .. n + 1
        BY <1>1
    <2> SUFFICES ASSUME NEW i \in 1 .. n
                 PROVE  /\ Before(new, i) < new[i].entryEnd
                        /\ new[i].entryEnd <= Before(new, n + 1)
        BY <1>1 DEF Regions
    <2>2. i \in 1 .. n + 1
        BY <1>1
    <2> QED
        BY <2>1, <2>2, <1>1, <1>2, <1>3 DEF TocSound, Regions
<1>7. Chained(gs, new)
    <2> SUFFICES ASSUME NEW i \in 1 .. n
                 PROVE  ChainedIn(gs, new[i].chunks, Before(new, i))
        BY <1>1 DEF Chained
    <2>1. Before(new, i) = Before(ms, i)
        BY <1>1, <1>3
    <2> QED
        BY <2>1, <1>4, <1>5
<1>8. Covered(gs, new, last)
    <2> SUFFICES ASSUME NEW i \in 1 .. last
                 PROVE  /\ new[i].chunks # <<>>
                        /\ EndIn(gs, new[i].chunks, Before(new, i))
                              = new[i].entryEnd
        BY DEF Covered
    <2>1. i \in 1 .. n /\ i \in 1 .. n + 1
        BY <1>1
    <2>2. Before(new, i) = Before(ms, i) /\ new[i].entryEnd = ms[i].entryEnd
        BY <2>1, <1>2, <1>3
    <2>3. CASE i \in rep + 1 .. last
        BY <2>2, <2>3, <1>4
    <2>4. CASE i \notin rep + 1 .. last
        <3>1. i \in 1 .. rep
            BY <2>4, <1>1
        <3>2. /\ ms[i].chunks # <<>>
              /\ EndIn(fs, ms[i].chunks, Before(ms, i)) = ms[i].entryEnd
            BY <3>1 DEF TocSound, Covered
        <3> QED
            BY <2>1, <2>2, <2>4, <3>2, <1>5
    <2> QED
        BY <2>3, <2>4
<1>9. Digested(new, last)
    <2> SUFFICES ASSUME NEW i \in 1 .. last
                 PROVE  new[i].digest = Expected(new[i])
        BY DEF Digested
    <2>1. i \in 1 .. n
        BY <1>1
    <2> QED
        BY <2>1, <1>2 DEF TocSound, Digested
<1>10. Len(<<>>) = 0 /\ DOMAIN <<>> = {}
    OBVIOUS
<1>11. last \in Nat /\ last + 0 = last
    BY <1>1
<1>12. Waits(new, last, <<>>, after)
    BY <1>10 DEF Waits
<1> QED
    BY <1>1, <1>6, <1>7, <1>8, <1>9, <1>10, <1>11, <1>12 DEF TocSound, gs

(* The entry of the member that is being streamed is replaced, while all else
   stays in place. *)
LEMMA LastReplaced ==
    ASSUME NEW fs, NEW gs, NEW ms \in Seq(MemberRecords), NEW rep \in Nat,
           NEW next, NEW after, TocSound(fs, ms, rep, <<>>, next),
           rep + 1 = Len(ms), Stays(fs, gs),
           NEW new \in Seq(MemberRecords), Len(new) = Len(ms),
           \A i \in 1 .. rep : new[i] = ms[i],
           new[Len(ms)].entryEnd = ms[Len(ms)].entryEnd,
           ChainedIn(gs, new[Len(ms)].chunks, Before(ms, Len(ms)))
    PROVE  /\ TocSound(gs, new, rep, <<>>, after)
           /\ \A i \in 1 .. Len(ms) + 1 : Before(new, i) = Before(ms, i)
<1> DEFINE n == Len(ms)
<1>1. /\ n \in Nat /\ n > 0 /\ DOMAIN ms = 1 .. n /\ DOMAIN new = 1 .. n
      /\ \A i \in 1 .. n : i # n => i \in 1 .. rep /\ new[i] = ms[i]
    OBVIOUS
<1>2. ASSUME NEW i \in 1 .. n PROVE new[i].entryEnd = ms[i].entryEnd
    BY <1>1
<1>3. ASSUME NEW i \in 1 .. n + 1 PROVE Before(new, i) = Before(ms, i)
    <2>1. i # 1 => i - 1 \in 1 .. n
        BY <1>1
    <2> QED
        BY <2>1, <1>2 DEF Before
<1>4. Regions(new)
    <2>1. n + 1 \in 1 .. n + 1
        BY <1>1
    <2> SUFFICES ASSUME NEW i \in 1 .. n
                 PROVE  /\ Before(new, i) < new[i].entryEnd
                        /\ new[i].entryEnd <= Before(new, n + 1)
        BY <1>1 DEF Regions
    <2>2. i \in 1 .. n + 1
        BY <1>1
    <2> QED
        BY <2>1, <2>2, <1>1, <1>2, <1>3 DEF TocSound, Regions
<1>5. ASSUME NEW i \in 1 .. n, i # n
      PROVE  /\ ChainedIn(gs, ms[i].chunks, Before(ms, i))
             /\ EndIn(gs, ms[i].chunks, Before(ms, i))
                   = EndIn(fs, ms[i].chunks, Before(ms, i))
    <2>1. ms[i] \in MemberRecords /\ i \in 1 .. n + 1
        BY <1>1
    <2>2. ms[i].chunks \in Seq(ChunkRecords) /\ Before(ms, i) \in Nat
        BY <2>1, BeforeType DEF MemberRecords
    <2>3. ChainedIn(fs, ms[i].chunks, Before(ms, i))
        BY <1>1 DEF TocSound, Chained
    <2> QED
        BY <2>2, <2>3 DEF Stays
<1>6. Chained(gs, new)
    <2> SUFFICES ASSUME NEW i \in 1 .. n
                 PROVE  ChainedIn(gs, new[i].chunks, Before(new, i))
        BY <1>1 DEF Chained
    <2>1. Before(new, i) = Before(ms, i)
        BY <1>1, <1>3
    <2>2. CASE i = n
        BY <2>1, <2>2, <1>1
    <2>3. CASE i # n
        BY <2>1, <2>3, <1>1, <1>5
    <2> QED
        BY <2>2, <2>3
<1>7. Len(<<>>) = 0 /\ DOMAIN <<>> = {} /\ rep + 0 = rep
    OBVIOUS
<1>8. Covered(gs, new, rep)
    <2> SUFFICES ASSUME NEW i \in 1 .. rep
                 PROVE  /\ new[i].chunks # <<>>
                        /\ EndIn(gs, new[i].chunks, Before(new, i))
                              = new[i].entryEnd
        BY DEF Covered
    <2>1. i \in 1 .. n /\ i # n /\ i \in 1 .. n + 1
        BY <1>1
    <2>2. Before(new, i) = Before(ms, i) /\ new[i] = ms[i]
        BY <2>1, <1>1, <1>3
    <2>3. /\ ms[i].chunks # <<>>
          /\ EndIn(fs, ms[i].chunks, Before(ms, i)) = ms[i].entryEnd
        BY DEF TocSound, Covered
    <2> QED
        BY <2>1, <2>2, <2>3, <1>5
<1>9. Digested(new, rep)
    <2> SUFFICES ASSUME NEW i \in 1 .. rep
                 PROVE  new[i].digest = Expected(new[i])
        BY DEF Digested
    <2>1. i \in 1 .. n /\ i # n
        BY <1>1
    <2> QED
        BY <2>1, <1>1, <1>7 DEF TocSound, Digested
<1>10. Waits(new, rep, <<>>, after)
    BY <1>7 DEF Waits
<1>11. TocSound(gs, new, rep, <<>>, after)
    BY <1>1, <1>4, <1>6, <1>7, <1>8, <1>9, <1>10 DEF TocSound
<1> QED
    BY <1>3, <1>11

(* It is finished and reported. *)
LEMMA LastReported ==
    ASSUME NEW fs, NEW ms \in Seq(MemberRecords), NEW rep \in Nat,
           NEW next, TocSound(fs, ms, rep, <<>>, next), rep + 1 = Len(ms),
           ms[Len(ms)].chunks # <<>>,
           EndIn(fs, ms[Len(ms)].chunks, Before(ms, Len(ms)))
              = ms[Len(ms)].entryEnd,
           ms[Len(ms)].digest = Expected(ms[Len(ms)])
    PROVE  TocSound(fs, ms, rep + 1, <<>>, next)
<1>1. Len(<<>>) = 0 /\ DOMAIN <<>> = {} /\ rep + 0 = rep /\ rep + 1 + 0 = rep + 1
    OBVIOUS
<1>2. \A i \in 1 .. rep + 1 : i \in 1 .. rep \/ i = Len(ms)
    OBVIOUS
<1>3. Covered(fs, ms, rep + 1)
    BY <1>2 DEF TocSound, Covered
<1>4. Digested(ms, rep + 1)
    BY <1>1, <1>2 DEF TocSound, Digested
<1>5. Waits(ms, rep + 1, <<>>, next)
    BY <1>1 DEF Waits
<1> QED
    BY <1>1, <1>3, <1>4, <1>5 DEF TocSound
-----------------------------------------------------------------------------
(* The invariant over the steps of the writer. *)

(* The frame that CompressFrame writes. *)
NewFrame(start, end, z) ==
    [at |-> PhysicalEnd, size |-> z, start |-> start, end |-> end]

LEMMA FrameInOrder ==
    ASSUME TypeInv, InOrder(frames), NEW start \in Nat, NEW end \in Nat,
           NEW z \in FrameSizes
    PROVE  /\ NewFrame(start, end, z) \in FrameRecords
           /\ InOrder(Append(frames, NewFrame(start, end, z)))
<1> DEFINE x == NewFrame(start, end, z)
           new == Append(frames, x)
           n == Len(frames)
<1>1. frames \in Seq(FrameRecords) /\ PhysicalEnd \in Nat
    BY PhysicalEndType DEF TypeInv, TypeOK
<1>2. /\ x \in FrameRecords /\ x.at = PhysicalEnd /\ x.size = z
      /\ z \in Nat /\ z > 0
    BY <1>1, FrameAssumption DEF NewFrame, FrameRecords
<1> HIDE DEF x
<1>3. /\ n \in Nat /\ DOMAIN frames = 1 .. n /\ DOMAIN new = 1 .. n + 1
      /\ new[n + 1] = x /\ \A i \in 1 .. n : new[i] = frames[i]
    BY <1>1, <1>2, AppendFacts
<1>4. ASSUME NEW i \in 1 .. n
      PROVE  /\ frames[i].at \in Nat /\ frames[i].size \in Nat
             /\ frames[i].size > 0
             /\ frames[i].at + frames[i].size <= PhysicalEnd
    <2>1. frames[i] \in FrameRecords /\ frames[n] \in FrameRecords
        BY <1>1, <1>3
    <2>2. /\ frames[i].at \in Nat /\ frames[i].size \in Nat
          /\ frames[n].at \in Nat /\ frames[n].size \in Nat
        BY <2>1 DEF FrameRecords
    <2>3. PhysicalEnd = frames[n].at + frames[n].size
        BY <1>1, <1>3 DEF PhysicalEnd
    <2>4. i # n => frames[i].at + frames[i].size <= frames[n].at
        <3>1. n \in Nat
            BY <1>3
        <3>2. /\ i # n => i < n
              /\ i \in 1 .. n /\ n \in 1 .. n
            BY <3>1
        <3>3. i \in DOMAIN frames /\ n \in DOMAIN frames
            BY <1>3, <3>2
        <3> QED
            BY <3>2, <3>3, Zenon DEF InOrder
    <2>5. frames[i].size > 0
        BY <1>3 DEF InOrder
    <2> QED
        BY <2>2, <2>3, <2>4, <2>5
<1> HIDE DEF new, n
<1>5. ASSUME NEW f \in 1 .. n + 1 PROVE new[f].size > 0
    BY <1>2, <1>3, <1>4
<1>6. ASSUME NEW f \in 1 .. n + 1, NEW g \in 1 .. n + 1, f < g
      PROVE  new[f].at + new[f].size <= new[g].at
    <2>1. f \in 1 .. n
        BY <1>3, <1>6
    <2>2. CASE g \in 1 .. n
        BY <2>1, <2>2, <1>3, <1>6 DEF InOrder
    <2>3. CASE g = n + 1
        BY <2>1, <2>3, <1>2, <1>3, <1>4
    <2> QED
        BY <2>2, <2>3, <1>3
<1> QED
    BY <1>2, <1>3, <1>5, <1>6 DEF InOrder, x, new

(* What flush_group leaves when ms is the TOC and g, of size bytes, the group. *)
LEMMA FlushSettles ==
    ASSUME TypeInv, OutputInv, InOrder(frames), ReportsInOrder,
           NEW ms \in Seq(MemberRecords), NEW g \in Seq(GroupRecords),
           NEW size \in Nat, winEnd' \in Nat,
           TocSound(frames, ms, Len(reported), g, nextChunkStart),
           \A i \in Len(reported) + 1 .. Len(reported) + Len(g) :
              ms[i].entryEnd <= nextChunkStart + size,
           Flush(ms, g, size)
    PROVE  /\ InOrder(frames')
           /\ TocSound(frames', members', Len(reported) + Len(g), <<>>,
                       nextChunkStart')
           /\ members' \in Seq(MemberRecords) /\ Len(members') = Len(ms)
           /\ \A i \in 1 .. Len(ms) :
                 i \notin Len(reported) + 1 .. Len(reported) + Len(g)
                   => members'[i] = ms[i]
           /\ \A i \in 1 .. Len(ms) + 1 : Before(members', i) = Before(ms, i)
           /\ reported' \in Seq(Nat)
           /\ Len(reported') = Len(reported) + Len(g)
           /\ \A r \in DOMAIN reported' : reported'[r] = r
<1> DEFINE rep == Len(reported)
           last == rep + Len(g)
<1>1. PICK z \in FrameSizes :
        /\ CompressFrame(nextChunkStart, nextChunkStart + size, z)
        /\ members' = WithGroupChunks(ms, g, z)
        /\ reported' = reported \o [k \in DOMAIN g |-> g[k].idx]
    BY DEF Flush
<1> DEFINE x == NewFrame(nextChunkStart, nextChunkStart + size, z)
<1>2. /\ nextChunkStart \in Nat /\ nextChunkStart + size \in Nat /\ pos \in Nat
      /\ frames \in Seq(FrameRecords) /\ reported \in Seq(Nat) /\ rep \in Nat
    BY DEF TypeInv, TypeOK
<1>3. frames' = Append(frames, x)
    BY <1>1 DEF CompressFrame, NewFrame
<1>4. x \in FrameRecords /\ InOrder(Append(frames, x))
    BY <1>2, FrameInOrder
<1>5. /\ x.at = pos /\ x.size = z /\ x.start = nextChunkStart
      /\ x.end = nextChunkStart + size
    BY DEF NewFrame, OutputInv, PosIsOutputLength
<1>6. /\ Len(g) \in Nat /\ DOMAIN g = 1 .. Len(g) /\ DOMAIN ms = 1 .. Len(ms)
      /\ Len(ms) \in Nat /\ last <= Len(ms)
      /\ \A k \in DOMAIN g : g[k].idx = rep + k
    BY DEF TocSound, Waits
<1>7. /\ members' \in Seq(MemberRecords) /\ Len(members') = Len(ms)
    BY <1>1, <1>2, GroupChunksType
<1> HIDE DEF x
<1>8. ASSUME NEW i \in 1 .. Len(ms)
      PROVE  members'[i] =
               IF i \in rep + 1 .. last
               THEN WithChunk(ms[i],
                      [compressedOffset |-> x.at, compressedSize |-> x.size,
                       uncompressedSize |-> g[i - rep].region,
                       frameOffset |-> g[i - rep].offset])
               ELSE ms[i]
    <2>1. CASE i \in rep + 1 .. last
        <3> DEFINE k == CHOOSE j \in DOMAIN g : g[j].idx = i
        <3>1. i - rep \in DOMAIN g /\ g[i - rep].idx = i
            BY <2>1, <1>2, <1>6
        <3>2. k \in DOMAIN g /\ g[k].idx = i
            BY <3>1
        <3>3. k = i - rep
            <4>1. k \in 1 .. Len(g) /\ i = rep + k
                BY <3>2, <1>6
            <4> HIDE DEF k
            <4> QED
                BY <4>1, <1>2
        <3>4. members'[i] = WithChunk(ms[i], Chunk(z, g[k].region, g[k].offset))
            BY <1>1, <1>6, <3>1 DEF WithGroupChunks
        <3> HIDE DEF k
        <3> QED
            BY <2>1, <3>3, <3>4, <1>5 DEF Chunk
    <2>2. CASE i \notin rep + 1 .. last
        <3>1. ~ \E k \in DOMAIN g : g[k].idx = i
            BY <2>2, <1>2, <1>6
        <3>2. members'[i] = ms[i]
            BY <1>1, <1>6, <3>1 DEF WithGroupChunks
        <3> QED
            BY <2>2, <3>2
    <2> QED
        BY <2>1, <2>2
<1>9. TocSound(frames', members', last, <<>>, nextChunkStart')
    <2>1. \A i \in rep + 1 .. last : ms[i].entryEnd <= x.end
        BY <1>5
    <2> QED
        BY <1>2, <1>3, <1>4, <1>5, <1>7, <1>8, <2>1, GroupSettles
<1>10. /\ reported' \in Seq(Nat) /\ Len(reported') = last
       /\ \A r \in DOMAIN reported' : reported'[r] = r
    <2> DEFINE ids == [k \in DOMAIN g |-> g[k].idx]
    <2>1. ASSUME NEW k \in DOMAIN g PROVE g[k].idx = rep + k /\ rep + k \in Nat
        BY <1>2, <1>6
    <2>2. /\ ids \in Seq(Nat) /\ Len(ids) = Len(g)
          /\ \A k \in 1 .. Len(g) : ids[k] = rep + k
        <3>1. ids = [k \in 1 .. Len(g) |-> rep + k]
            BY <2>1, <1>6
        <3>2. \A k \in 1 .. Len(g) : rep + k \in Nat
            BY <1>2, <1>6
        <3> HIDE DEF ids
        <3> QED
            BY <3>1, <3>2, <1>6
    <2>3. reported' = reported \o ids
        BY <1>1
    <2> HIDE DEF ids
    <2>4. /\ reported' \in Seq(Nat) /\ Len(reported') = last
          /\ DOMAIN reported' = 1 .. last
          /\ \A r \in 1 .. rep : reported'[r] = reported[r]
          /\ \A r \in rep + 1 .. last : reported'[r] = ids[r - rep]
        <3> DEFINE t == reported \o ids
        <3>1. /\ t \in Seq(Nat) /\ Len(t) = rep + Len(ids)
              /\ DOMAIN t = 1 .. rep + Len(ids)
              /\ \A i \in 1 .. rep : t[i] = reported[i]
              /\ \A i \in rep + 1 .. rep + Len(ids) : t[i] = ids[i - rep]
            <4> DEFINE S == Nat
            <4>1. reported \in Seq(S) /\ ids \in Seq(S)
                BY <2>2, <1>2
            <4> HIDE DEF S
            <4>2. /\ t \in Seq(S) /\ Len(t) = Len(reported) + Len(ids)
                  /\ DOMAIN t = 1 .. Len(reported) + Len(ids)
                  /\ \A i \in 1 .. Len(reported) : t[i] = reported[i]
                  /\ \A i \in Len(reported) + 1 .. Len(reported) + Len(ids) :
                        t[i] = ids[i - Len(reported)]
                BY <4>1, ConcatFacts
            <4> QED
                BY <4>2 DEF S
        <3>2. reported' = t /\ rep + Len(ids) = last
            BY <2>2, <2>3
        <3> HIDE DEF t, rep, last
        <3> QED
            BY <3>1, <3>2
    <2>5. ASSUME NEW r \in 1 .. last PROVE reported'[r] = r
        <3>1. CASE r \in 1 .. rep
            <4>1. r \in DOMAIN reported
                BY <3>1, <1>2
            <4> QED
                BY <2>4, <3>1, <4>1 DEF ReportsInOrder
        <3>2. CASE r \in rep + 1 .. last
            <4>1. r - rep \in 1 .. Len(g) /\ rep + (r - rep) = r
                BY <3>2, <1>2, <1>6
            <4> QED
                BY <2>2, <2>4, <3>2, <4>1
        <3> QED
            BY <3>1, <3>2, <1>2, <1>6
    <2> QED
        BY <2>4, <2>5
<1>11. InOrder(frames')
    BY <1>3, <1>4
<1>12. \A i \in 1 .. Len(ms) : i \notin rep + 1 .. last => members'[i] = ms[i]
    BY <1>8
<1>13. ASSUME NEW i \in 1 .. Len(ms) PROVE members'[i].entryEnd = ms[i].entryEnd
    <2>1. ms[i] \in MemberRecords
        BY <1>6
    <2>2. members'[i] = ms[i] \/ \E c : members'[i] = WithChunk(ms[i], c)
        BY <1>8
    <2> QED
        BY <2>1, <2>2 DEF WithChunk, MemberRecords
<1>14. ASSUME NEW i \in 1 .. Len(ms) + 1 PROVE Before(members', i) = Before(ms, i)
    <2>1. i # 1 => i - 1 \in 1 .. Len(ms)
        BY <1>6
    <2> QED
        BY <2>1, <1>13 DEF Before
<1> QED
    BY <1>7, <1>9, <1>10, <1>11, <1>12, <1>14
=============================================================================
