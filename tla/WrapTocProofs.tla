--------------------------- MODULE WrapTocProofs ---------------------------
(***************************************************************************)
(* MemberInv over the steps of the writer, and the theorems that follow    *)
(* from it: chunks tile the regions, digests cover the content, reports    *)
(* come in order and are final, the footer is written over a complete      *)
(* archive, and the window stays small while a large member is read.       *)
(***************************************************************************)
EXTENDS WrapMemberProofs

(* At the start there is no frame, no member and no group. *)
LEMMA MemberInit == Init => MemberInv
<1> SUFFICES ASSUME Init PROVE MemberInv
    OBVIOUS
<1>1. /\ frames = <<>> /\ members = <<>> /\ group = <<>> /\ reported = <<>>
      /\ DOMAIN <<>> = {} /\ Len(<<>>) = 0 /\ prevEnd = 0 /\ pc = "parse"
    BY DEF Init
<1>2. InOrder(frames)
    BY <1>1 DEF InOrder
<1>3. prevEnd = Before(members, Len(members) + 1)
    BY <1>1 DEF Before
<1>4. ReportsInOrder
    BY <1>1 DEF ReportsInOrder
<1>5. TocSound(frames, members, Len(reported), group, nextChunkStart)
    BY <1>1 DEF TocSound, Regions, Waits, Chained, Covered, Digested
<1> QED
    BY <1>1, <1>2, <1>3, <1>4, <1>5 DEF MemberInv, StreamInv, EndInv

(* A step that changes neither the TOC nor the frames. *)
LEMMA MemberUntouched ==
    ASSUME MemberInv,
           UNCHANGED <<prevEnd, members, group, frames, nextChunkStart, reported>>,
           \/ pc' = pc \/ pc' = "failed"
           \/ pc = "parse" /\ pc' = "drain"
           \/ pc = "toc" /\ pc' = "done",
           StreamInv', EndInv'
    PROVE  MemberInv'
<1>1. InOrder(frames') /\ prevEnd' = Before(members', Len(members') + 1)
    BY DEF MemberInv
<1>2. ReportsInOrder'
    BY DEF MemberInv, ReportsInOrder
<1>3. TocSound(frames', members', Len(reported'), group', nextChunkStart')
    BY DEF MemberInv
<1> QED
    BY <1>1, <1>2, <1>3 DEF MemberInv

(* A frame that no chunk names, such as the trailing one, does no harm. *)
LEMMA TocStays ==
    ASSUME NEW fs \in Seq(FrameRecords), NEW x \in FrameRecords,
           InOrder(fs), InOrder(Append(fs, x)),
           NEW ms \in Seq(MemberRecords), NEW rep \in Nat,
           NEW g \in Seq(GroupRecords), NEW next,
           TocSound(fs, ms, rep, g, next)
    PROVE  TocSound(Append(fs, x), ms, rep, g, next)
<1> DEFINE gs == Append(fs, x)
<1>1. rep + Len(g) <= Len(ms) /\ Len(g) \in Nat /\ Len(ms) \in Nat
    BY DEF TocSound
<1>2. ASSUME NEW i \in DOMAIN ms
      PROVE  /\ ChainedIn(gs, ms[i].chunks, Before(ms, i))
             /\ EndIn(gs, ms[i].chunks, Before(ms, i))
                   = EndIn(fs, ms[i].chunks, Before(ms, i))
    <2>1. ms[i].chunks \in Seq(ChunkRecords)
        <3>1. ms[i] \in MemberRecords
            OBVIOUS
        <3> QED
            BY <3>1 DEF MemberRecords
    <2>2. ChainedIn(fs, ms[i].chunks, Before(ms, i))
        BY DEF TocSound, Chained
    <2> QED
        BY <2>1, <2>2, ChainStays
<1> HIDE DEF gs
<1>3. Chained(gs, ms)
    BY <1>2 DEF Chained
<1>4. Covered(gs, ms, rep)
    <2>1. \A i \in 1 .. rep : i \in DOMAIN ms
        BY <1>1
    <2> QED
        BY <1>2, <2>1 DEF TocSound, Covered
<1> QED
    BY <1>3, <1>4 DEF TocSound, gs

(* The TOC with the entry of the member that has just been parsed. *)
LEMMA MemberAdded ==
    ASSUME TypeInv, MemberInv, pc = "parse", NEW h \in Headers,
           NEW digest \in SUBSET Int
    PROVE  /\ WithMember(h, digest) \in Seq(MemberRecords)
           /\ Len(WithMember(h, digest)) = Len(members) + 1
           /\ WithMember(h, digest)[Len(members) + 1] = TocMember(h, digest)
           /\ \A i \in 1 .. Len(members) :
                 /\ WithMember(h, digest)[i] = members[i]
                 /\ members[i].entryEnd <= prevEnd
           /\ TocSound(frames, WithMember(h, digest), Len(reported), group,
                       nextChunkStart)
           /\ Before(WithMember(h, digest), Len(members) + 1) = prevEnd
           /\ Before(WithMember(h, digest), Len(members) + 2) = EntryEnd(h)
           /\ Len(members) = Len(reported) + Len(group)
           /\ Len(reported) \in Nat /\ Len(group) \in Nat
<1> DEFINE m == TocMember(h, digest)
<1>1. /\ parseStart \in Nat /\ prevEnd \in Nat /\ prevEnd <= parseStart
      /\ members \in Seq(MemberRecords) /\ group \in Seq(GroupRecords)
      /\ reported \in Seq(Nat)
    BY DEF TypeInv, TypeOK, Layout
<1>2. m \in MemberRecords /\ m.chunks = <<>> /\ m.entryEnd = EntryEnd(h)
    BY <1>1, TocMemberType DEF TocMember
<1>3. prevEnd = Before(members, Len(members) + 1) /\ prevEnd < EntryEnd(h)
    BY <1>1, HeaderFacts DEF MemberInv
<1>4. TocSound(frames, members, Len(reported), group, nextChunkStart)
    BY DEF MemberInv
<1> HIDE DEF m
<1>5. /\ Append(members, m) \in Seq(MemberRecords)
      /\ Len(members) \in Nat /\ Len(Append(members, m)) = Len(members) + 1
      /\ Append(members, m)[Len(members) + 1] = m
      /\ \A i \in 1 .. Len(members) : Append(members, m)[i] = members[i]
    BY <1>1, <1>2
<1>6. /\ TocSound(frames, Append(members, m), Len(reported), group,
                  nextChunkStart)
      /\ Before(Append(members, m), Len(members) + 1) = prevEnd
      /\ Before(Append(members, m), Len(members) + 2) = EntryEnd(h)
    <2>1. Len(reported) \in Nat
        BY <1>1
    <2>2. Before(members, Len(members) + 1) < m.entryEnd
        BY <1>2, <1>3
    <2>3. members \in Seq(MemberRecords) /\ group \in Seq(GroupRecords)
        BY <1>1
    <2>4. /\ TocSound(frames, Append(members, m), Len(reported), group,
                      nextChunkStart)
          /\ Before(Append(members, m), Len(members) + 1)
                = Before(members, Len(members) + 1)
          /\ Before(Append(members, m), Len(members) + 2) = m.entryEnd
        BY <1>2, <1>4, <2>1, <2>2, <2>3, NewMember, ZenonT(30)
    <2> QED
        BY <1>2, <1>3, <2>4
<1>7. \A i \in 1 .. Len(members) : members[i].entryEnd <= prevEnd
    <2>1. DOMAIN members = 1 .. Len(members)
        BY <1>1
    <2> QED
        BY <1>3, <1>4, <2>1 DEF TocSound, Regions
<1>8. Len(members) = Len(reported) + Len(group)
    BY DEF MemberInv, ReportsInOrder
<1>9. WithMember(h, digest) = Append(members, m)
    BY DEF WithMember, m
<1> QED
    BY <1>1, <1>5, <1>6, <1>7, <1>8, <1>9 DEF m

(* content_sha256 of a small member is taken from its content. *)
LEMMA DigestExpected ==
    ASSUME NEW h \in Headers, parseStart \in Nat
    PROVE  /\ GroupDigest(h) = Expected(TocMember(h, GroupDigest(h)))
           /\ TocMember(h, GroupDigest(h)).digest = GroupDigest(h)
<1>1. h.kind = "File" => h.map = 0
    BY HeadersAssumption DEF HeaderRecords
<1>2. /\ h.lead \in Nat /\ Block \in Nat
    BY HeadersAssumption, BlockAssumption DEF HeaderRecords
<1>3. h.kind = "File" => DataStart(h) = TarOffset(h) + Block
    BY <1>1, <1>2 DEF DataStart, TarOffset
<1> QED
    BY <1>3 DEF GroupDigest, Expected, TocMember
-----------------------------------------------------------------------------
(* The actions that add a member to a group. *)

(* The small member h is in the TOC and in the group. *)
LEMMA GroupJoined ==
    ASSUME TypeInv, MemberInv, NEW h \in Headers, SmallMember(h)
    PROVE  /\ WithMember(h, GroupDigest(h)) \in Seq(MemberRecords)
           /\ Len(WithMember(h, GroupDigest(h))) = Len(members) + 1
           /\ Append(group, GroupEntry(h, groupSize)) \in Seq(GroupRecords)
           /\ TocSound(frames, WithMember(h, GroupDigest(h)), Len(reported),
                       Append(group, GroupEntry(h, groupSize)), nextChunkStart)
           /\ Len(Append(group, GroupEntry(h, groupSize))) = Len(group) + 1
           /\ Before(WithMember(h, GroupDigest(h)), Len(members) + 2)
                 = EntryEnd(h)
           /\ \A i \in 1 .. Len(members) + 1 :
                 WithMember(h, GroupDigest(h))[i].entryEnd <= EntryEnd(h)
<1>1. /\ pc = "parse" /\ EntryEnd(h) = prevEnd + RegionSize(h)
      /\ EntryEnd(h) \in Nat
    BY SmallMemberFacts
<1> DEFINE ms == WithMember(h, GroupDigest(h))
           e == GroupEntry(h, groupSize)
           rep == Len(reported)
           n == Len(members)
<1>2. /\ ms \in Seq(MemberRecords) /\ Len(ms) = n + 1
      /\ ms[n + 1] = TocMember(h, GroupDigest(h))
      /\ TocSound(frames, ms, rep, group, nextChunkStart)
      /\ Before(ms, n + 1) = prevEnd /\ Before(ms, n + 2) = EntryEnd(h)
      /\ n = rep + Len(group) /\ rep \in Nat /\ Len(group) \in Nat
    BY <1>1, MemberAdded, GroupDigestType
<1>3. /\ TocMember(h, GroupDigest(h)).chunks = <<>>
      /\ TocMember(h, GroupDigest(h)).entryEnd = EntryEnd(h)
    BY DEF TocMember
<1>4. /\ parseStart \in Nat /\ prevEnd \in Nat /\ groupSize \in Nat
      /\ nextChunkStart + groupSize = prevEnd /\ RegionSize(h) \in Nat
      /\ group \in Seq(GroupRecords)
    BY <1>1, SmallMemberFacts DEF TypeInv, TypeOK, Layout
<1>5. /\ e \in GroupRecords /\ e.idx = n + 1 /\ e.region = RegionSize(h)
      /\ e.offset = groupSize
    BY <1>4, GroupEntryType DEF GroupEntry, TypeInv
<1>6. TocMember(h, GroupDigest(h)).digest = Expected(TocMember(h, GroupDigest(h)))
    BY <1>4, DigestExpected
<1> HIDE DEF ms, e
<1>7. TocSound(frames, ms, rep, Append(group, e), nextChunkStart)
    <2>1. /\ ms[Len(ms)].chunks = <<>> /\ ms[Len(ms)].entryEnd = EntryEnd(h)
          /\ ms[Len(ms)].digest = Expected(ms[Len(ms)])
          /\ Before(ms, Len(ms)) = prevEnd /\ rep + Len(group) + 1 = Len(ms)
        BY <1>2, <1>3, <1>6
    <2>2. /\ e.region = ms[Len(ms)].entryEnd - Before(ms, Len(ms))
          /\ nextChunkStart + e.offset = Before(ms, Len(ms))
          /\ e.idx = Len(ms)
        BY <1>1, <1>2, <1>4, <1>5, <2>1
    <2> QED
        BY <1>2, <1>4, <1>5, <2>1, <2>2, Joins
<1>8. Append(group, e) \in Seq(GroupRecords) /\ Len(Append(group, e)) = Len(group) + 1
    BY <1>4, <1>5
<1>9. \A i \in 1 .. n + 1 : ms[i].entryEnd <= EntryEnd(h)
    <2>1. DOMAIN ms = 1 .. n + 1
        BY <1>2
    <2> QED
        BY <1>2, <2>1 DEF TocSound, Regions
<1> QED
    BY <1>2, <1>7, <1>8, <1>9 DEF ms, e

(* The group stays open: no frame is written. *)
LEMMA MemberJoinGroup == TypeInv /\ MemberInv /\ JoinGroup => MemberInv'
<1> SUFFICES ASSUME TypeInv, MemberInv, JoinGroup PROVE MemberInv'
    OBVIOUS
<1>1. PICK h \in Headers :
        /\ SmallMember(h)
        /\ members' = WithMember(h, GroupDigest(h))
        /\ group' = Append(group, GroupEntry(h, groupSize))
        /\ UNCHANGED outVars
    BY DEF JoinGroup
<1>2. pc = "parse" /\ pc' = "parse" /\ prevEnd' = EntryEnd(h)
    BY <1>1, SmallMemberFacts
<1>3. /\ Len(members') = Len(members) + 1
      /\ TocSound(frames, members', Len(reported), group', nextChunkStart)
      /\ Len(group') = Len(group) + 1
      /\ Before(members', Len(members) + 2) = EntryEnd(h)
    BY <1>1, GroupJoined
<1>4. /\ Len(members) = Len(reported) + Len(group) /\ Len(reported) \in Nat
      /\ Len(group) \in Nat
    BY <1>2 DEF MemberInv, ReportsInOrder, TypeInv, TypeOK
<1>5. /\ reported' = reported /\ frames' = frames
      /\ nextChunkStart' = nextChunkStart
    BY <1>1 DEF outVars
<1>6. ReportsInOrder'
    BY <1>2, <1>3, <1>4, <1>5 DEF ReportsInOrder, MemberInv, TocSound, Waits
<1>7. prevEnd' = Before(members', Len(members') + 1)
    BY <1>2, <1>3, <1>4
<1> QED
    BY <1>2, <1>3, <1>5, <1>6, <1>7 DEF MemberInv, StreamInv, EndInv

(* The member fills the group and is reported with it. *)
LEMMA MemberJoinAndFlush ==
    TypeInv /\ OutputInv /\ MemberInv /\ JoinAndFlush => MemberInv'
<1> SUFFICES ASSUME TypeInv, OutputInv, MemberInv, JoinAndFlush PROVE MemberInv'
    OBVIOUS
<1>1. PICK h \in Headers :
        /\ SmallMember(h)
        /\ Flush(WithMember(h, GroupDigest(h)),
                 Append(group, GroupEntry(h, groupSize)),
                 groupSize + RegionSize(h))
        /\ group' = <<>>
    BY DEF JoinAndFlush
<1> DEFINE ms == WithMember(h, GroupDigest(h))
           g == Append(group, GroupEntry(h, groupSize))
           size == groupSize + RegionSize(h)
<1>2. /\ pc = "parse" /\ pc' = "parse" /\ prevEnd' = EntryEnd(h)
      /\ winEnd' \in Nat /\ size \in Nat
      /\ nextChunkStart + size = EntryEnd(h)
    <2>1. /\ pc = "parse" /\ pc' = "parse" /\ prevEnd' = EntryEnd(h)
          /\ winEnd' \in Nat /\ RegionSize(h) \in Nat
          /\ EntryEnd(h) = prevEnd + RegionSize(h)
        BY <1>1, SmallMemberFacts
    <2>2. /\ groupSize \in Nat /\ nextChunkStart \in Nat
          /\ nextChunkStart + groupSize = prevEnd
        BY <2>1 DEF TypeInv, TypeOK, Layout
    <2> QED
        BY <2>1, <2>2
<1>3. /\ ms \in Seq(MemberRecords) /\ Len(ms) = Len(members) + 1
      /\ g \in Seq(GroupRecords) /\ Len(g) = Len(group) + 1
      /\ TocSound(frames, ms, Len(reported), g, nextChunkStart)
      /\ Before(ms, Len(members) + 2) = EntryEnd(h)
      /\ \A i \in 1 .. Len(members) + 1 : ms[i].entryEnd <= EntryEnd(h)
    BY <1>1, GroupJoined
<1>4. /\ Len(members) = Len(reported) + Len(group) /\ Len(reported) \in Nat
      /\ Len(group) \in Nat
    <2>1. reported \in Seq(Nat) /\ group \in Seq(GroupRecords)
        BY DEF TypeInv, TypeOK
    <2>2. Len(members) = Len(reported) + Len(group)
        BY <1>2 DEF MemberInv, ReportsInOrder
    <2> QED
        BY <2>1, <2>2
<1>5. Flush(ms, g, size) /\ InOrder(frames) /\ ReportsInOrder
    BY <1>1 DEF MemberInv
<1> HIDE DEF ms, g, size
<1>6. \A i \in Len(reported) + 1 .. Len(reported) + Len(g) :
         ms[i].entryEnd <= nextChunkStart + size
    BY <1>2, <1>3, <1>4
<1>7. /\ InOrder(frames')
      /\ TocSound(frames', members', Len(reported) + Len(g), <<>>,
                  nextChunkStart')
      /\ Len(members') = Len(ms)
      /\ \A i \in 1 .. Len(ms) + 1 : Before(members', i) = Before(ms, i)
      /\ Len(reported') = Len(reported) + Len(g)
      /\ \A r \in DOMAIN reported' : reported'[r] = r
    BY <1>2, <1>3, <1>5, <1>6, FlushSettles
<1>8. Len(<<>>) = 0 /\ DOMAIN <<>> = {}
    OBVIOUS
<1>9. ReportsInOrder'
    <2>1. Len(members') = Len(reported') + Len(group') /\ DOMAIN group' = {}
        BY <1>1, <1>3, <1>4, <1>7, <1>8
    <2> QED
        BY <1>2, <1>7, <2>1 DEF ReportsInOrder
<1>10. prevEnd' = Before(members', Len(members') + 1)
    <2>1. Len(members) + 2 \in 1 .. Len(ms) + 1 /\ Len(members') + 1 = Len(members) + 2
        BY <1>3, <1>4, <1>7
    <2> QED
        BY <1>2, <1>3, <1>7, <2>1
<1> QED
    BY <1>1, <1>2, <1>7, <1>9, <1>10 DEF MemberInv, StreamInv, EndInv

(* The group is reported without the member, which opens the next one. *)
LEMMA MemberFlushThenJoin ==
    TypeInv /\ OutputInv /\ MemberInv /\ FlushThenJoin => MemberInv'
<1> SUFFICES ASSUME TypeInv, OutputInv, MemberInv, FlushThenJoin PROVE MemberInv'
    OBVIOUS
<1>1. PICK h \in Headers :
        /\ SmallMember(h)
        /\ Flush(WithMember(h, GroupDigest(h)), group, groupSize)
        /\ group' = <<GroupEntry(h, 0)>>
    BY DEF FlushThenJoin
<1> DEFINE ms == WithMember(h, GroupDigest(h))
           e == GroupEntry(h, 0)
           rep == Len(reported)
           n == Len(members)
<1>2. /\ pc = "parse" /\ pc' = "parse" /\ prevEnd' = EntryEnd(h)
      /\ winEnd' \in Nat /\ groupSize \in Nat /\ parseStart \in Nat
      /\ RegionSize(h) \in Nat /\ EntryEnd(h) = prevEnd + RegionSize(h)
      /\ prevEnd \in Nat /\ nextChunkStart + groupSize = prevEnd
      /\ group \in Seq(GroupRecords) /\ EntryEnd(h) \in Nat
    BY <1>1, SmallMemberFacts DEF TypeInv, TypeOK, Layout
<1>3. /\ ms \in Seq(MemberRecords) /\ Len(ms) = n + 1
      /\ ms[n + 1] = TocMember(h, GroupDigest(h))
      /\ \A i \in 1 .. n : ms[i] = members[i] /\ members[i].entryEnd <= prevEnd
      /\ TocSound(frames, ms, rep, group, nextChunkStart)
      /\ Before(ms, n + 1) = prevEnd /\ Before(ms, n + 2) = EntryEnd(h)
      /\ n = rep + Len(group) /\ rep \in Nat /\ Len(group) \in Nat
    BY <1>2, MemberAdded, GroupDigestType
<1>4. /\ ms[n + 1].chunks = <<>> /\ ms[n + 1].entryEnd = EntryEnd(h)
      /\ ms[n + 1].digest = Expected(ms[n + 1])
    <2>1. /\ TocMember(h, GroupDigest(h)).chunks = <<>>
          /\ TocMember(h, GroupDigest(h)).entryEnd = EntryEnd(h)
        BY DEF TocMember
    <2>2. TocMember(h, GroupDigest(h)).digest
             = Expected(TocMember(h, GroupDigest(h)))
        BY <1>2, DigestExpected
    <2> QED
        BY <1>3, <2>1, <2>2
<1>5. /\ e \in GroupRecords /\ e.idx = n + 1 /\ e.region = RegionSize(h)
      /\ e.offset = 0
    BY <1>2, GroupEntryType DEF GroupEntry, TypeInv
<1>6. Flush(ms, group, groupSize) /\ InOrder(frames) /\ ReportsInOrder
    BY <1>1 DEF MemberInv
<1>7. nextChunkStart' = prevEnd
    BY <1>1, <1>2 DEF Flush, DrainTo
<1>8. group' = <<e>> /\ <<e>> = Append(<<>>, e)
    BY <1>1
<1> HIDE DEF ms, e
<1>9. \A i \in rep + 1 .. rep + Len(group) :
         ms[i].entryEnd <= nextChunkStart + groupSize
    <2>1. \A i \in rep + 1 .. rep + Len(group) : i \in 1 .. n
        BY <1>3
    <2> QED
        BY <1>2, <1>3, <2>1
<1>10. /\ InOrder(frames')
       /\ TocSound(frames', members', rep + Len(group), <<>>, nextChunkStart')
       /\ members' \in Seq(MemberRecords) /\ Len(members') = Len(ms)
       /\ members'[n + 1] = ms[n + 1]
       /\ Before(members', n + 1) = prevEnd
       /\ Before(members', n + 2) = EntryEnd(h)
       /\ Len(reported') = rep + Len(group)
       /\ \A r \in DOMAIN reported' : reported'[r] = r
    <2>1. /\ InOrder(frames')
          /\ TocSound(frames', members', rep + Len(group), <<>>, nextChunkStart')
          /\ members' \in Seq(MemberRecords) /\ Len(members') = Len(ms)
          /\ \A i \in 1 .. Len(ms) :
                i \notin rep + 1 .. rep + Len(group) => members'[i] = ms[i]
          /\ \A i \in 1 .. Len(ms) + 1 : Before(members', i) = Before(ms, i)
          /\ Len(reported') = rep + Len(group)
          /\ \A r \in DOMAIN reported' : reported'[r] = r
        BY <1>2, <1>3, <1>6, <1>9, FlushSettles
    <2>2. /\ n + 1 \in 1 .. Len(ms) /\ n + 1 \notin rep + 1 .. rep + Len(group)
          /\ n + 1 \in 1 .. Len(ms) + 1 /\ n + 2 \in 1 .. Len(ms) + 1
        BY <1>3
    <2> QED
        BY <1>3, <2>1, <2>2
<1>11. Len(<<>>) = 0 /\ <<>> \in Seq(GroupRecords)
    OBVIOUS
<1>12. TocSound(frames', members', rep + Len(group), Append(<<>>, e),
                nextChunkStart')
    <2> DEFINE ns == members'
    <2>1. /\ ns \in Seq(MemberRecords) /\ Len(ns) = n + 1
          /\ ns[Len(ns)].chunks = <<>> /\ ns[Len(ns)].entryEnd = EntryEnd(h)
          /\ ns[Len(ns)].digest = Expected(ns[Len(ns)])
          /\ Before(ns, Len(ns)) = prevEnd
          /\ TocSound(frames', ns, rep + Len(group), <<>>, nextChunkStart')
        BY <1>3, <1>4, <1>10
    <2>2. rep + Len(group) + Len(<<>>) + 1 = Len(ns) /\ rep + Len(group) \in Nat
        BY <1>3, <1>11, <2>1
    <2> HIDE DEF ns
    <2>3. /\ e.region = ns[Len(ns)].entryEnd - Before(ns, Len(ns))
          /\ nextChunkStart' + e.offset = Before(ns, Len(ns))
          /\ e.idx = Len(ns)
        BY <1>2, <1>5, <1>7, <2>1
    <2>4. TocSound(frames', ns, rep + Len(group), Append(<<>>, e),
                   nextChunkStart')
        BY <1>5, <1>11, <2>1, <2>2, <2>3, Joins
    <2> QED
        BY <2>4 DEF ns
<1>13. Len(Append(<<>>, e)) = 1
    BY <1>5
<1>14. ReportsInOrder'
    BY <1>2, <1>3, <1>8, <1>10, <1>12, <1>13 DEF ReportsInOrder, TocSound, Waits
<1>15. prevEnd' = Before(members', Len(members') + 1)
    BY <1>2, <1>3, <1>10
<1> QED
    BY <1>2, <1>8, <1>10, <1>12, <1>14, <1>15 DEF MemberInv, StreamInv, EndInv
-----------------------------------------------------------------------------
(* The actions that flush what is in the group. *)

(* flush_group on the current group, when ms is the TOC. *)
LEMMA GroupFlushed ==
    ASSUME TypeInv, OutputInv, MemberInv, pc \in {"parse", "drain"},
           winEnd' \in Nat, NEW ms \in Seq(MemberRecords),
           TocSound(frames, ms, Len(reported), group, nextChunkStart),
           \A i \in Len(reported) + 1 .. Len(reported) + Len(group) :
              ms[i].entryEnd <= prevEnd,
           FlushGroup(ms)
    PROVE  /\ InOrder(frames')
           /\ TocSound(frames', members', Len(reported'), <<>>, nextChunkStart')
           /\ members' \in Seq(MemberRecords) /\ Len(members') = Len(ms)
           /\ \A i \in 1 .. Len(ms) :
                 i \notin Len(reported) + 1 .. Len(reported) + Len(group)
                   => members'[i] = ms[i]
           /\ \A i \in 1 .. Len(ms) + 1 : Before(members', i) = Before(ms, i)
           /\ Len(reported') = Len(reported) + Len(group)
           /\ \A r \in DOMAIN reported' : reported'[r] = r
           /\ nextChunkStart' = prevEnd /\ group' = <<>>
<1>1. /\ groupSize \in Nat /\ group \in Seq(GroupRecords)
      /\ nextChunkStart + groupSize = prevEnd /\ Len(reported) \in Nat
      /\ nextChunkStart \in Nat /\ (group = <<>> => groupSize = 0)
    BY DEF TypeInv, TypeOK, Layout
<1>2. group' = <<>>
    BY DEF FlushGroup
<1>3. InOrder(frames) /\ ReportsInOrder
    BY DEF MemberInv
<1>4. CASE group = <<>> /\ members' = ms /\ UNCHANGED outVars
    <2>1. /\ frames' = frames /\ nextChunkStart' = nextChunkStart
          /\ reported' = reported /\ Len(group) = 0
        BY <1>4 DEF outVars
    <2>2. TocSound(frames', members', Len(reported'), <<>>, nextChunkStart')
        BY <1>4, <2>1
    <2>3. /\ \A r \in DOMAIN reported' : reported'[r] = r
          /\ nextChunkStart' = prevEnd
        BY <1>1, <1>3, <1>4, <2>1 DEF ReportsInOrder
    <2> QED
        BY <1>1, <1>2, <1>3, <1>4, <2>1, <2>2, <2>3
<1>5. CASE group # <<>> /\ Flush(ms, group, groupSize)
    <2>1. nextChunkStart' = prevEnd
        BY <1>1, <1>5 DEF Flush, DrainTo
    <2> QED
        BY <1>1, <1>2, <1>3, <1>5, <2>1, FlushSettles
<1> QED
    BY <1>4, <1>5 DEF FlushGroup

(* After the last member the end marker has been seen. *)
LEMMA MemberFlushLast ==
    TypeInv /\ OutputInv /\ MemberInv /\ FlushLast => MemberInv'
<1> SUFFICES ASSUME TypeInv, OutputInv, MemberInv, FlushLast PROVE MemberInv'
    OBVIOUS
<1>1. /\ pc = "drain" /\ pc' = "trailer" /\ FlushGroup(members)
      /\ winEnd = inputLen /\ MarkerValid
      /\ UNCHANGED <<winEnd, inputLen, parseStart, prevEnd, markerZero>>
    BY DEF FlushLast
<1>2. /\ members \in Seq(MemberRecords) /\ winEnd \in Nat
      /\ Len(reported) \in Nat /\ Len(group) \in Nat /\ Len(members) \in Nat
      /\ DOMAIN members = 1 .. Len(members)
    BY DEF TypeInv, TypeOK
<1>3. /\ TocSound(frames, members, Len(reported), group, nextChunkStart)
      /\ prevEnd = Before(members, Len(members) + 1)
      /\ Len(members) = Len(reported) + Len(group)
    BY <1>1 DEF MemberInv, ReportsInOrder
<1>4. \A i \in Len(reported) + 1 .. Len(reported) + Len(group) :
         members[i].entryEnd <= prevEnd
    <2>1. \A i \in Len(reported) + 1 .. Len(reported) + Len(group) :
             i \in DOMAIN members
        BY <1>2, <1>3
    <2> QED
        BY <1>3, <2>1 DEF TocSound, Regions
<1>5. /\ InOrder(frames')
      /\ TocSound(frames', members', Len(reported'), <<>>, nextChunkStart')
      /\ Len(members') = Len(members)
      /\ \A i \in 1 .. Len(members) + 1 : Before(members', i) = Before(members, i)
      /\ Len(reported') = Len(reported) + Len(group)
      /\ \A r \in DOMAIN reported' : reported'[r] = r
      /\ group' = <<>>
    <2>1. winEnd' \in Nat
        BY <1>1, <1>2
    <2> QED
        BY <1>1, <1>2, <1>3, <1>4, <2>1, GroupFlushed
<1>6. ReportsInOrder'
    <2>1. Len(members') = Len(reported') + Len(group') /\ DOMAIN group' = {}
        BY <1>2, <1>3, <1>5
    <2> QED
        BY <1>1, <1>5, <2>1 DEF ReportsInOrder
<1>7. prevEnd' = Before(members', Len(members') + 1)
    <2>1. Len(members) + 1 \in 1 .. Len(members) + 1
        BY <1>2
    <2> QED
        BY <1>1, <1>3, <1>5, <2>1
<1>8. EndInv' /\ StreamInv'
    BY <1>1 DEF MarkerValid, EndInv, StreamInv
<1> QED
    BY <1>5, <1>6, <1>7, <1>8 DEF MemberInv

(* The header of a large member is read, and none of its data. *)
LEMMA MemberBeginLarge ==
    TypeInv /\ OutputInv /\ MemberInv /\ BeginLarge => MemberInv'
<1> SUFFICES ASSUME TypeInv, OutputInv, MemberInv, BeginLarge PROVE MemberInv'
    OBVIOUS
<1>1. PICK h \in Headers :
        /\ ParseMember(h) /\ CanCapture(DataStart(h))
        /\ winEnd' = Captured(DataStart(h))
        /\ FlushGroup(WithMember(h, NoDigest))
        /\ pc' = "stream" /\ dataLeft' = h.size /\ content' = {}
    BY DEF BeginLarge
<1> DEFINE ms == WithMember(h, NoDigest)
           rep == Len(reported)
           n == Len(members)
<1>2. /\ pc = "parse" /\ prevEnd' = EntryEnd(h) /\ winEnd = parseStart
      /\ parseStart \in Nat /\ prevEnd \in Nat /\ prevEnd <= parseStart
    BY <1>1 DEF ParseMember, TypeInv, TypeOK, Layout
<1>3. /\ DataStart(h) \in Nat /\ h.size \in Nat /\ EntryEnd(h) \in Nat
      /\ parseStart < DataStart(h)
      /\ EntryEnd(h) = DataStart(h) + Padded(h.size)
    <2>1. /\ DataStart(h) \in Nat /\ h.size \in Nat /\ EntryEnd(h) \in Nat
          /\ parseStart <= TarOffset(h) /\ TarOffset(h) < DataStart(h)
          /\ TarOffset(h) \in Nat
        BY <1>2, HeaderFacts
    <2> QED
        BY <1>2, <2>1 DEF EntryEnd
<1>4. winEnd' = DataStart(h) /\ winEnd' \in Nat
    BY <1>1, <1>2, <1>3 DEF Captured
<1>5. NoDigest \in SUBSET Int
    BY DEF NoDigest
<1>6. /\ ms \in Seq(MemberRecords) /\ Len(ms) = n + 1
      /\ ms[n + 1] = TocMember(h, NoDigest)
      /\ \A i \in 1 .. n : ms[i] = members[i] /\ members[i].entryEnd <= prevEnd
      /\ TocSound(frames, ms, rep, group, nextChunkStart)
      /\ Before(ms, n + 1) = prevEnd /\ Before(ms, n + 2) = EntryEnd(h)
      /\ n = rep + Len(group) /\ rep \in Nat /\ Len(group) \in Nat
    BY <1>2, <1>5, MemberAdded
<1>7. FlushGroup(ms)
    BY <1>1
<1> HIDE DEF ms
<1>8. \A i \in rep + 1 .. rep + Len(group) : ms[i].entryEnd <= prevEnd
    <2>1. \A i \in rep + 1 .. rep + Len(group) : i \in 1 .. n
        BY <1>6
    <2> QED
        BY <1>6, <2>1
<1>9. /\ InOrder(frames')
      /\ TocSound(frames', members', Len(reported'), <<>>, nextChunkStart')
      /\ Len(members') = n + 1
      /\ members'[n + 1] = TocMember(h, NoDigest)
      /\ Before(members', n + 1) = prevEnd
      /\ Before(members', n + 2) = EntryEnd(h)
      /\ Len(reported') = rep + Len(group)
      /\ \A r \in DOMAIN reported' : reported'[r] = r
      /\ nextChunkStart' = prevEnd /\ group' = <<>>
    <2>1. /\ InOrder(frames')
          /\ TocSound(frames', members', Len(reported'), <<>>, nextChunkStart')
          /\ Len(members') = Len(ms)
          /\ \A i \in 1 .. Len(ms) :
                i \notin rep + 1 .. rep + Len(group) => members'[i] = ms[i]
          /\ \A i \in 1 .. Len(ms) + 1 : Before(members', i) = Before(ms, i)
          /\ Len(reported') = rep + Len(group)
          /\ \A r \in DOMAIN reported' : reported'[r] = r
          /\ nextChunkStart' = prevEnd /\ group' = <<>>
        BY <1>2, <1>4, <1>6, <1>7, <1>8, GroupFlushed
    <2>2. /\ n + 1 \in 1 .. Len(ms) /\ n + 1 \notin rep + 1 .. rep + Len(group)
          /\ n + 1 \in 1 .. Len(ms) + 1 /\ n + 2 \in 1 .. Len(ms) + 1
        BY <1>6
    <2> QED
        BY <1>6, <2>1, <2>2
<1>10. ReportsInOrder'
    <2>1. Len(members') = Len(reported') + 1 /\ DOMAIN group' = {}
        BY <1>6, <1>9
    <2> QED
        BY <1>1, <1>9, <2>1 DEF ReportsInOrder
<1>11. prevEnd' = Before(members', Len(members') + 1)
    BY <1>2, <1>6, <1>9
<1>12. StreamInv'
    <2> DEFINE m == TocMember(h, NoDigest)
    <2>1. /\ m.chunks = <<>> /\ m.entryEnd = EntryEnd(h)
          /\ m.dataStart = DataStart(h) /\ m.size = h.size
        BY DEF TocMember
    <2>2. members'[Len(members')] = m
        BY <1>9
    <2> HIDE DEF m
    <2>3. EndIn(frames', m.chunks, Before(members', Len(members')))
             = nextChunkStart'
        BY <1>9, <2>1 DEF EndIn
    <2>4. content' = m.dataStart .. m.dataStart + m.size - dataLeft' - 1
        BY <1>1, <1>3, <2>1
    <2>5. /\ dataLeft' <= m.size
          /\ winEnd' = m.dataStart + m.size - dataLeft'
          /\ dataLeft' = 0 => m.dataStart + m.size <= winEnd'
        BY <1>1, <1>3, <1>4, <2>1
    <2> QED
        BY <1>1, <1>3, <2>1, <2>2, <2>3, <2>4, <2>5 DEF StreamInv
<1>13. EndInv'
    BY <1>1 DEF EndInv
<1> QED
    BY <1>9, <1>10, <1>11, <1>12, <1>13 DEF MemberInv
-----------------------------------------------------------------------------
(* The actions that read and cut a large member. *)

(* What is known of the member that is being streamed. *)
LEMMA StreamFacts ==
    ASSUME TypeInv, MemberInv, pc = "stream"
    PROVE  LET n == Len(members) m == members[n] IN
           /\ n \in Nat /\ n > 0 /\ members \in Seq(MemberRecords)
           /\ m \in MemberRecords /\ m.dataStart \in Nat /\ m.size \in Nat
           /\ m.chunks \in Seq(ChunkRecords) /\ m.entryEnd = prevEnd
           /\ group = <<>> /\ Len(reported) \in Nat /\ Len(reported) + 1 = n
           /\ TocSound(frames, members, Len(reported), <<>>, nextChunkStart)
           /\ Before(members, n) \in Nat /\ Before(members, n) < prevEnd
           /\ ChainedIn(frames, m.chunks, Before(members, n))
           /\ EndIn(frames, m.chunks, Before(members, n)) = nextChunkStart
           /\ nextChunkStart \in Nat /\ prevEnd \in Nat
           /\ winEnd \in Nat /\ dataLeft \in Nat /\ winBase = nextChunkStart
<1> DEFINE n == Len(members)
           m == members[n]
<1>1. /\ members \in Seq(MemberRecords) /\ members # <<>> /\ group = <<>>
      /\ Len(reported) \in Nat /\ nextChunkStart \in Nat /\ prevEnd \in Nat
      /\ winEnd \in Nat /\ dataLeft \in Nat /\ winBase = nextChunkStart
    BY DEF TypeInv, TypeOK, Layout
<1>2. n \in Nat /\ n > 0 /\ n \in DOMAIN members /\ m \in MemberRecords
    BY <1>1
<1>3. /\ m.dataStart \in Nat /\ m.size \in Nat /\ m.chunks \in Seq(ChunkRecords)
    BY <1>2 DEF MemberRecords
<1>4. m.entryEnd = prevEnd
    BY <1>2 DEF MemberInv, Before
<1>5. TocSound(frames, members, Len(reported), <<>>, nextChunkStart)
    BY <1>1 DEF MemberInv
<1>6. Before(members, n) \in Nat
    <2>1. n \in 1 .. n + 1
        BY <1>2
    <2> QED
        BY <1>1, <2>1, BeforeType
<1>7. /\ Before(members, n) < m.entryEnd
      /\ ChainedIn(frames, m.chunks, Before(members, n))
    BY <1>2, <1>5 DEF TocSound, Regions, Chained
<1>8. EndIn(frames, m.chunks, Before(members, n)) = nextChunkStart
    BY DEF MemberInv, StreamInv
<1>9. Len(reported) + 1 = n
    BY <1>1 DEF MemberInv, ReportsInOrder
<1> QED
    BY <1>1, <1>2, <1>3, <1>4, <1>5, <1>6, <1>7, <1>8, <1>9

(* What a read returns is hashed, and is in the window. *)
LEMMA MemberReadData == TypeInv /\ MemberInv /\ ReadData => MemberInv'
<1> SUFFICES ASSUME TypeInv, MemberInv, ReadData PROVE MemberInv'
    OBVIOUS
<1>1. PICK n \in 1 .. Scratch :
        /\ n <= dataLeft /\ winEnd' = winEnd + n /\ dataLeft' = dataLeft - n
        /\ content' = content \cup (winEnd .. winEnd + n - 1)
    BY DEF ReadData
<1>2. /\ pc = "stream" /\ pc' = "stream" /\ ~FullChunk
      /\ UNCHANGED <<prevEnd, members, group, frames, nextChunkStart, reported,
                     winBase>>
    BY DEF ReadData, groupVars, outVars
<1>3. n \in Nat /\ n > 0 /\ n <= Scratch /\ Scratch \in Nat
    BY ScratchAssumption
<1> DEFINE m == members[Len(members)]
<1>4. /\ m.dataStart \in Nat /\ m.size \in Nat /\ winEnd \in Nat
      /\ dataLeft \in Nat /\ nextChunkStart \in Nat /\ winBase = nextChunkStart
    BY <1>2, StreamFacts
<1>5. /\ EndIn(frames, m.chunks, Before(members, Len(members))) = nextChunkStart
      /\ m.entryEnd = m.dataStart + Padded(m.size)
      /\ dataLeft <= m.size
      /\ content = m.dataStart .. m.dataStart + m.size - dataLeft - 1
      /\ dataLeft > 0 => winEnd = m.dataStart + m.size - dataLeft
    BY <1>2 DEF MemberInv, StreamInv
<1>6. members'[Len(members')] = m
    BY <1>2
<1> HIDE DEF m
<1>7. content' = m.dataStart .. m.dataStart + m.size - dataLeft' - 1
    <2>1. winEnd = m.dataStart + m.size - dataLeft
        BY <1>1, <1>3, <1>4, <1>5
    <2>2. content = m.dataStart .. winEnd - 1 /\ m.dataStart <= winEnd
        BY <1>4, <1>5, <2>1
    <2>3. content' = m.dataStart .. winEnd + n - 1
        BY <1>1, <1>3, <1>4, <2>2
    <2>4. winEnd + n - 1 = m.dataStart + m.size - dataLeft' - 1
        BY <1>1, <1>3, <1>4, <2>1
    <2> QED
        BY <2>3, <2>4
<1>8. /\ dataLeft' <= m.size
      /\ winEnd' = m.dataStart + m.size - dataLeft'
      /\ dataLeft' = 0 => m.dataStart + m.size <= winEnd'
      /\ winEnd' - winBase' < ChunkSize + Scratch
    <2>1. winEnd = m.dataStart + m.size - dataLeft
        BY <1>1, <1>3, <1>4, <1>5
    <2>2. winEnd - nextChunkStart < ChunkSize /\ ChunkSize \in Nat
        BY <1>2, <1>4, ChunkSizeAssumption DEF FullChunk
    <2>3. winBase' = nextChunkStart
        BY <1>2, <1>4
    <2>4. dataLeft' <= m.size /\ winEnd' = m.dataStart + m.size - dataLeft'
        <3>1. dataLeft <= m.size
            BY <1>5
        <3> QED
            BY <1>1, <1>3, <1>4, <2>1, <3>1
    <2>5. dataLeft' = 0 => m.dataStart + m.size <= winEnd'
        BY <1>4, <2>4
    <2>6. winEnd' - winBase' < ChunkSize + Scratch
        BY <1>1, <1>3, <1>4, <2>2, <2>3
    <2> QED
        BY <2>4, <2>5, <2>6
<1>9. StreamInv'
    BY <1>2, <1>5, <1>6, <1>7, <1>8 DEF StreamInv
<1>10. EndInv'
    BY <1>2 DEF EndInv
<1> QED
    BY <1>2, <1>9, <1>10, MemberUntouched

(* The padding is shorter than a block, and is not hashed. *)
LEMMA MemberCapturePadding == TypeInv /\ MemberInv /\ CapturePadding => MemberInv'
<1> SUFFICES ASSUME TypeInv, MemberInv, CapturePadding PROVE MemberInv'
    OBVIOUS
<1>1. /\ pc = "stream" /\ pc' = "stream" /\ ~FullChunk
      /\ dataLeft = 0 /\ winEnd < prevEnd /\ winEnd' = Captured(prevEnd)
      /\ UNCHANGED <<prevEnd, members, group, frames, nextChunkStart, reported,
                     winBase, dataLeft, content>>
    BY DEF CapturePadding, groupVars, streamVars, outVars
<1> DEFINE m == members[Len(members)]
<1>2. /\ m.dataStart \in Nat /\ m.size \in Nat /\ winEnd \in Nat
      /\ nextChunkStart \in Nat /\ winBase = nextChunkStart
      /\ m.entryEnd = prevEnd /\ prevEnd \in Nat
    BY <1>1, StreamFacts
<1>3. /\ EndIn(frames, m.chunks, Before(members, Len(members))) = nextChunkStart
      /\ m.entryEnd = m.dataStart + Padded(m.size)
      /\ content = m.dataStart .. m.dataStart + m.size - dataLeft - 1
      /\ m.dataStart + m.size <= winEnd
    BY <1>1 DEF MemberInv, StreamInv
<1>4. members'[Len(members')] = m
    BY <1>1
<1> HIDE DEF m
<1>5. Padded(m.size) \in Nat /\ Padded(m.size) < m.size + Block
    BY <1>2, PaddedFacts
<1>6. winEnd' = prevEnd
    BY <1>1 DEF Captured
<1>7. winEnd' - winBase' < ChunkSize + Scratch
    <2>1. winEnd - nextChunkStart < ChunkSize
        BY <1>1, <1>2, ChunkSizeAssumption DEF FullChunk
    <2>2. winEnd' < winEnd + Block /\ winBase' = nextChunkStart
        BY <1>1, <1>2, <1>3, <1>5, <1>6, BlockAssumption
    <2> QED
        BY <1>2, <1>6, <2>1, <2>2, BlockAssumption, ScratchAssumption,
           ChunkSizeAssumption
<1>8. StreamInv'
    BY <1>1, <1>2, <1>3, <1>4, <1>6, <1>7 DEF StreamInv
<1>9. EndInv'
    BY <1>1 DEF EndInv
<1> QED
    BY <1>1, <1>8, <1>9, MemberUntouched

(* What PushFrame does to the frames, and so to every chain of chunks. *)
LEMMA FramePushed ==
    ASSUME TypeInv, OutputInv, MemberInv, NEW end \in Nat, NEW z \in FrameSizes,
           PushFrame(end, z)
    PROVE  LET x == NewFrame(nextChunkStart, end, z) IN
           /\ frames' = Append(frames, x) /\ x \in FrameRecords
           /\ frames \in Seq(FrameRecords)
           /\ InOrder(frames) /\ InOrder(Append(frames, x))
           /\ x.at = pos /\ x.size = z /\ x.start = nextChunkStart /\ x.end = end
           /\ nextChunkStart' = end /\ winBase' = end
           /\ Stays(frames, frames')
<1> DEFINE x == NewFrame(nextChunkStart, end, z)
<1>1. /\ nextChunkStart \in Nat /\ frames \in Seq(FrameRecords)
      /\ InOrder(frames)
    BY DEF TypeInv, TypeOK, MemberInv
<1>2. /\ frames' = Append(frames, x) /\ nextChunkStart' = end /\ winBase' = end
    BY DEF PushFrame, CompressFrame, DrainTo, NewFrame
<1>3. x \in FrameRecords /\ InOrder(Append(frames, x))
    BY <1>1, FrameInOrder
<1>4. x.at = pos /\ x.size = z /\ x.start = nextChunkStart /\ x.end = end
    BY DEF NewFrame, OutputInv, PosIsOutputLength
<1> HIDE DEF x
<1>5. Stays(frames, frames')
    BY <1>1, <1>2, <1>3, ChainStays DEF Stays
<1> QED
    BY <1>1, <1>2, <1>3, <1>4, <1>5 DEF x

(* The member being streamed gets its next chunk. *)
LEMMA LastExtended ==
    ASSUME TypeInv, OutputInv, MemberInv, pc = "stream",
           NEW end \in Nat, nextChunkStart < end, NEW z \in FrameSizes,
           PushFrame(end, z), NEW m \in MemberRecords,
           m.chunks = members[Len(members)].chunks,
           m.entryEnd = members[Len(members)].entryEnd,
           members' = [members EXCEPT ![Len(members)] =
                         WithChunk(m, StreamChunk(end, z))]
    PROVE  LET n == Len(members) IN
           /\ members' \in Seq(MemberRecords) /\ Len(members') = n
           /\ members'[n] = WithChunk(m, StreamChunk(end, z))
           /\ members'[n].chunks # <<>>
           /\ TocSound(frames', members', Len(reported), <<>>, nextChunkStart')
           /\ EndIn(frames', members'[n].chunks, Before(members', n)) = end
           /\ \A i \in 1 .. n + 1 : Before(members', i) = Before(members, i)
           /\ InOrder(frames') /\ nextChunkStart' = end /\ winBase' = end
<1> DEFINE n == Len(members)
           c == StreamChunk(end, z)
           x == NewFrame(nextChunkStart, end, z)
           w == WithChunk(m, c)
<1>1. /\ n \in Nat /\ n > 0 /\ members \in Seq(MemberRecords)
      /\ m.chunks \in Seq(ChunkRecords)
      /\ Len(reported) \in Nat /\ Len(reported) + 1 = n
      /\ TocSound(frames, members, Len(reported), <<>>, nextChunkStart)
      /\ Before(members, n) \in Nat
      /\ ChainedIn(frames, m.chunks, Before(members, n))
      /\ EndIn(frames, m.chunks, Before(members, n)) = nextChunkStart
      /\ nextChunkStart \in Nat
    BY StreamFacts
<1>2. /\ frames' = Append(frames, x) /\ x \in FrameRecords
      /\ frames \in Seq(FrameRecords)
      /\ InOrder(frames) /\ InOrder(Append(frames, x))
      /\ x.at = pos /\ x.size = z /\ x.start = nextChunkStart /\ x.end = end
      /\ nextChunkStart' = end /\ winBase' = end
      /\ Stays(frames, frames')
    BY FramePushed
<1>3. /\ c \in ChunkRecords /\ c.compressedOffset = pos /\ c.compressedSize = z
      /\ c.uncompressedSize = end - nextChunkStart /\ c.frameOffset = 0
    <2>1. pos \in Nat /\ z \in Nat /\ end - nextChunkStart \in Nat
        BY <1>1, FrameAssumption DEF TypeInv, TypeOK
    <2> QED
        BY <2>1 DEF StreamChunk, Chunk, ChunkRecords
<1> HIDE DEF c, x
<1>4. /\ w \in MemberRecords /\ w.chunks = Append(m.chunks, c)
      /\ w.entryEnd = m.entryEnd
    BY <1>3, WithChunkType DEF WithChunk, MemberRecords
<1>5. members' = [members EXCEPT ![n] = w]
    BY DEF c
<1> HIDE DEF w
<1>6. /\ ChainedIn(frames', Append(m.chunks, c), Before(members, n))
      /\ EndIn(frames', Append(m.chunks, c), Before(members, n)) = end
    <2>1. /\ x.start + c.frameOffset = EndIn(frames, m.chunks, Before(members, n))
          /\ x.start + c.frameOffset + c.uncompressedSize = end
        BY <1>1, <1>2, <1>3
    <2>2. x.start + c.frameOffset + c.uncompressedSize <= x.end
        BY <1>2, <2>1
    <2>3. /\ ChainedIn(Append(frames, x), Append(m.chunks, c), Before(members, n))
          /\ EndIn(Append(frames, x), Append(m.chunks, c), Before(members, n))
                = x.start + c.frameOffset + c.uncompressedSize
        <3>1. c.compressedOffset = x.at /\ c.compressedSize = x.size
            BY <1>2, <1>3
        <3> QED
            BY <1>1, <1>2, <1>3, <2>1, <2>2, <3>1, ChainGrows
    <2> QED
        BY <1>2, <2>1, <2>3
<1>7. /\ members' \in Seq(MemberRecords) /\ Len(members') = n
      /\ members'[n] = w
      /\ \A i \in 1 .. Len(reported) : members'[i] = members[i]
    BY <1>1, <1>4, <1>5
<1>8. /\ TocSound(frames', members', Len(reported), <<>>, nextChunkStart')
      /\ \A i \in 1 .. n + 1 : Before(members', i) = Before(members, i)
    <2>1. /\ ChainedIn(frames', members'[n].chunks, Before(members, n))
          /\ members'[n].entryEnd = members[n].entryEnd
        BY <1>4, <1>6, <1>7
    <2>2. members \in Seq(MemberRecords) /\ Len(reported) \in Nat
        BY <1>1
    <2>3. members' \in Seq(MemberRecords)
        BY <1>7
    <2>4. Len(members') = Len(members)
        BY <1>7
    <2>5. Len(reported) + 1 = Len(members)
        BY <1>1
    <2>6. TocSound(frames, members, Len(reported), <<>>, nextChunkStart)
        BY <1>1
    <2>7. \A i \in 1 .. Len(reported) : members'[i] = members[i]
        BY <1>7
    <2>8. Stays(frames, frames')
        BY <1>2
    <2>9. TocSound(frames', members', Len(reported), <<>>, nextChunkStart')
        BY <2>1, <2>2, <2>3, <2>4, <2>5, <2>6, <2>7, <2>8, LastReplaced
    <2>10. \A i \in 1 .. n + 1 : Before(members', i) = Before(members, i)
        <3>1. ASSUME NEW i \in 1 .. n + 1, i # 1
              PROVE  members'[i - 1].entryEnd = members[i - 1].entryEnd
            BY <1>1, <2>1, <2>7
        <3> QED
            BY <3>1 DEF Before
    <2> QED
        BY <2>9, <2>10
<1>9. EndIn(frames', members'[n].chunks, Before(members', n)) = end
    <2>1. n \in 1 .. n + 1
        BY <1>1
    <2>2. Before(members', n) = Before(members, n)
        BY <1>8, <2>1
    <2> QED
        BY <1>4, <1>6, <1>7, <2>2
<1>10. w.chunks # <<>>
    BY <1>1, <1>3, <1>4
<1>11. w = WithChunk(m, StreamChunk(end, z))
    BY DEF w, c
<1> QED
    BY <1>2, <1>7, <1>8, <1>9, <1>10, <1>11
(* A full chunk is the next link of the member's chain. *)
LEMMA MemberPushFullChunk ==
    TypeInv /\ OutputInv /\ MemberInv /\ PushFullChunk => MemberInv'
<1> SUFFICES ASSUME TypeInv, OutputInv, MemberInv, PushFullChunk PROVE MemberInv'
    OBVIOUS
<1> DEFINE n == Len(members)
           m == members[n]
           end == nextChunkStart + ChunkSize
<1>1. PICK z \in FrameSizes :
        /\ PushFrame(end, z)
        /\ members' = [members EXCEPT ![n] = WithChunk(@, StreamChunk(end, z))]
    BY DEF PushFullChunk
<1>2. /\ pc = "stream" /\ pc' = "stream" /\ FullChunk
      /\ UNCHANGED <<winEnd, prevEnd, group, reported, dataLeft, content>>
    BY DEF PushFullChunk, groupVars, streamVars
<1>3. /\ n \in Nat /\ n > 0 /\ members \in Seq(MemberRecords)
      /\ m \in MemberRecords /\ m.entryEnd = prevEnd
      /\ group = <<>> /\ Len(reported) + 1 = n
      /\ nextChunkStart \in Nat /\ winEnd \in Nat /\ winBase = nextChunkStart
    BY <1>2, StreamFacts
<1>4. end \in Nat /\ nextChunkStart < end
    BY <1>3, ChunkSizeAssumption
<1>5. members' = [members EXCEPT ![n] = WithChunk(m, StreamChunk(end, z))]
    BY <1>1, <1>3
<1>6. /\ Len(members') = n
      /\ members'[n] = WithChunk(m, StreamChunk(end, z))
      /\ TocSound(frames', members', Len(reported), <<>>, nextChunkStart')
      /\ EndIn(frames', members'[n].chunks, Before(members', n)) = end
      /\ \A i \in 1 .. n + 1 : Before(members', i) = Before(members, i)
      /\ InOrder(frames') /\ nextChunkStart' = end /\ winBase' = end
    <2> HIDE DEF end
    <2> QED
        BY <1>1, <1>2, <1>3, <1>4, <1>5, LastExtended
<1>7. ReportsInOrder'
    BY <1>2, <1>3, <1>6 DEF MemberInv, ReportsInOrder
<1>8. prevEnd' = Before(members', Len(members') + 1)
    <2>1. n + 1 \in 1 .. n + 1
        BY <1>3
    <2> QED
        BY <1>2, <1>6, <2>1 DEF MemberInv
<1>9. /\ members'[n].entryEnd = m.entryEnd /\ members'[n].size = m.size
      /\ members'[n].dataStart = m.dataStart
    BY <1>3, <1>6 DEF WithChunk, MemberRecords
<1>10. StreamInv'
    <2>1. /\ m.entryEnd = m.dataStart + Padded(m.size)
          /\ dataLeft <= m.size
          /\ content = m.dataStart .. m.dataStart + m.size - dataLeft - 1
          /\ dataLeft > 0 => winEnd = m.dataStart + m.size - dataLeft
          /\ dataLeft = 0 => m.dataStart + m.size <= winEnd
          /\ content # {} => winEnd - winBase < ChunkSize + Scratch
        BY <1>2 DEF MemberInv, StreamInv
    <2>2. content' # {} => winEnd' - winBase' < ChunkSize + Scratch
        <3>1. winEnd - end <= winEnd - winBase
            BY <1>3, <1>4
        <3>2. winEnd' - winBase' = winEnd - end
            BY <1>2, <1>6
        <3>3. winEnd - end \in Int /\ winEnd - winBase \in Int
              /\ ChunkSize + Scratch \in Int
            BY <1>3, <1>4, ChunkSizeAssumption, ScratchAssumption
        <3> HIDE DEF end
        <3> QED
            BY <1>2, <2>1, <3>1, <3>2, <3>3
    <2> HIDE DEF m, n, end
    <2>3. LET w == members'[Len(members')] IN
          /\ EndIn(frames', w.chunks, Before(members', Len(members')))
                = nextChunkStart'
          /\ w.entryEnd = m.entryEnd /\ w.size = m.size
          /\ w.dataStart = m.dataStart
        BY <1>6, <1>9
    <2> QED
        BY <1>2, <2>1, <2>2, <2>3 DEF StreamInv
<1>11. EndInv'
    BY <1>2 DEF EndInv
<1> QED
    BY <1>2, <1>3, <1>6, <1>7, <1>8, <1>10, <1>11 DEF MemberInv

(* The rest of the region closes the chain, and the digest is that of the
   content: the member can be reported. *)
LEMMA MemberFinishLarge ==
    TypeInv /\ OutputInv /\ MemberInv /\ FinishLarge => MemberInv'
<1> SUFFICES ASSUME TypeInv, OutputInv, MemberInv, FinishLarge PROVE MemberInv'
    OBVIOUS
<1> DEFINE n == Len(members)
           digest == IF Hashed THEN content ELSE NoDigest
           m == [members[n] EXCEPT !.digest = digest]
<1>1. /\ pc = "stream" /\ pc' = "parse" /\ dataLeft = 0 /\ winEnd >= prevEnd
      /\ PushRemainder(m) /\ reported' = Append(reported, n)
      /\ UNCHANGED <<winEnd, prevEnd, group>>
    BY DEF FinishLarge, groupVars
<1>2. /\ n \in Nat /\ n > 0 /\ members \in Seq(MemberRecords)
      /\ members[n] \in MemberRecords /\ members[n].entryEnd = prevEnd
      /\ members[n].chunks \in Seq(ChunkRecords)
      /\ members[n].dataStart \in Nat /\ members[n].size \in Nat
      /\ group = <<>> /\ Len(reported) \in Nat /\ Len(reported) + 1 = n
      /\ TocSound(frames, members, Len(reported), <<>>, nextChunkStart)
      /\ Before(members, n) \in Nat /\ Before(members, n) < prevEnd
      /\ ChainedIn(frames, members[n].chunks, Before(members, n))
      /\ EndIn(frames, members[n].chunks, Before(members, n)) = nextChunkStart
      /\ nextChunkStart \in Nat /\ prevEnd \in Nat
    BY <1>1, StreamFacts
<1>3. digest \in SUBSET Int
    BY DEF TypeInv, TypeOK, NoDigest
<1>4. digest = Expected(members[n])
    <2>1. content = members[n].dataStart
                      .. members[n].dataStart + members[n].size - 0 - 1
        BY <1>1 DEF MemberInv, StreamInv
    <2>2. content = members[n].dataStart
                      .. members[n].dataStart + members[n].size - 1
        BY <1>2, <2>1
    <2> QED
        BY <2>2 DEF Expected, Hashed
<1> HIDE DEF digest
<1>5. /\ m \in MemberRecords /\ m.chunks = members[n].chunks
      /\ m.entryEnd = members[n].entryEnd /\ m.kind = members[n].kind
      /\ m.dataStart = members[n].dataStart /\ m.size = members[n].size
      /\ m.digest = digest
    BY <1>2, <1>3 DEF MemberRecords
<1> HIDE DEF m
<1>6. /\ Len(members') = n /\ InOrder(frames') /\ nextChunkStart' = prevEnd
      /\ TocSound(frames', members', Len(reported), <<>>, nextChunkStart')
      /\ members'[n].chunks # <<>>
      /\ EndIn(frames', members'[n].chunks, Before(members', n)) = prevEnd
      /\ members'[n].entryEnd = prevEnd
      /\ members'[n].digest = Expected(members'[n])
      /\ \A i \in 1 .. n + 1 : Before(members', i) = Before(members, i)
    <2>1. CASE /\ nextChunkStart = prevEnd
               /\ members' = [members EXCEPT ![n] = m]
               /\ UNCHANGED <<pos, frames, winBase, nextChunkStart>>
        <3>1. /\ members' \in Seq(MemberRecords) /\ Len(members') = n
              /\ members'[n] = m
              /\ \A i \in 1 .. Len(reported) : members'[i] = members[i]
            BY <1>2, <1>5, <2>1
        <3>2. Stays(frames, frames')
            BY <2>1 DEF Stays
        <3>3. /\ ChainedIn(frames', members'[n].chunks, Before(members, n))
              /\ members'[n].entryEnd = members[n].entryEnd
            BY <1>2, <1>5, <2>1, <3>1
        <3>4. TocSound(frames', members', Len(reported), <<>>, nextChunkStart')
            <4>1. members \in Seq(MemberRecords) /\ Len(reported) \in Nat
                BY <1>2
            <4>2. Len(members') = Len(members) /\ Len(reported) + 1 = Len(members)
                BY <1>2, <3>1
            <4>3. TocSound(frames, members, Len(reported), <<>>, nextChunkStart)
                BY <1>2
            <4>4. /\ members' \in Seq(MemberRecords)
                  /\ \A i \in 1 .. Len(reported) : members'[i] = members[i]
                BY <3>1
            <4> QED
                BY <3>2, <3>3, <4>1, <4>2, <4>3, <4>4, LastReplaced, ZenonT(30)
        <3>5. ASSUME NEW i \in 1 .. n + 1
              PROVE  Before(members', i) = Before(members, i)
            <4>1. i # 1 => i - 1 \in 1 .. Len(reported) \/ i - 1 = n
                BY <1>2
            <4>2. i # 1 => members'[i - 1].entryEnd = members[i - 1].entryEnd
                BY <3>1, <3>3, <4>1
            <4> QED
                BY <4>2 DEF Before
        <3>6. members[n].chunks # <<>>
            BY <1>2, <2>1 DEF EndIn
        <3>7. EndIn(frames', members'[n].chunks, Before(members', n)) = prevEnd
            <4>1. n \in 1 .. n + 1
                BY <1>2
            <4> QED
                BY <1>2, <1>5, <2>1, <3>1, <3>5, <4>1
        <3>8. members'[n].digest = Expected(members'[n])
            BY <1>4, <1>5, <3>1 DEF Expected
        <3>9. InOrder(frames')
            BY <2>1 DEF MemberInv
        <3> QED
            BY <1>2, <1>5, <2>1, <3>1, <3>3, <3>4, <3>5, <3>6, <3>7, <3>8, <3>9
    <2>2. CASE \E z \in FrameSizes :
                  /\ nextChunkStart < prevEnd
                  /\ PushFrame(prevEnd, z)
                  /\ members' = [members EXCEPT ![n] =
                                   WithChunk(m, StreamChunk(prevEnd, z))]
        <3>1. PICK z \in FrameSizes :
                /\ nextChunkStart < prevEnd
                /\ PushFrame(prevEnd, z)
                /\ members' = [members EXCEPT ![n] =
                                 WithChunk(m, StreamChunk(prevEnd, z))]
            BY <2>2
        <3>2. /\ Len(members') = n
              /\ members'[n] = WithChunk(m, StreamChunk(prevEnd, z))
              /\ members'[n].chunks # <<>>
              /\ TocSound(frames', members', Len(reported), <<>>, nextChunkStart')
              /\ EndIn(frames', members'[n].chunks, Before(members', n)) = prevEnd
              /\ \A i \in 1 .. n + 1 : Before(members', i) = Before(members, i)
              /\ InOrder(frames') /\ nextChunkStart' = prevEnd
            BY <1>1, <1>2, <1>5, <3>1, LastExtended
        <3>3. /\ members'[n].entryEnd = m.entryEnd
              /\ members'[n].digest = m.digest /\ members'[n].kind = m.kind
              /\ members'[n].dataStart = m.dataStart /\ members'[n].size = m.size
            BY <1>5, <3>2 DEF WithChunk, MemberRecords
        <3>4. members'[n].digest = Expected(members'[n])
            BY <1>4, <1>5, <3>3 DEF Expected
        <3> QED
            BY <1>2, <1>5, <3>2, <3>3, <3>4
    <2> QED
        BY <1>1, <2>1, <2>2 DEF PushRemainder
<1>7. TocSound(frames', members', Len(reported) + 1, <<>>, nextChunkStart')
    <2>1. /\ members'[Len(members')].chunks # <<>>
          /\ EndIn(frames', members'[Len(members')].chunks,
                   Before(members', Len(members')))
                = members'[Len(members')].entryEnd
          /\ members'[Len(members')].digest = Expected(members'[Len(members')])
          /\ Len(reported) + 1 = Len(members')
        BY <1>2, <1>6
    <2>2. members' \in Seq(MemberRecords)
        <3>1. TypeInv'
            BY TypeNext DEF Next, Progress
        <3> QED
            BY <3>1 DEF TypeInv, TypeOK
    <2> QED
        BY <1>2, <1>6, <2>1, <2>2, LastReported
<1>8. /\ Len(reported') = Len(reported) + 1
      /\ \A r \in DOMAIN reported' : reported'[r] = r
    <2>1. reported \in Seq(Nat) /\ \A r \in DOMAIN reported : reported[r] = r
        BY DEF TypeInv, TypeOK, MemberInv, ReportsInOrder
    <2>2. /\ Len(reported') = Len(reported) + 1
          /\ DOMAIN reported' = 1 .. Len(reported) + 1
          /\ \A r \in 1 .. Len(reported) : reported'[r] = reported[r]
          /\ reported'[Len(reported) + 1] = n
          /\ DOMAIN reported = 1 .. Len(reported)
        BY <1>1, <1>2, <2>1
    <2>3. \A r \in 1 .. Len(reported) + 1 :
             r \in 1 .. Len(reported) \/ r = Len(reported) + 1
        BY <1>2
    <2> QED
        BY <1>2, <2>1, <2>2, <2>3
<1>9. ReportsInOrder'
    <2>1. Len(members') = Len(reported') + Len(group') /\ DOMAIN group' = {}
        BY <1>1, <1>2, <1>6, <1>8
    <2> QED
        BY <1>1, <1>8, <2>1 DEF ReportsInOrder
<1>10. prevEnd' = Before(members', Len(members') + 1)
    <2>1. n + 1 \in 1 .. n + 1
        BY <1>2
    <2> QED
        BY <1>1, <1>6, <2>1 DEF MemberInv
<1>11. StreamInv' /\ EndInv'
    BY <1>1 DEF StreamInv, EndInv
<1> QED
    BY <1>1, <1>2, <1>6, <1>7, <1>8, <1>9, <1>10, <1>11 DEF MemberInv

(* The trailing frame belongs to no member. *)
LEMMA MemberWriteTrailer ==
    TypeInv /\ OutputInv /\ MemberInv /\ WriteTrailer => MemberInv'
<1> SUFFICES ASSUME TypeInv, OutputInv, MemberInv, WriteTrailer PROVE MemberInv'
    OBVIOUS
<1>1. PICK z \in FrameSizes : CompressFrame(nextChunkStart, winEnd, z)
    BY DEF WriteTrailer
<1>2. /\ pc = "trailer" /\ pc' = "toc"
      /\ UNCHANGED <<prevEnd, members, group, nextChunkStart, reported, inputLen,
                     parseStart, markerZero>>
    BY DEF WriteTrailer, groupVars, TypeInv, TypeOK, Layout
<1> DEFINE x == NewFrame(nextChunkStart, winEnd, z)
<1>3. /\ frames \in Seq(FrameRecords) /\ nextChunkStart \in Nat /\ winEnd \in Nat
      /\ members \in Seq(MemberRecords) /\ group \in Seq(GroupRecords)
      /\ Len(reported) \in Nat /\ InOrder(frames)
    BY DEF TypeInv, TypeOK, MemberInv
<1>4. frames' = Append(frames, x)
    BY <1>1 DEF CompressFrame, NewFrame
<1>5. x \in FrameRecords /\ InOrder(Append(frames, x))
    BY <1>3, FrameInOrder
<1> HIDE DEF x
<1>6. TocSound(frames, members, Len(reported), group, nextChunkStart)
    BY DEF MemberInv
<1>7. TocSound(frames', members', Len(reported'), group', nextChunkStart')
    <2>1. TocSound(Append(frames, x), members, Len(reported), group,
                   nextChunkStart)
        BY <1>3, <1>5, <1>6, TocStays
    <2> QED
        BY <1>2, <1>4, <2>1
<1>8. InOrder(frames') /\ prevEnd' = Before(members', Len(members') + 1)
    BY <1>2, <1>4, <1>5 DEF MemberInv
<1>9. ReportsInOrder'
    BY <1>2 DEF MemberInv, ReportsInOrder
<1>10. StreamInv' /\ EndInv'
    BY <1>2 DEF MemberInv, StreamInv, EndInv
<1> QED
    BY <1>7, <1>8, <1>9, <1>10 DEF MemberInv
-----------------------------------------------------------------------------
(* All steps together. *)

(* MemberInv is inductive, relative to the typing and output invariants. *)
LEMMA MemberNext ==
    TypeInv /\ OutputInv /\ MemberInv /\ [Next]_vars => MemberInv'
<1> SUFFICES ASSUME TypeInv, OutputInv, MemberInv, [Next]_vars
             PROVE  MemberInv'
    OBVIOUS
<1>1. CASE ParseGlobal
    <2>1. /\ pc = "parse" /\ pc' = "parse"
          /\ UNCHANGED <<prevEnd, members, group, frames, nextChunkStart, reported>>
        BY <1>1 DEF ParseGlobal, groupVars, outVars
    <2> QED
        BY <2>1, MemberUntouched DEF StreamInv, EndInv
<1>2. CASE ParseEnd
    <2>1. /\ pc = "parse" /\ pc' = "drain"
          /\ UNCHANGED <<prevEnd, members, group, frames, nextChunkStart, reported>>
        BY <1>2 DEF ParseEnd, groupVars, outVars
    <2> QED
        BY <2>1, MemberUntouched DEF StreamInv, EndInv
<1>3. CASE DrainTrailing
    <2>1. /\ pc = "drain" /\ pc' = "drain"
          /\ UNCHANGED <<prevEnd, members, group, frames, nextChunkStart, reported>>
        BY <1>3 DEF DrainTrailing, groupVars, outVars
    <2> QED
        BY <2>1, MemberUntouched DEF StreamInv, EndInv
<1>4. CASE WriteToc
    <2>1. /\ pc = "toc" /\ pc' = "done"
          /\ UNCHANGED <<prevEnd, members, group, frames, nextChunkStart, reported,
                         pos, parseStart, inputLen, markerZero>>
        BY <1>4 DEF WriteToc, inVars, groupVars, outVars
    <2>2. footer'.tocOffset = pos'
        BY <1>4, <2>1 DEF WriteToc
    <2>3. EndInv'
        BY <2>1, <2>2 DEF MemberInv, EndInv
    <2> QED
        BY <2>1, <2>3, MemberUntouched DEF StreamInv
<1>5. CASE EntryRefused \/ StreamEnds \/ MarkerMissing \/ TocTooLarge \/ IoFails
    <2>1. /\ pc' = "failed"
          /\ UNCHANGED <<prevEnd, members, group, frames, nextChunkStart, reported>>
        BY <1>5 DEF EntryRefused, StreamEnds, MarkerMissing, TocTooLarge, IoFails,
                    GiveUp, groupVars, outVars
    <2> QED
        BY <2>1, MemberUntouched DEF StreamInv, EndInv
<1>6. CASE Stopped \/ UNCHANGED vars
    <2>1. UNCHANGED vars
        BY <1>6 DEF Stopped
    <2>2. StreamInv' /\ EndInv'
        BY <2>1 DEF vars, MemberInv, StreamInv, EndInv
    <2> QED
        BY <2>1, <2>2, MemberUntouched DEF vars
<1> QED
    BY <1>1, <1>2, <1>3, <1>4, <1>5, <1>6, MemberJoinGroup, MemberJoinAndFlush,
       MemberFlushThenJoin, MemberBeginLarge, MemberPushFullChunk, MemberReadData,
       MemberCapturePadding, MemberFinishLarge, MemberFlushLast,
       MemberWriteTrailer DEF Next, Progress

TocInv == TypeInv /\ OutputInv /\ FooterInv /\ MemberInv

(* The inductive invariant of the writer. *)
THEOREM TocInvariant == Spec => []TocInv
<1>1. Init => TocInv
    BY WriterInit, MemberInit DEF TocInv, WriterInv
<1>2. TocInv /\ [Next]_vars => TocInv'
    BY TypeNext, OutputNext, FooterNext, MemberNext DEF TocInv
<1> QED
    BY <1>1, <1>2, PTL DEF Spec

(* on_member is called for every member once, in tar order. *)
THEOREM ReportsTheorem == Spec => []ReportsInOrder
<1>1. TocInv => ReportsInOrder
    BY DEF TocInv, MemberInv
<1> QED
    BY <1>1, TocInvariant, PTL

(* The digest of a reported file is that of its content. *)
THEOREM DigestTheorem == Spec => []DigestsCoverContent
<1>1. TocInv => DigestsCoverContent
    <2> SUFFICES ASSUME TocInv, NEW r \in DOMAIN reported
                 PROVE  members[reported[r]].digest = Expected(members[reported[r]])
        BY DEF DigestsCoverContent, Expected
    <2>1. reported[r] = r
        BY DEF TocInv, MemberInv, ReportsInOrder
    <2>2. r \in 1 .. Len(reported) + Len(group)
        <3>1. Len(group) \in Nat /\ Len(reported) \in Nat
              /\ DOMAIN reported = 1 .. Len(reported)
            BY DEF TocInv, TypeInv, TypeOK
        <3> QED
            BY <3>1
    <2> QED
        BY <2>1, <2>2 DEF TocInv, MemberInv, TocSound, Digested
<1> QED
    BY <1>1, TocInvariant, PTL

(* Every chunk of the TOC leads to the bytes it stands for, and the chunks of a
   reported member make up its region. *)
THEOREM ChunksTheorem == Spec => []ChunksTileRegions
<1>1. TocInv => ChunksTileRegions
    <2> SUFFICES ASSUME TocInv, NEW i \in DOMAIN members
                 PROVE  LET cs == members[i].chunks IN
                        /\ \A k \in DOMAIN cs :
                              /\ \E f \in DOMAIN frames : Leads(frames, cs[k], f)
                              /\ RawStart(cs[k]) =
                                    IF k = 1 THEN RegionStart(i)
                                    ELSE RawStart(cs[k - 1])
                                           + cs[k - 1].uncompressedSize
                        /\ (\E r \in DOMAIN reported : reported[r] = i) =>
                              /\ cs # <<>>
                              /\ RawStart(cs[Len(cs)])
                                   + cs[Len(cs)].uncompressedSize
                                    = members[i].entryEnd
        BY DEF ChunksTileRegions, Leads
    <2> DEFINE cs == members[i].chunks
    <2>1. \A c : RawStart(c) = StartIn(frames, c)
        BY DEF RawStart, FrameOf, StartIn, FrameIn
    <2>2. RegionStart(i) = Before(members, i)
        BY DEF RegionStart, Before
    <2>3. ChainedIn(frames, cs, Before(members, i))
        BY DEF TocInv, MemberInv, TocSound, Chained
    <2>4. ASSUME NEW r \in DOMAIN reported, reported[r] = i
          PROVE  /\ cs # <<>>
                 /\ EndIn(frames, cs, Before(members, i)) = members[i].entryEnd
        <3>1. r = i /\ i \in 1 .. Len(reported)
            BY <2>4 DEF TocInv, MemberInv, ReportsInOrder, TypeInv, TypeOK
        <3> QED
            BY <3>1 DEF TocInv, MemberInv, TocSound, Covered
    <2> HIDE DEF cs
    <2>5. \A k \in DOMAIN cs :
             /\ \E f \in DOMAIN frames : Leads(frames, cs[k], f)
             /\ RawStart(cs[k]) =
                   IF k = 1 THEN RegionStart(i)
                   ELSE RawStart(cs[k - 1]) + cs[k - 1].uncompressedSize
        BY <2>1, <2>2, <2>3 DEF ChainedIn
    <2>6. (\E r \in DOMAIN reported : reported[r] = i) =>
             /\ cs # <<>>
             /\ RawStart(cs[Len(cs)]) + cs[Len(cs)].uncompressedSize
                   = members[i].entryEnd
        BY <2>1, <2>4 DEF EndIn
    <2> QED
        BY <2>5, <2>6 DEF cs
<1> QED
    BY <1>1, TocInvariant, PTL

(* The window stays below one chunk and one read while a large member is read. *)
THEOREM StreamingTheorem == Spec => []StreamingWindowBounded
<1>1. TocInv => StreamingWindowBounded
    BY DEF TocInv, MemberInv, StreamInv, StreamingWindowBounded
<1> QED
    BY <1>1, TocInvariant, PTL

(* The footer is only ever written over a complete archive. *)
THEOREM FooterTheorem == Spec => []FooterMeansComplete
<1>1. TocInv => FooterMeansComplete
    <2> SUFFICES ASSUME TocInv, footer # NoFooter
                 PROVE  /\ RawEnd = inputLen
                        /\ parseStart + 2 * Block <= inputLen /\ markerZero
                        /\ Len(reported) = Len(members)
                        /\ footer.tocOffset = PhysicalEnd
        BY DEF FooterMeansComplete
    <2>1. pc = "done"
        BY DEF TocInv, FooterInv
    <2>2. RawEnd = inputLen /\ pos = PhysicalEnd
        BY <2>1 DEF TocInv, OutputInv, FramesTileTar, PosIsOutputLength
    <2>3. /\ parseStart + 2 * Block <= inputLen /\ markerZero
          /\ footer.tocOffset = pos
        BY <2>1 DEF TocInv, MemberInv, EndInv
    <2>4. Len(reported) = Len(members)
        <3>1. group = <<>> /\ Len(reported) \in Nat
            BY <2>1 DEF TocInv, TypeInv, TypeOK, Layout
        <3>2. Len(members) = Len(reported) + Len(group)
            BY <2>1 DEF TocInv, MemberInv, ReportsInOrder
        <3> QED
            BY <3>1, <3>2
    <2> QED
        BY <2>2, <2>3, <2>4
<1> QED
    BY <1>1, TocInvariant, PTL
-----------------------------------------------------------------------------
(* A reported member is final. *)

(* A flush leaves the entries of other members alone. *)
LEMMA FlushKeeps ==
    ASSUME NEW ms, NEW g, NEW size, Flush(ms, g, size), NEW i \in DOMAIN ms,
           \A k \in DOMAIN g : g[k].idx # i
    PROVE  members'[i] = ms[i]
BY DEF Flush, WithGroupChunks

(* So does flush_group, whether or not there is a group. *)
LEMMA FlushGroupKeeps ==
    ASSUME NEW ms, FlushGroup(ms), NEW i \in DOMAIN ms,
           \A k \in DOMAIN group : group[k].idx # i
    PROVE  members'[i] = ms[i]
BY FlushKeeps DEF FlushGroup

(* No step changes the entry of a reported member. *)
LEMMA ReportedKept ==
    ASSUME TypeInv, MemberInv, [Next]_vars, NEW i \in 1 .. Len(reported)
    PROVE  members'[i] = members[i]
<1>1. /\ members \in Seq(MemberRecords) /\ Len(reported) \in Nat
      /\ Len(members) \in Nat /\ group \in Seq(GroupRecords)
      /\ DOMAIN members = 1 .. Len(members)
      /\ Len(reported) + Len(group) <= Len(members)
    BY DEF TypeInv, TypeOK, MemberInv, TocSound
<1>2. /\ i \in Nat /\ i <= Len(reported)
      /\ i \in 1 .. Len(members) /\ i # Len(members) + 1
    <2>1. Len(reported) \in Nat /\ Len(members) \in Nat
          /\ Len(group) \in Nat /\ Len(reported) + Len(group) <= Len(members)
        BY <1>1
    <2> QED
        BY <2>1
<1>3. ASSUME NEW k \in DOMAIN group PROVE group[k].idx # i
    <2>1. group[k].idx = Len(reported) + k
        BY DEF MemberInv, ReportsInOrder
    <2>2. k \in Nat /\ k > 0 /\ Len(reported) \in Nat
        BY <1>1
    <2> QED
        BY <1>2, <2>1, <2>2
<1>4. ASSUME NEW h, NEW digest
      PROVE  /\ i \in DOMAIN WithMember(h, digest)
             /\ WithMember(h, digest)[i] = members[i]
    BY <1>1, <1>2 DEF WithMember
<1>5. CASE JoinGroup
    BY <1>4, <1>5 DEF JoinGroup
<1>6. CASE JoinAndFlush
    <2>1. PICK h \in Headers :
            Flush(WithMember(h, GroupDigest(h)),
                  Append(group, GroupEntry(h, groupSize)),
                  groupSize + RegionSize(h))
        BY <1>6 DEF JoinAndFlush
    <2> DEFINE g == Append(group, GroupEntry(h, groupSize))
    <2>2. GroupEntry(h, groupSize).idx # i
        BY <1>2 DEF GroupEntry
    <2>3. \A k \in DOMAIN g : g[k].idx # i
        BY <1>1, <1>3, <2>2
    <2>4. Flush(WithMember(h, GroupDigest(h)), g, groupSize + RegionSize(h))
        BY <2>1
    <2> HIDE DEF g
    <2>5. /\ i \in DOMAIN WithMember(h, GroupDigest(h))
          /\ WithMember(h, GroupDigest(h))[i] = members[i]
        BY <1>4
    <2> QED
        BY <2>3, <2>4, <2>5, FlushKeeps
<1>7. CASE FlushThenJoin
    BY <1>3, <1>4, <1>7, FlushKeeps DEF FlushThenJoin
<1>8. CASE BeginLarge
    BY <1>3, <1>4, <1>8, FlushGroupKeeps DEF BeginLarge
<1>9. CASE FlushLast
    BY <1>1, <1>2, <1>3, <1>9, FlushGroupKeeps DEF FlushLast
<1>10. CASE PushFullChunk \/ FinishLarge
    <2>1. Len(reported) + 1 = Len(members)
        BY <1>10 DEF PushFullChunk, FinishLarge, MemberInv, ReportsInOrder
    <2>2. PICK m : members' = [members EXCEPT ![Len(members)] = m]
        BY <1>10, <1>1, <2>1 DEF PushFullChunk, FinishLarge, PushRemainder
    <2>3. i # Len(members)
        BY <1>2, <2>1
    <2> QED
        BY <1>1, <1>2, <2>2, <2>3
<1>11. CASE UNCHANGED members
    BY <1>11
<1> QED
    BY <1>5, <1>6, <1>7, <1>8, <1>9, <1>10, <1>11
    DEF Next, Progress, ParseGlobal, ReadData, CapturePadding, ParseEnd,
        DrainTrailing, WriteTrailer, WriteToc, EntryRefused, StreamEnds,
        MarkerMissing, TocTooLarge, IoFails, GiveUp, Stopped, vars

(* The entry handed to on_member never changes afterwards. *)
THEOREM ReportedTheorem == Spec => ReportedIsFinal
<1>1. TocInv /\ [Next]_vars =>
        [\A r \in DOMAIN reported : members'[reported[r]] = members[reported[r]]]_vars
    <2> SUFFICES ASSUME TocInv, [Next]_vars, NEW r \in DOMAIN reported
                 PROVE  members'[reported[r]] = members[reported[r]]
        OBVIOUS
    <2>1. reported[r] = r /\ r \in 1 .. Len(reported)
        BY DEF TocInv, MemberInv, ReportsInOrder, TypeInv, TypeOK
    <2> QED
        BY <2>1, ReportedKept DEF TocInv
<1> QED
    BY <1>1, TocInvariant, PTL DEF Spec, ReportedIsFinal
=============================================================================
