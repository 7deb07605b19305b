---------------------------- MODULE ExtractProofs ----------------------------
(***************************************************************************)
(* Theorems about Extract, for any archive and any file system.  The       *)
(* variables keep their types, whatever the file system does with links    *)
(* and permissions, and the report accounts for every selected member.     *)
(* The others have conditions on the archive and on what was there before, *)
(* each stated where it is needed: names that collide, attributes that are *)
(* lost, content that stays, attributes that are restored, and what is     *)
(* left where a member was declined.                                       *)
(***************************************************************************)
EXTENDS Extract, TLAPS, FiniteSetTheorems

(* The members whose timestamp is put off have been counted. *)
DirsWritten == \A i \in DOMAIN dirTimes : dirTimes[i].member \in written

ExtractInv == ExtractTypeOK /\ DirsWritten

(* Declined, or put off to the second pass. *)
Told(j) == \E d \in declined : d.member = j
Waits(j) == \E i \in DOMAIN hardLinks : hardLinks[i].member = j

(* Every selected member the first loop has passed is written, declined or
   waits, and only one of these; the others have not been touched. *)
AccountInv ==
    /\ \A j \in DOMAIN members :
          /\ Selected(j) /\ j < next => j \in written \/ Told(j) \/ Waits(j)
          /\ j >= next => j \notin written /\ ~Told(j) /\ ~Waits(j)
          /\ j \in written => ~Told(j) /\ ~Waits(j)
          /\ Told(j) => ~Waits(j)
    /\ \A c, d \in declined : c.member = d.member => c = d
    /\ \A i, k \in DOMAIN hardLinks : hardLinks[i].member = hardLinks[k].member => i = k
    /\ phase \notin {"members", "error"} => next = Len(members) + 1
    /\ phase \in {"times", "ok", "strict"} => hardLinks = <<>>
-----------------------------------------------------------------------------
(* The file system keeps its type. *)

(* One node is changed, or none when v is no inode. *)
LEMMA NodeChanged ==
    ASSUME NEW f \in FileSystems, NEW v, NEW n, f.node[v] \in Nodes => n \in Nodes
    PROVE  [f EXCEPT !.node[v] = n] \in FileSystems
<1>1. f.dir \in [Entries -> Inodes \cup {Absent}] /\ f.node \in [Inodes -> Nodes]
    BY DEF FileSystems
<1>2. [f EXCEPT !.node[v] = n] = [dir |-> f.dir, node |-> [f.node EXCEPT ![v] = n]]
    BY DEF FileSystems
<1>3. [f.node EXCEPT ![v] = n] \in [Inodes -> Nodes]
    BY <1>1
<1> QED
    BY <1>1, <1>2, <1>3 DEF FileSystems

LEMMA EntryChanged ==
    ASSUME NEW f \in FileSystems, NEW e, NEW i \in Inodes \cup {Absent}
    PROVE  [f EXCEPT !.dir[e] = i] \in FileSystems
<1>1. f.dir \in [Entries -> Inodes \cup {Absent}] /\ f.node \in [Inodes -> Nodes]
    BY DEF FileSystems
<1>2. [f EXCEPT !.dir[e] = i] = [dir |-> [f.dir EXCEPT ![e] = i], node |-> f.node]
    BY DEF FileSystems
<1>3. [f.dir EXCEPT ![e] = i] \in [Entries -> Inodes \cup {Absent}]
    BY <1>1
<1> QED
    BY <1>1, <1>2, <1>3 DEF FileSystems

LEMMA TimeChanged ==
    ASSUME NEW f \in FileSystems, NEW v, NEW t \in Nat
    PROVE  [f EXCEPT !.node[v].mtime = t] \in FileSystems
<1>1. f.node[v] \in Nodes => [f.node[v] EXCEPT !.mtime = t] \in Nodes
    BY DEF Nodes
<1>2. [f EXCEPT !.node[v].mtime = t] = [f EXCEPT !.node[v] = [f.node[v] EXCEPT !.mtime = t]]
    BY DEF FileSystems
<1> QED
    BY <1>1, <1>2, NodeChanged

(* A change of a directory. *)
LEMMA TouchTyped ==
    ASSUME NEW f \in FileSystems, NEW e
    PROVE  Touch(f, e) \in FileSystems
<1>1. Now \in Nat
    BY DEF Now
<1> QED
    BY <1>1, TimeChanged DEF Touch

(* What a new node is. *)
LEMMA NodeTyped ==
    /\ \A c \in Nat : FileNode(c) \in Nodes
    /\ DirNode \in Nodes
    /\ \A e \in Entries \cup {Absent, Skipped, Refused} : LinkNode(e) \in Nodes
BY DEF FileNode, DirNode, LinkNode, Node, Nodes, Garbage, Now, NoXattrs, Modes

LEMMA PutTyped ==
    ASSUME NEW f \in FileSystems, NEW e, NEW i \in Inodes, NEW n \in Nodes
    PROVE  Put(f, e, i, n) \in FileSystems
<1> DEFINE g == [f EXCEPT !.dir[e] = i]
<1>1. g \in FileSystems
    BY EntryChanged
<1>2. [g EXCEPT !.node[i] = n] \in FileSystems
    BY <1>1, NodeChanged
<1>3. [f EXCEPT !.dir[e] = i, !.node[i] = n] = [g EXCEPT !.node[i] = n]
    BY DEF FileSystems
<1> QED
    BY <1>2, <1>3, TouchTyped DEF Put

(* A removed name. *)
LEMMA WithoutTyped ==
    ASSUME NEW f \in FileSystems, NEW e
    PROVE  Without(f, e) \in FileSystems
<1>1. [f EXCEPT !.dir[e] = Absent] \in FileSystems
    BY EntryChanged
<1> QED
    BY <1>1, TouchTyped DEF Without

(* A created or truncated file. *)
LEMMA CreatedTyped ==
    ASSUME NEW f \in FileSystems, NEW e, NEW c \in Nat
    PROVE  Created(f, e, c) \subseteq FileSystems
<1> DEFINE x == Leads(f, e)
           v == f.dir[x]
           n == [[f.node[v] EXCEPT !.content = c] EXCEPT !.mtime = Now]
<1>1. [f EXCEPT !.node[v].content = c, !.node[v].mtime = Now] \in FileSystems
    <2>1. f.node[v] \in Nodes => n \in Nodes
        BY DEF Nodes, Now
    <2>2. [f EXCEPT !.node[v] = n] \in FileSystems
        BY <2>1, NodeChanged
    <2>3. [f EXCEPT !.node[v].content = c, !.node[v].mtime = Now] = [f EXCEPT !.node[v] = n]
        BY DEF FileSystems
    <2> QED
        BY <2>2, <2>3
<1>2. FileNode(c) \in Nodes
    BY NodeTyped
<1>3. \A i \in Numbers(f) : Put(f, x, i, FileNode(c)) \in FileSystems
    <2>1. Numbers(f) \subseteq Inodes
        BY DEF Numbers
    <2> QED
        BY <1>2, <2>1, PutTyped
<1> QED
    BY <1>1, <1>3 DEF Created

(* A parent directory. *)
LEMMA ParentMadeTyped ==
    ASSUME fs \in FileSystems
    PROVE  ParentMade \subseteq FileSystems
<1>1. \A e : \A i \in Numbers(fs) : Put(fs, e, i, DirNode) \in FileSystems
    <2>1. Numbers(fs) \subseteq Inodes /\ DirNode \in Nodes
        BY NodeTyped DEF Numbers
    <2> QED
        BY <2>1, PutTyped
<1> QED
    BY <1>1 DEF ParentMade

(* A node with the attributes of the member at hand. *)
LEMMA AttributedTyped ==
    ASSUME NEW f \in FileSystems, next \in Nat, M.mode \in Modes
    PROVE  Attributed(f) \in FileSystems
<1> DEFINE v == f.dir[Leads(f, Target)]
           done == Tried \ Refusals(f)
           n == [f.node[v] EXCEPT !.xattrs = IF "Xattr" \in done THEN next ELSE @,
                                  !.mode = IF "Mode" \in done THEN M.mode ELSE @,
                                  !.mtime = IF "Mtime" \in done THEN next ELSE @]
<1>1. f.node[v] \in Nodes => n \in Nodes
    BY DEF Nodes
<1>2. [f EXCEPT !.node[v] = n] \in FileSystems
    BY <1>1, NodeChanged
<1>3. Attributed(f) = [f EXCEPT !.node[v] = n]
    BY DEF Attributed
<1> QED
    BY <1>2, <1>3
-----------------------------------------------------------------------------
(* The bookkeeping keeps its types. *)

Phases == {"members", "links", "times", "ok", "strict", "error"}
Losses == {"Xattr", "Mode", "Mtime"}
LinkRecords == [member: DOMAIN members, source: Entries, target: Entries]
TimeRecords == [member: DOMAIN members, entry: Entries]

ReportTyped ==
    /\ written \subseteq DOMAIN members
    /\ declined \subseteq [member: DOMAIN members, kind: LossKinds]
    /\ lost \subseteq [member: written, kind: Losses]

DeferredTyped ==
    /\ hardLinks \in Seq(LinkRecords)
    /\ dirTimes \in Seq(TimeRecords)
    /\ DirsWritten

(* ExtractInv in these parts. *)
LEMMA InvParts ==
    ExtractInv <=> /\ scenario \in Scenarios /\ phase \in Phases
                   /\ next \in 1 .. Len(members) + 1
                   /\ fs \in FileSystems
                   /\ byInode \in [Inodes -> Paths \cup {Skipped}]
                   /\ ReportTyped /\ DeferredTyped
BY DEF ExtractInv, ExtractTypeOK, Phases, Losses, LinkRecords, TimeRecords, ReportTyped,
       DeferredTyped

LEMMA InvPartsNext ==
    ExtractInv' <=> /\ scenario' \in Scenarios /\ phase' \in Phases
                    /\ next' \in 1 .. Len(members') + 1
                    /\ fs' \in FileSystems
                    /\ byInode' \in [Inodes -> Paths \cup {Skipped}]
                    /\ ReportTyped' /\ DeferredTyped'
BY DEF ExtractInv, ExtractTypeOK, Phases, Losses, LinkRecords, TimeRecords, ReportTyped,
       DeferredTyped

(* The member at hand. *)
LEMMA TurnFacts ==
    ASSUME ExtractInv, Turn
    PROVE  /\ next \in DOMAIN members /\ next \in Nat
           /\ next + 1 \in 1 .. Len(members) + 1
           /\ M.path \in Paths /\ M.link \in Paths /\ M.mode \in Modes
           /\ Dest[M.link] \in Entries \cup {Skipped, Refused}
<1>1. members \in Seq(ArchiveMembers) /\ next \in 1 .. Len(members) + 1
    BY ScenariosAssumption DEF members, ExtractInv, ExtractTypeOK
<1>2. next \in DOMAIN members /\ next \in Nat /\ next + 1 \in 1 .. Len(members) + 1
    BY <1>1 DEF Turn
<1>3. M \in ArchiveMembers
    BY <1>1, <1>2 DEF M
<1> QED
    BY <1>2, <1>3, DestAssumption DEF ArchiveMembers

(* A turn of the first loop that tells the caller of the member: it is declined,
   or it is counted as written with some losses. *)
LEMMA TurnReports ==
    ASSUME ExtractInv, Turn,
           \/ \E kind \in LossKinds : Decline(kind)
           \/ \E losses \in SUBSET Losses : Written(losses)
           \/ UNCHANGED reportVars,
           scenario' = scenario
    PROVE  ReportTyped' /\ written \subseteq written'
<1>1. next \in DOMAIN members /\ members' = members
    BY TurnFacts DEF members
<1>2. ReportTyped
    BY InvParts
<1>3. CASE UNCHANGED reportVars
    BY <1>1, <1>2, <1>3 DEF reportVars, ReportTyped
<1>4. ASSUME NEW kind \in LossKinds, Decline(kind)
      PROVE  ReportTyped' /\ written \subseteq written'
    BY <1>1, <1>2, <1>4 DEF Decline, ReportTyped
<1>5. ASSUME NEW losses \in SUBSET Losses, Written(losses)
      PROVE  ReportTyped' /\ written \subseteq written'
    <2>1. written' = written \cup {next} /\ declined' = declined
        BY <1>5 DEF Written
    <2>2. lost' = lost \cup {[member |-> next, kind |-> x] : x \in losses}
        BY <1>5 DEF Written
    <2>3. lost \subseteq [member: written', kind: Losses]
        BY <1>2, <2>1 DEF ReportTyped
    <2>4. {[member |-> next, kind |-> x] : x \in losses} \subseteq [member: written', kind: Losses]
        BY <2>1
    <2>5. lost' \subseteq [member: written', kind: Losses]
        BY <2>2, <2>3, <2>4
    <2> QED
        BY <1>1, <1>2, <2>1, <2>5 DEF ReportTyped
<1> QED
    BY <1>3, <1>4, <1>5

(* What is put off keeps its type when more members are counted. *)
LEMMA DeferredKept ==
    ASSUME ExtractInv, UNCHANGED <<scenario, dirTimes>>, written \subseteq written',
           hardLinks' \in Seq(LinkRecords)
    PROVE  DeferredTyped'
<1>1. DeferredTyped
    BY InvParts
<1> QED
    BY <1>1 DEF DeferredTyped, DirsWritten, LinkRecords, TimeRecords, members

(* A whole turn, as every action of the first loop but those that stop. *)
LEMMA TurnKeeps ==
    ASSUME ExtractInv, Turn, Advance, ReportTyped', DeferredTyped', fs' \in FileSystems,
           byInode' \in [Inodes -> Paths \cup {Skipped}]
    PROVE  ExtractInv'
<1>1. /\ scenario' = scenario /\ phase' = phase /\ next' = next + 1
      /\ members' = members
    BY DEF Advance, members
<1>2. scenario \in Scenarios /\ phase \in Phases /\ next + 1 \in 1 .. Len(members) + 1
    BY InvParts, TurnFacts
<1> QED
    BY <1>1, <1>2, InvPartsNext

(* A step that ends a loop or the run. *)
LEMMA PhaseChanges ==
    ASSUME ExtractInv, UNCHANGED <<scenario, next, reportVars, byInode, deferredVars>>,
           phase' \in Phases, fs' \in FileSystems
    PROVE  ExtractInv'
<1>1. /\ scenario' = scenario /\ next' = next /\ byInode' = byInode
      /\ members' = members /\ written' = written /\ declined' = declined
      /\ lost' = lost /\ hardLinks' = hardLinks /\ dirTimes' = dirTimes
    BY DEF members, reportVars, deferredVars
<1>2. ReportTyped' /\ DeferredTyped'
    BY <1>1, InvParts DEF ReportTyped, DeferredTyped, DirsWritten, LinkRecords, TimeRecords
<1> QED
    BY <1>1, <1>2, InvParts, InvPartsNext
-----------------------------------------------------------------------------
(* The invariant, action by action. *)

(* The turns that write neither a directory nor a hard link: what is put off
   stays as it is. *)
LEMMA PlainTurn ==
    ASSUME ExtractInv, Turn, Advance, fs' \in FileSystems,
           \/ \E kind \in LossKinds : Decline(kind)
           \/ \E losses \in SUBSET Losses : Written(losses)
           \/ UNCHANGED reportVars,
           byInode' \in [Inodes -> Paths \cup {Skipped}],
           UNCHANGED deferredVars
    PROVE  ExtractInv'
<1>1. scenario' = scenario /\ hardLinks' = hardLinks /\ dirTimes' = dirTimes
    BY DEF Advance, deferredVars
<1>2. ReportTyped' /\ written \subseteq written'
    BY <1>1, TurnReports
<1>3. hardLinks' \in Seq(LinkRecords)
    BY <1>1, InvParts DEF DeferredTyped
<1>4. DeferredTyped'
    BY <1>1, <1>2, <1>3, DeferredKept
<1> QED
    BY <1>2, <1>4, TurnKeeps

(* The losses that setting the attributes may have. *)
LEMMA RefusalsTyped == \A f : Refusals(f) \in SUBSET Losses
BY DEF Refusals, Tried, Losses

(* The turns that decline the member, or pass it over. *)
LEMMA DeclineKeeps ==
    ASSUME ExtractInv,
           \/ SkipMember \/ DeclineCollision \/ DeclineName \/ DeclineSpecial
           \/ DropPartial \/ DeclineSymlink \/ DeclineStripped
    PROVE  ExtractInv'
<1>1. Turn /\ Advance /\ byInode' = byInode /\ UNCHANGED deferredVars
    BY DEF SkipMember, DeclineCollision, DeclineName, DeclineSpecial, DropPartial,
           DeclineSymlink, DeclineStripped, Extracting, Reached
<1>2. \/ \E kind \in LossKinds : Decline(kind)
      \/ UNCHANGED reportVars
    BY DEF SkipMember, DeclineCollision, DeclineName, DeclineSpecial, DropPartial,
           DeclineSymlink, DeclineStripped, LossKinds
<1>3. fs \in FileSystems /\ byInode' \in [Inodes -> Paths \cup {Skipped}]
    BY <1>1, InvParts
<1>4. ParentMade \subseteq FileSystems
    BY <1>3, ParentMadeTyped
<1>5. fs' \in FileSystems
    <2>1. CASE SkipMember \/ DeclineCollision \/ DeclineName \/ DeclineSpecial \/ DeclineStripped
        BY <1>3, <1>4, <2>1
        DEF SkipMember, DeclineCollision, DeclineName, DeclineSpecial, DeclineStripped
    <2>2. CASE DropPartial
        <3>1. PartialFiles \subseteq FileSystems
            <4>1. Garbage \in Nat
                BY DEF Garbage
            <4>2. \A f \in FileSystems : \A e : Created(f, e, Garbage) \subseteq FileSystems
                BY <4>1, CreatedTyped
            <4> QED
                BY <1>4, <4>2 DEF PartialFiles
        <3>2. PICK f \in PartialFiles : fs' = Without(f, Target)
            BY <2>2 DEF DropPartial
        <3> QED
            BY <3>1, <3>2, WithoutTyped
    <2>3. CASE DeclineSymlink
        <3>1. PICK f \in ParentMade : fs' = Without(f, Target)
            BY <2>3 DEF DeclineSymlink
        <3> QED
            BY <1>4, <3>1, WithoutTyped
    <2> QED
        BY <2>1, <2>2, <2>3
<1> QED
    BY <1>1, <1>2, <1>3, <1>5, PlainTurn

LEMMA ExtractFileKeeps ==
    ASSUME ExtractInv, ExtractFile
    PROVE  ExtractInv'
<1>1. Turn /\ Advance /\ UNCHANGED deferredVars /\ Record
    BY DEF ExtractFile, Extracting, Reached
<1>2. fs \in FileSystems /\ byInode \in [Inodes -> Paths \cup {Skipped}]
    BY InvParts
<1>3. next \in Nat /\ M.mode \in Modes /\ M.path \in Paths
    BY <1>1, TurnFacts
<1>4. PICK f \in ParentMade : \E g \in Created(f, Target, next) :
        fs' = Attributed(g) /\ Written(Refusals(g))
    BY DEF ExtractFile
<1>5. PICK g \in Created(f, Target, next) : fs' = Attributed(g) /\ Written(Refusals(g))
    BY <1>4
<1>6. g \in FileSystems
    BY <1>2, <1>3, <1>4, <1>5, ParentMadeTyped, CreatedTyped
<1>7. fs' \in FileSystems
    BY <1>3, <1>5, <1>6, AttributedTyped
<1>8. \E losses \in SUBSET Losses : Written(losses)
    BY <1>5, RefusalsTyped
<1>9. byInode' \in [Inodes -> Paths \cup {Skipped}]
    BY <1>1, <1>2, <1>3 DEF Record
<1> QED
    BY <1>1, <1>7, <1>8, <1>9, PlainTurn

LEMMA ExtractSymlinkKeeps ==
    ASSUME ExtractInv, ExtractSymlink
    PROVE  ExtractInv'
<1> DEFINE stamp == IF RestoreMtime THEN {"Mtime"} ELSE {}
           mtime == IF stamp \ scenario.host = {} THEN Now ELSE next
<1>1. Turn /\ Advance /\ UNCHANGED deferredVars /\ Record /\ Written(stamp \cap scenario.host)
    BY DEF ExtractSymlink, Extracting, Reached
<1>2. fs \in FileSystems /\ byInode \in [Inodes -> Paths \cup {Skipped}]
    BY InvParts
<1>3. /\ next \in Nat /\ M.path \in Paths
      /\ Dest[M.link] \in Entries \cup {Absent, Skipped, Refused}
    BY <1>1, TurnFacts
<1>4. PICK g \in ParentMade : \E i \in Numbers(Without(g, Target)) :
        fs' = Put(Without(g, Target), Target, i, [LinkNode(Dest[M.link]) EXCEPT !.mtime = mtime])
    BY DEF ExtractSymlink
<1>5. Without(g, Target) \in FileSystems
    BY <1>2, <1>4, ParentMadeTyped, WithoutTyped
<1>6. [LinkNode(Dest[M.link]) EXCEPT !.mtime = mtime] \in Nodes
    <2>1. LinkNode(Dest[M.link]) \in Nodes /\ mtime \in Nat
        BY <1>3, NodeTyped DEF Now
    <2> QED
        BY <2>1 DEF Nodes
<1>7. fs' \in FileSystems
    <2>1. Numbers(Without(g, Target)) \subseteq Inodes
        BY DEF Numbers
    <2> HIDE DEF mtime
    <2> QED
        BY <1>4, <1>5, <1>6, <2>1, PutTyped
<1>8. \E losses \in SUBSET Losses : Written(losses)
    BY <1>1 DEF Losses
<1>9. byInode' \in [Inodes -> Paths \cup {Skipped}]
    BY <1>1, <1>2, <1>3 DEF Record
<1> QED
    BY <1>1, <1>7, <1>8, <1>9, PlainTurn

LEMMA ExtractDirKeeps ==
    ASSUME ExtractInv, ExtractDir
    PROVE  ExtractInv'
<1>1. /\ Turn /\ Advance /\ hardLinks' = hardLinks /\ byInode' = byInode /\ DeferTimes
      /\ Target \in Entries
    BY DEF ExtractDir, Extracting, Reached
<1>2. fs \in FileSystems /\ byInode' \in [Inodes -> Paths \cup {Skipped}] /\ DeferredTyped
    BY <1>1, InvParts
<1>3. next \in Nat /\ next \in DOMAIN members /\ M.mode \in Modes
    BY <1>1, TurnFacts
<1>4. PICK f \in ParentMade :
        \E g \in IF IsDir(f, Target) THEN {f}
                 ELSE {Put(f, Target, i, DirNode) : i \in Numbers(f)} :
           fs' = Attributed(g) /\ Written(Refusals(g))
    BY DEF ExtractDir
<1>5. PICK g \in IF IsDir(f, Target) THEN {f}
                 ELSE {Put(f, Target, i, DirNode) : i \in Numbers(f)} :
           fs' = Attributed(g) /\ Written(Refusals(g))
    BY <1>4
<1>6. g \in FileSystems
    <2>1. f \in FileSystems /\ Numbers(f) \subseteq Inodes /\ DirNode \in Nodes
        BY <1>2, <1>4, ParentMadeTyped, NodeTyped DEF Numbers
    <2>2. \A i \in Numbers(f) : Put(f, Target, i, DirNode) \in FileSystems
        BY <2>1, PutTyped
    <2> QED
        BY <1>5, <2>1, <2>2
<1>7. fs' \in FileSystems
    BY <1>3, <1>5, <1>6, AttributedTyped
<1>8. \E losses \in SUBSET Losses : Written(losses)
    BY <1>5, RefusalsTyped
<1>9. scenario' = scenario /\ members' = members
    BY <1>1 DEF Advance, members
<1>10. ReportTyped' /\ written \subseteq written' /\ next \in written'
    <2>1. next \in written'
        BY <1>5 DEF Written
    <2> QED
        BY <1>1, <1>8, <1>9, <2>1, TurnReports
<1>11. DeferredTyped'
    <2>1. /\ dirTimes \in Seq(TimeRecords) /\ hardLinks' \in Seq(LinkRecords)
          /\ \A i \in DOMAIN dirTimes : dirTimes[i].member \in written'
        BY <1>1, <1>2, <1>10 DEF DeferredTyped, DirsWritten
    <2> DEFINE t == [member |-> next, entry |-> Target]
    <2>2. t \in TimeRecords /\ t.member \in written'
        BY <1>1, <1>3, <1>10 DEF TimeRecords
    <2>3. dirTimes' = dirTimes \/ dirTimes' = Append(dirTimes, t)
        BY <1>1 DEF DeferTimes
    <2> HIDE DEF t
    <2>4. dirTimes' \in Seq(TimeRecords)
        BY <2>1, <2>2, <2>3
    <2>5. \A i \in DOMAIN dirTimes' : dirTimes'[i].member \in written'
        BY <2>1, <2>2, <2>3
    <2> QED
        BY <1>9, <2>1, <2>4, <2>5 DEF DeferredTyped, DirsWritten, TimeRecords, LinkRecords
<1> QED
    BY <1>1, <1>2, <1>7, <1>10, <1>11, TurnKeeps

LEMMA DeferHardLinkKeeps ==
    ASSUME ExtractInv, DeferHardLink
    PROVE  ExtractInv'
<1>1. /\ Turn /\ Advance /\ Defer /\ Dest[M.link] \in Entries /\ Target \in Entries
      /\ scenario' = scenario /\ byInode' = byInode /\ dirTimes' = dirTimes
      /\ UNCHANGED reportVars /\ fs' \in ParentMade
    BY DEF DeferHardLink, Extracting, Reached, Advance
<1>2. next \in DOMAIN members
    BY <1>1, TurnFacts
<1>3. [member |-> next, source |-> Dest[M.link], target |-> Target] \in LinkRecords
    BY <1>1, <1>2 DEF LinkRecords
<1>4. hardLinks' \in Seq(LinkRecords)
    BY <1>1, <1>3, InvParts DEF Defer, DeferredTyped
<1>5. ReportTyped' /\ written \subseteq written'
    BY <1>1, TurnReports
<1>6. DeferredTyped'
    BY <1>1, <1>4, <1>5, DeferredKept
<1>7. fs' \in FileSystems /\ byInode' \in [Inodes -> Paths \cup {Skipped}]
    BY <1>1, InvParts, ParentMadeTyped
<1> QED
    BY <1>1, <1>5, <1>6, <1>7, TurnKeeps

(* The steps of the first loop that end it, or the run. *)
LEMMA StopKeeps ==
    ASSUME ExtractInv,
           \/ RefusePath \/ AbortOnBadData \/ AbortOnConflict \/ MembersDone
           \/ LinksDone \/ Finish \/ IoFails
    PROVE  ExtractInv'
<1>1. /\ UNCHANGED <<scenario, next, reportVars, byInode, deferredVars>>
      /\ phase' \in Phases
    BY DEF RefusePath, AbortOnBadData, AbortOnConflict, Abort, MembersDone, LinksDone,
           Finish, IoFails, Phases
<1>2. fs \in FileSystems
    BY InvParts
<1>3. ParentMade \subseteq FileSystems
    BY <1>2, ParentMadeTyped
<1>4. fs' \in FileSystems
    <2>1. CASE RefusePath \/ AbortOnConflict
        BY <1>2, <1>3, <2>1 DEF RefusePath, AbortOnConflict
    <2>2. CASE AbortOnBadData
        <3>1. Garbage \in Nat
            BY DEF Garbage
        <3>2. \A f \in FileSystems : \A e : Created(f, e, Garbage) \subseteq FileSystems
            BY <3>1, CreatedTyped
        <3> QED
            BY <1>3, <2>2, <3>2 DEF AbortOnBadData, PartialFiles
    <2>3. CASE MembersDone \/ LinksDone \/ Finish \/ IoFails
        BY <1>2, <2>3 DEF MembersDone, LinksDone, Finish, IoFails
    <2> QED
        BY <2>1, <2>2, <2>3
<1> QED
    BY <1>1, <1>4, PhaseChanges

(* The first of the hard links that wait. *)
LEMMA LinkFacts ==
    ASSUME ExtractInv, LinkTurn
    PROVE  /\ L \in LinkRecords /\ Tail(hardLinks) \in Seq(LinkRecords)
           /\ hardLinks[1] = L /\ Len(hardLinks) \in Nat \ {0}
           /\ Len(Tail(hardLinks)) = Len(hardLinks) - 1
           /\ \A i \in 1 .. Len(hardLinks) - 1 : Tail(hardLinks)[i] = hardLinks[i + 1]
<1>1. hardLinks \in Seq(LinkRecords) /\ hardLinks # <<>>
    BY InvParts DEF LinkTurn, DeferredTyped
<1> QED
    BY <1>1 DEF L

LEMMA LinkKeeps ==
    ASSUME ExtractInv, MakeHardLink \/ DeclineHardLink
    PROVE  ExtractInv'
<1>1. /\ LinkTurn /\ UNCHANGED <<scenario, phase, next, lost, byInode, dirTimes>>
      /\ hardLinks' = Tail(hardLinks) /\ members' = members
    BY DEF MakeHardLink, DeclineHardLink, members
<1>2. /\ fs \in FileSystems /\ ReportTyped
      /\ L \in LinkRecords /\ hardLinks' \in Seq(LinkRecords)
    BY <1>1, InvParts, LinkFacts
<1>3. L.member \in DOMAIN members /\ L.source \in Entries /\ L.target \in Entries
    BY <1>2 DEF LinkRecords
<1>4. fs' \in FileSystems
    <2>1. CASE DeclineHardLink
        BY <1>2, <2>1, WithoutTyped DEF DeclineHardLink
    <2>2. CASE MakeHardLink
        <3> DEFINE f == Without(fs, L.target)
                   g == [f EXCEPT !.dir[L.target] = f.dir[L.source]]
        <3>1. f \in FileSystems
            BY <1>2, WithoutTyped
        <3>2. f.dir[L.source] \in Inodes \cup {Absent}
            BY <1>3, <3>1 DEF FileSystems
        <3>3. fs' = Touch(g, L.target)
            BY <2>2 DEF MakeHardLink
        <3> HIDE DEF f
        <3>4. g \in FileSystems
            BY <3>1, <3>2, EntryChanged
        <3> QED
            BY <3>3, <3>4, TouchTyped
    <2> QED
        BY <2>1, <2>2
<1>5. /\ written' \in {written, written \cup {L.member}}
      /\ declined' \in {declined, declined \cup {[member |-> L.member, kind |-> "HardLink"]}}
    BY DEF MakeHardLink, DeclineHardLink
<1>6. ReportTyped' /\ written \subseteq written'
    <2>1. [member |-> L.member, kind |-> "HardLink"] \in [member: DOMAIN members, kind: LossKinds]
        BY <1>3 DEF LossKinds
    <2>2. lost \subseteq [member: written', kind: Losses]
        BY <1>2, <1>5 DEF ReportTyped
    <2> QED
        BY <1>1, <1>2, <1>3, <1>5, <2>1, <2>2 DEF ReportTyped
<1>7. DeferredTyped'
    BY <1>1, <1>2, <1>6, DeferredKept
<1> QED
    BY <1>1, <1>4, <1>6, <1>7, InvParts, InvPartsNext

LEMMA StampKeeps ==
    ASSUME ExtractInv, StampDir
    PROVE  ExtractInv'
<1> DEFINE t == Head(dirTimes)
           e == Leads(fs, t.entry)
<1>1. /\ UNCHANGED <<scenario, phase, next, written, declined, byInode, hardLinks>>
      /\ dirTimes' = Tail(dirTimes) /\ dirTimes # <<>> /\ members' = members
    BY DEF StampDir, members
<1>2. /\ fs \in FileSystems /\ ReportTyped /\ hardLinks \in Seq(LinkRecords)
      /\ dirTimes \in Seq(TimeRecords)
      /\ \A i \in DOMAIN dirTimes : dirTimes[i].member \in written
    BY InvParts DEF DeferredTyped, DirsWritten
<1>3. t = dirTimes[1] /\ 1 \in DOMAIN dirTimes /\ t \in TimeRecords
    BY <1>1, <1>2
<1>4. t.member \in written /\ t.member \in Nat
    <2>1. t.member \in DOMAIN members
        BY <1>3 DEF TimeRecords
    <2>2. members \in Seq(ArchiveMembers)
        BY ScenariosAssumption, InvParts DEF members
    <2> QED
        BY <1>2, <1>3, <2>1, <2>2
<1>5. fs' \in {fs, [fs EXCEPT !.node[fs.dir[e]].mtime = t.member]}
    BY DEF StampDir
<1>6. fs' \in FileSystems
    <2>1. \A v : [fs EXCEPT !.node[v].mtime = t.member] \in FileSystems
        BY <1>2, <1>4, TimeChanged
    <2> HIDE DEF t, e
    <2> QED
        BY <1>2, <1>5, <2>1
<1>7. lost' \in {lost, lost \cup {[member |-> t.member, kind |-> "Mtime"]}}
    BY DEF StampDir
<1>8. [member |-> t.member, kind |-> "Mtime"] \in [member: written, kind: Losses]
    BY <1>4 DEF Losses
<1>9. ReportTyped'
    BY <1>1, <1>2, <1>7, <1>8 DEF ReportTyped
<1>10. DeferredTyped'
    <2>1. /\ dirTimes' \in Seq(TimeRecords)
          /\ \A i \in DOMAIN dirTimes' : dirTimes'[i].member \in written
        <3>1. /\ Len(dirTimes) \in Nat \ {0} /\ dirTimes' \in Seq(TimeRecords)
              /\ Len(dirTimes') = Len(dirTimes) - 1 /\ DOMAIN dirTimes' = 1 .. Len(dirTimes')
              /\ \A i \in 1 .. Len(dirTimes') : dirTimes'[i] = dirTimes[i + 1]
              /\ DOMAIN dirTimes = 1 .. Len(dirTimes)
            BY <1>1, <1>2
        <3>2. \A i \in DOMAIN dirTimes' : i + 1 \in DOMAIN dirTimes
            BY <3>1
        <3> QED
            BY <1>2, <3>1, <3>2
    <2> QED
        BY <1>1, <1>2, <2>1 DEF DeferredTyped, DirsWritten, LinkRecords, TimeRecords
<1> QED
    BY <1>1, <1>6, <1>9, <1>10, InvParts, InvPartsNext

LEMMA ExtractInit == Init => ExtractInv
<1> SUFFICES ASSUME Init PROVE ExtractInv
    OBVIOUS
<1>1. members \in Seq(ArchiveMembers) /\ scenario.prior \in FileSystems
    BY ScenariosAssumption DEF Init, members
<1>2. ReportTyped /\ DeferredTyped
    BY DEF Init, ReportTyped, DeferredTyped, DirsWritten
<1>3. next \in 1 .. Len(members) + 1
    BY <1>1 DEF Init
<1> QED
    BY <1>1, <1>2, <1>3, InvParts DEF Init, Phases

LEMMA ExtractNext == ExtractInv /\ [Next]_vars => ExtractInv'
<1> SUFFICES ASSUME ExtractInv, [Next]_vars PROVE ExtractInv'
    OBVIOUS
<1>1. CASE UNCHANGED vars
    BY <1>1, InvParts, PhaseChanges DEF vars
<1>2. CASE Step \/ IoFails
    BY <1>2, DeclineKeeps, ExtractFileKeeps, ExtractSymlinkKeeps, ExtractDirKeeps,
       DeferHardLinkKeeps, StopKeeps, LinkKeeps, StampKeeps DEF Step
<1> QED
    BY <1>1, <1>2 DEF Next, Ended

(* The variables of Extract keep their types, whatever is in the archive and on
   the file system. *)
THEOREM TypeTheorem == Spec => []ExtractTypeOK
<1>1. ExtractInv => ExtractTypeOK
    BY DEF ExtractInv
<1> QED
    BY <1>1, ExtractInit, ExtractNext, PTL DEF Spec
-----------------------------------------------------------------------------
(* The report accounts for every selected member. *)

(* A turn that counts or declines the member, or passes one over that is not
   selected. *)
LEMMA TurnAccounts ==
    ASSUME ExtractInv, AccountInv, Turn, Advance, hardLinks' = hardLinks,
           \/ ~Selected(next) /\ UNCHANGED reportVars
           \/ \E kind \in LossKinds : Decline(kind)
           \/ \E losses \in SUBSET Losses : Written(losses)
    PROVE  AccountInv'
<1>1. /\ next \in DOMAIN members /\ next \in Nat /\ next' = next + 1
      /\ members' = members /\ scenario' = scenario /\ phase' = "members"
    BY TurnFacts DEF Turn, Advance, members
<1>2. DOMAIN members \subseteq Nat
    BY ScenariosAssumption, InvParts DEF members
<1>3. \A j \in DOMAIN members : /\ Waits(j)' <=> Waits(j)
                                /\ Selected(j)' <=> Selected(j)
    BY <1>1 DEF Waits, Selected, Entry
<1>4. next \notin written /\ ~Told(next) /\ ~Waits(next)
    BY <1>1 DEF AccountInv
<1>5. \A i, k \in DOMAIN hardLinks : hardLinks[i].member = hardLinks[k].member => i = k
    BY DEF AccountInv
<1>6. ASSUME NEW told, \A j \in DOMAIN members : Told(j)' <=> Told(j) \/ (j = next /\ told),
             NEW counted, written' = written \cup (IF counted THEN {next} ELSE {}),
             Selected(next) => told \/ counted, ~(told /\ counted),
             told \in BOOLEAN, counted \in BOOLEAN,
             \A c, d \in declined' : c.member = d.member => c = d
      PROVE  AccountInv'
    <2> SUFFICES ASSUME NEW j \in DOMAIN members
                 PROVE  /\ Selected(j) /\ j < next + 1 => j \in written' \/ Told(j)' \/ Waits(j)
                        /\ j >= next + 1 => j \notin written' /\ ~Told(j)' /\ ~Waits(j)
                        /\ j \in written' => ~Told(j)' /\ ~Waits(j)
                        /\ Told(j)' => ~Waits(j)
        BY <1>1, <1>3, <1>5, <1>6 DEF AccountInv
    <2>1. /\ Selected(j) /\ j < next => j \in written \/ Told(j) \/ Waits(j)
          /\ j >= next => j \notin written /\ ~Told(j) /\ ~Waits(j)
          /\ j \in written => ~Told(j) /\ ~Waits(j)
          /\ Told(j) => ~Waits(j)
        BY DEF AccountInv
    <2>2. /\ Told(j)' <=> Told(j) \/ (j = next /\ told)
          /\ j \in written' <=> j \in written \/ (j = next /\ counted)
        BY <1>6
    <2>3. j \in Nat
        BY <1>2
    <2>4. CASE j = next
        BY <1>1, <1>4, <1>6, <2>2, <2>4
    <2>5. CASE j # next
        <3>1. (j < next + 1 <=> j < next) /\ (j >= next + 1 => j >= next)
            BY <1>1, <2>3, <2>5
        <3> QED
            BY <2>1, <2>2, <2>5, <3>1
    <2> QED
        BY <2>4, <2>5
<1>7. CASE ~Selected(next) /\ UNCHANGED reportVars
    <2>1. \A j \in DOMAIN members : Told(j)' <=> Told(j) \/ (j = next /\ FALSE)
        BY <1>7 DEF Told, reportVars
    <2>2. written' = written \cup (IF FALSE THEN {next} ELSE {})
        BY <1>7 DEF reportVars
    <2>3. \A c, d \in declined' : c.member = d.member => c = d
        BY <1>7 DEF AccountInv, reportVars
    <2> QED
        BY <1>6, <1>7, <2>1, <2>2, <2>3
<1>8. ASSUME NEW kind \in LossKinds, Decline(kind)
      PROVE  AccountInv'
    <2> DEFINE r == [member |-> next, kind |-> kind]
    <2>1. declined' = declined \cup {r} /\ r.member = next /\ written' = written
        BY <1>8 DEF Decline
    <2> HIDE DEF r
    <2>2. \A j \in DOMAIN members : Told(j)' <=> Told(j) \/ (j = next /\ TRUE)
        BY <2>1 DEF Told
    <2>3. written' = written \cup (IF FALSE THEN {next} ELSE {})
        BY <2>1
    <2>4. \A c, d \in declined' : c.member = d.member => c = d
        BY <1>4, <2>1 DEF AccountInv, Told
    <2> QED
        BY <1>6, <2>2, <2>3, <2>4
<1>9. ASSUME NEW losses \in SUBSET Losses, Written(losses)
      PROVE  AccountInv'
    <2>1. written' = written \cup {next} /\ declined' = declined
        BY <1>9 DEF Written
    <2>2. \A j \in DOMAIN members : Told(j)' <=> Told(j) \/ (j = next /\ FALSE)
        BY <2>1 DEF Told
    <2>3. written' = written \cup (IF TRUE THEN {next} ELSE {})
        BY <2>1
    <2>4. \A c, d \in declined' : c.member = d.member => c = d
        BY <2>1 DEF AccountInv
    <2> QED
        BY <1>6, <2>2, <2>3, <2>4
<1> QED
    BY <1>7, <1>8, <1>9

(* A hard link that is put off waits, and nothing else is said of it. *)
LEMMA DeferAccounts ==
    ASSUME ExtractInv, AccountInv, DeferHardLink
    PROVE  AccountInv'
<1> DEFINE r == [member |-> next, source |-> Dest[M.link], target |-> Target]
<1>1. Turn /\ Advance /\ UNCHANGED reportVars /\ hardLinks' = Append(hardLinks, r)
    BY DEF DeferHardLink, Extracting, Reached, Defer
<1>2. /\ next \in DOMAIN members /\ next \in Nat /\ next' = next + 1
      /\ members' = members /\ scenario' = scenario /\ phase' = "members"
      /\ written' = written /\ declined' = declined
    BY <1>1, TurnFacts DEF Turn, Advance, members, reportVars
<1>3. DOMAIN members \subseteq Nat
    BY ScenariosAssumption, InvParts DEF members
<1>4. r.member = next
    OBVIOUS
<1>5. hardLinks \in Seq(LinkRecords)
    BY InvParts DEF DeferredTyped
<1> HIDE DEF r
<1>6. /\ Len(hardLinks) \in Nat /\ DOMAIN hardLinks = 1 .. Len(hardLinks)
      /\ DOMAIN hardLinks' = 1 .. Len(hardLinks) + 1
      /\ hardLinks'[Len(hardLinks) + 1] = r
      /\ \A i \in DOMAIN hardLinks : hardLinks'[i] = hardLinks[i]
    BY <1>1, <1>5
<1>7. \A i \in DOMAIN hardLinks' : i \in DOMAIN hardLinks \/ i = Len(hardLinks) + 1
    BY <1>6
<1>8. \A j \in DOMAIN members : /\ Told(j)' <=> Told(j)
                                /\ Selected(j)' <=> Selected(j)
    BY <1>2 DEF Told, Selected, Entry
<1>9. \A j \in DOMAIN members : Waits(j)' <=> Waits(j) \/ j = next
    <2> SUFFICES ASSUME NEW j \in DOMAIN members PROVE Waits(j)' <=> Waits(j) \/ j = next
        OBVIOUS
    <2>1. Waits(j)' => Waits(j) \/ j = next
        BY <1>4, <1>6, <1>7 DEF Waits
    <2>2. Waits(j) => Waits(j)'
        <3> SUFFICES ASSUME NEW i \in DOMAIN hardLinks, hardLinks[i].member = j
                     PROVE  \E x \in DOMAIN hardLinks' : hardLinks'[x].member = j
            BY DEF Waits
        <3>1. i \in DOMAIN hardLinks' /\ hardLinks'[i] = hardLinks[i]
            BY <1>6
        <3> QED
            BY <3>1
    <2>3. j = next => Waits(j)'
        <3>1. Len(hardLinks) + 1 \in DOMAIN hardLinks'
            BY <1>6
        <3> QED
            BY <1>4, <1>6, <3>1 DEF Waits
    <2> QED
        BY <2>1, <2>2, <2>3
<1>10. next \notin written /\ ~Told(next) /\ ~Waits(next)
    BY <1>2 DEF AccountInv
<1>11. \A i, k \in DOMAIN hardLinks' : hardLinks'[i].member = hardLinks'[k].member => i = k
    <2> SUFFICES ASSUME NEW i \in DOMAIN hardLinks', NEW k \in DOMAIN hardLinks',
                        hardLinks'[i].member = hardLinks'[k].member
                 PROVE  i = k
        OBVIOUS
    <2>1. \A x \in DOMAIN hardLinks : hardLinks'[x].member # next
        BY <1>6, <1>10 DEF Waits
    <2>2. CASE i \in DOMAIN hardLinks /\ k \in DOMAIN hardLinks
        BY <1>6, <2>2 DEF AccountInv
    <2>3. CASE i \notin DOMAIN hardLinks \/ k \notin DOMAIN hardLinks
        BY <1>4, <1>6, <1>7, <2>1, <2>3
    <2> QED
        BY <2>2, <2>3
<1> SUFFICES ASSUME NEW j \in DOMAIN members
             PROVE  /\ Selected(j) /\ j < next + 1 => j \in written \/ Told(j) \/ Waits(j)'
                    /\ j >= next + 1 => j \notin written /\ ~Told(j) /\ ~Waits(j)'
                    /\ j \in written => ~Told(j) /\ ~Waits(j)'
                    /\ Told(j) => ~Waits(j)'
    BY <1>2, <1>8, <1>11 DEF AccountInv
<1>12. /\ Selected(j) /\ j < next => j \in written \/ Told(j) \/ Waits(j)
       /\ j >= next => j \notin written /\ ~Told(j) /\ ~Waits(j)
       /\ j \in written => ~Told(j) /\ ~Waits(j)
       /\ Told(j) => ~Waits(j)
    BY DEF AccountInv
<1>13. CASE j = next
    BY <1>2, <1>9, <1>10, <1>13
<1>14. CASE j # next
    <2>1. (j < next + 1 <=> j < next) /\ (j >= next + 1 => j >= next)
        BY <1>2, <1>3, <1>14
    <2> QED
        BY <1>9, <1>12, <1>14, <2>1
<1> QED
    BY <1>13, <1>14

(* The first hard link that waits is made or declined, and waits no more. *)
LEMMA LinkAccounts ==
    ASSUME ExtractInv, AccountInv, MakeHardLink \/ DeclineHardLink
    PROVE  AccountInv'
<1> DEFINE x == L.member
<1>1. /\ LinkTurn /\ UNCHANGED <<scenario, phase, next>> /\ hardLinks' = Tail(hardLinks)
      /\ members' = members
    BY DEF MakeHardLink, DeclineHardLink, members
<1>2. /\ hardLinks[1] = L /\ Len(hardLinks) \in Nat \ {0}
      /\ hardLinks \in Seq(LinkRecords) /\ DOMAIN hardLinks = 1 .. Len(hardLinks)
      /\ DOMAIN hardLinks' = 1 .. Len(hardLinks) - 1
      /\ \A i \in 1 .. Len(hardLinks) - 1 : hardLinks'[i] = hardLinks[i + 1]
      /\ x \in DOMAIN members
    <2>1. L \in LinkRecords /\ Tail(hardLinks) \in Seq(LinkRecords)
        BY <1>1, LinkFacts
    <2>2. hardLinks \in Seq(LinkRecords)
        BY InvParts DEF DeferredTyped
    <2>3. x \in DOMAIN members
        BY <2>1 DEF LinkRecords
    <2> QED
        BY <1>1, <2>1, <2>2, <2>3, LinkFacts
<1>3. 1 \in DOMAIN hardLinks /\ Waits(x)
    BY <1>2 DEF Waits
<1>4. x \notin written /\ ~Told(x)
    BY <1>2, <1>3 DEF AccountInv
<1> HIDE DEF x
<1>5. \A i, k \in DOMAIN hardLinks : hardLinks[i].member = hardLinks[k].member => i = k
    BY DEF AccountInv
<1>6. \A j \in DOMAIN members : Waits(j)' <=> Waits(j) /\ j # x
    <2> SUFFICES ASSUME NEW j \in DOMAIN members PROVE Waits(j)' <=> Waits(j) /\ j # x
        OBVIOUS
    <2>1. \A i \in DOMAIN hardLinks' : /\ i + 1 \in DOMAIN hardLinks /\ i + 1 # 1
                                       /\ hardLinks'[i] = hardLinks[i + 1]
        BY <1>2
    <2>2. \A i \in DOMAIN hardLinks : i # 1 => i - 1 \in DOMAIN hardLinks' /\ hardLinks'[i - 1] = hardLinks[i]
        BY <1>2
    <2>3. hardLinks[1].member = x
        BY <1>2 DEF x
    <2>4. Waits(j)' => Waits(j) /\ j # x
        BY <1>3, <1>5, <2>1, <2>3 DEF Waits
    <2>5. Waits(j) /\ j # x => Waits(j)'
        BY <2>2, <2>3 DEF Waits
    <2> QED
        BY <2>4, <2>5
<1>7. \A i, k \in DOMAIN hardLinks' : hardLinks'[i].member = hardLinks'[k].member => i = k
    <2> SUFFICES ASSUME NEW i \in DOMAIN hardLinks', NEW k \in DOMAIN hardLinks',
                        hardLinks'[i].member = hardLinks'[k].member
                 PROVE  i = k
        OBVIOUS
    <2>1. /\ i + 1 \in DOMAIN hardLinks /\ hardLinks'[i] = hardLinks[i + 1]
          /\ k + 1 \in DOMAIN hardLinks /\ hardLinks'[k] = hardLinks[k + 1]
          /\ i \in Nat /\ k \in Nat
        BY <1>2
    <2>2. i + 1 = k + 1
        BY <1>5, <2>1
    <2> QED
        BY <2>1, <2>2
<1>8. /\ \A j \in DOMAIN members : Selected(j)' <=> Selected(j)
      /\ next' = Len(members') + 1 /\ phase' = "links" /\ next' = next
    BY <1>1 DEF Selected, Entry, AccountInv, LinkTurn
<1>9. ASSUME NEW told \in BOOLEAN, \A j \in DOMAIN members : Told(j)' <=> Told(j) \/ (j = x /\ told),
             written' = written \cup (IF told THEN {} ELSE {x}),
             \A c, d \in declined' : c.member = d.member => c = d
      PROVE  AccountInv'
    <2> SUFFICES ASSUME NEW j \in DOMAIN members
                 PROVE  /\ Selected(j) /\ j < next => j \in written' \/ Told(j)' \/ Waits(j)'
                        /\ j >= next => j \notin written' /\ ~Told(j)' /\ ~Waits(j)'
                        /\ j \in written' => ~Told(j)' /\ ~Waits(j)'
                        /\ Told(j)' => ~Waits(j)'
        BY <1>1, <1>7, <1>8, <1>9 DEF AccountInv
    <2>1. /\ Selected(j) /\ j < next => j \in written \/ Told(j) \/ Waits(j)
          /\ j >= next => j \notin written /\ ~Told(j) /\ ~Waits(j)
          /\ j \in written => ~Told(j) /\ ~Waits(j)
          /\ Told(j) => ~Waits(j)
        BY DEF AccountInv
    <2>2. /\ Told(j)' <=> Told(j) \/ (j = x /\ told)
          /\ j \in written' <=> j \in written \/ (j = x /\ ~told)
        BY <1>9
    <2> QED
        BY <1>3, <1>4, <1>6, <2>1, <2>2
<1>10. CASE MakeHardLink
    <2>1. written' = written \cup {x} /\ declined' = declined
        BY <1>10 DEF MakeHardLink, x
    <2>2. \A j \in DOMAIN members : Told(j)' <=> Told(j) \/ (j = x /\ FALSE)
        BY <2>1 DEF Told
    <2>3. written' = written \cup (IF FALSE THEN {} ELSE {x})
        BY <2>1
    <2>4. \A c, d \in declined' : c.member = d.member => c = d
        BY <2>1 DEF AccountInv
    <2> QED
        BY <1>9, <2>2, <2>3, <2>4
<1>11. CASE DeclineHardLink
    <2> DEFINE r == [member |-> x, kind |-> "HardLink"]
    <2>1. declined' = declined \cup {r} /\ written' = written /\ r.member = x
        BY <1>11 DEF DeclineHardLink, x
    <2> HIDE DEF r
    <2>2. \A j \in DOMAIN members : Told(j)' <=> Told(j) \/ (j = x /\ TRUE)
        BY <2>1 DEF Told
    <2>3. written' = written \cup (IF TRUE THEN {} ELSE {x})
        BY <2>1
    <2>4. \A c, d \in declined' : c.member = d.member => c = d
        BY <1>4, <2>1 DEF AccountInv, Told
    <2> QED
        BY <1>9, <2>2, <2>3, <2>4
<1> QED
    BY <1>10, <1>11

(* The steps that say nothing of a member. *)
LEMMA SilentAccounts ==
    ASSUME ExtractInv, AccountInv,
           UNCHANGED <<scenario, next, written, declined, hardLinks>>,
           \/ phase' = phase
           \/ phase' = "error"
           \/ phase = "members" /\ next > Len(members) /\ phase' = "links"
           \/ phase = "links" /\ hardLinks = <<>> /\ phase' = "times"
           \/ phase = "times" /\ phase' \in {"ok", "strict"}
    PROVE  AccountInv'
<1>1. \A j : /\ Told(j)' <=> Told(j)
             /\ Waits(j)' <=> Waits(j)
             /\ Selected(j)' <=> Selected(j)
    BY DEF Told, Waits, Selected, Entry, members
<1>2. next > Len(members) => next = Len(members) + 1
    <2>1. members \in Seq(ArchiveMembers) /\ next \in 1 .. Len(members) + 1
        BY ScenariosAssumption, InvParts DEF members
    <2> QED
        BY <2>1
<1>3. members' = members
    BY DEF members
<1>4. /\ \A c, d \in declined' : c.member = d.member => c = d
      /\ \A i, k \in DOMAIN hardLinks' : hardLinks'[i].member = hardLinks'[k].member => i = k
      /\ \A j \in DOMAIN members' :
          /\ Selected(j)' /\ j < next' => j \in written' \/ Told(j)' \/ Waits(j)'
          /\ j >= next' => j \notin written' /\ ~Told(j)' /\ ~Waits(j)'
          /\ j \in written' => ~Told(j)' /\ ~Waits(j)'
          /\ Told(j)' => ~Waits(j)'
    BY <1>1, <1>3 DEF AccountInv
<1>5. /\ phase' \notin {"members", "error"} => next' = Len(members') + 1
      /\ phase' \in {"times", "ok", "strict"} => hardLinks' = <<>>
    BY <1>2, <1>3 DEF AccountInv
<1> QED
    BY <1>4, <1>5 DEF AccountInv

LEMMA AccountInit == Init => AccountInv
<1> SUFFICES ASSUME Init PROVE AccountInv
    OBVIOUS
<1>1. DOMAIN members \subseteq Nat \ {0}
    BY ScenariosAssumption DEF Init, members
<1>2. /\ next = 1 /\ written = {} /\ declined = {} /\ hardLinks = <<>> /\ phase = "members"
      /\ DOMAIN hardLinks = {}
    BY DEF Init
<1>3. \A j \in DOMAIN members : ~(j < next)
    BY <1>1, <1>2
<1> QED
    BY <1>2, <1>3 DEF AccountInv, Told, Waits

LEMMA AccountNext == ExtractInv /\ AccountInv /\ [Next]_vars => AccountInv'
<1> SUFFICES ASSUME ExtractInv, AccountInv, [Next]_vars PROVE AccountInv'
    OBVIOUS
<1>1. CASE SkipMember
    <2>1. Turn /\ Advance /\ hardLinks' = hardLinks /\ UNCHANGED reportVars
        BY <1>1 DEF SkipMember, deferredVars
    <2>2. ~Selected(next)
        BY <1>1, DestAssumption DEF SkipMember, Selected, Entry, Target, M
    <2> QED
        BY <2>1, <2>2, TurnAccounts
<1>2. CASE \/ DeclineCollision \/ DeclineName \/ DeclineSpecial \/ DropPartial
           \/ DeclineSymlink \/ DeclineStripped
    <2>1. /\ Turn /\ Advance /\ hardLinks' = hardLinks
          /\ \E kind \in LossKinds : Decline(kind)
        BY <1>2 DEF DeclineCollision, DeclineName, DeclineSpecial, DropPartial,
           DeclineSymlink, DeclineStripped, LossKinds, Extracting, Reached, deferredVars
    <2> QED
        BY <2>1, TurnAccounts
<1>3. CASE ExtractDir \/ ExtractFile \/ ExtractSymlink
    <2>1. Turn /\ Advance /\ hardLinks' = hardLinks
        BY <1>3 DEF ExtractDir, ExtractFile, ExtractSymlink, Extracting, Reached, deferredVars
    <2>2. \E losses \in SUBSET Losses : Written(losses)
        <3>1. CASE ExtractDir
            BY <3>1, RefusalsTyped DEF ExtractDir
        <3>2. CASE ExtractFile
            BY <3>2, RefusalsTyped DEF ExtractFile
        <3>3. CASE ExtractSymlink
            BY <3>3 DEF ExtractSymlink, Losses
        <3> QED
            BY <1>3, <3>1, <3>2, <3>3
    <2> QED
        BY <2>1, <2>2, TurnAccounts
<1>4. CASE \/ RefusePath \/ AbortOnBadData \/ AbortOnConflict \/ MembersDone
           \/ LinksDone \/ Finish \/ IoFails \/ StampDir \/ UNCHANGED vars
    <2>1. /\ UNCHANGED <<scenario, next, written, declined, hardLinks>>
          /\ \/ phase' = phase
             \/ phase' = "error"
             \/ phase = "members" /\ next > Len(members) /\ phase' = "links"
             \/ phase = "links" /\ hardLinks = <<>> /\ phase' = "times"
             \/ phase = "times" /\ phase' \in {"ok", "strict"}
        BY <1>4 DEF RefusePath, AbortOnBadData, AbortOnConflict, Abort, MembersDone,
           LinksDone, Finish, IoFails, StampDir, vars, reportVars, deferredVars
    <2> QED
        BY <2>1, SilentAccounts
<1> QED
    BY <1>1, <1>2, <1>3, <1>4, DeferAccounts, LinkAccounts DEF Next, Step, Ended

(* When extraction ends, every selected member has been counted as written or
   declined once, and none both. *)
THEOREM AccountedTheorem == Spec => []Accounted
<1>1. ExtractInv /\ AccountInv => Accounted
    <2> SUFFICES ASSUME ExtractInv, AccountInv, Finished, NEW j \in DOMAIN members, Selected(j)
                 PROVE  IF j \in written
                        THEN \A d \in declined : d.member # j
                        ELSE Cardinality({d \in declined : d.member = j}) = 1
        BY DEF Accounted
    <2>1. hardLinks = <<>> /\ next = Len(members) + 1
        BY DEF AccountInv, Finished
    <2>2. j < next
        <3>1. members \in Seq(ArchiveMembers)
            BY ScenariosAssumption, InvParts DEF members
        <3> QED
            BY <2>1, <3>1
    <2>3. ~Waits(j)
        BY <2>1 DEF Waits
    <2>4. (j \in written \/ Told(j)) /\ (j \in written => ~Told(j))
        BY <2>2, <2>3 DEF AccountInv
    <2>5. ASSUME j \notin written
          PROVE  Cardinality({d \in declined : d.member = j}) = 1
        <3>1. PICK d \in declined : d.member = j
            BY <2>4, <2>5 DEF Told
        <3>2. {c \in declined : c.member = j} = {d}
            BY <3>1 DEF AccountInv
        <3> QED
            BY <3>2, FS_Singleton
    <2> QED
        BY <2>4, <2>5 DEF Told
<1> QED
    BY <1>1, ExtractInit, ExtractNext, AccountInit, AccountNext, PTL DEF Spec
-----------------------------------------------------------------------------
(* What a turn of the first loop does to the directory. *)

(* No two entries are one inode, as where nothing has been linked. *)
OneEach(f) == \A a, b \in Entries : Exists(f, a) /\ f.dir[a] = f.dir[b] => a = b

(* The entries that were there are there, but perhaps the one of a set. *)
Kept(f, g, gone) ==
    /\ g \in FileSystems
    /\ OneEach(f) => OneEach(g)
    /\ \A e \in Entries \ gone : Exists(f, e) => g.dir[e] = f.dir[e]

LEMMA KeptTwice ==
    ASSUME NEW f, NEW g, NEW h, NEW gone, Kept(f, g, gone), Kept(g, h, gone)
    PROVE  Kept(f, h, gone)
BY DEF Kept, Exists

LEMMA KeptMore ==
    ASSUME NEW f, NEW g, NEW gone, Kept(f, g, {})
    PROVE  Kept(f, g, gone)
BY DEF Kept

LEMMA KeptSame ==
    ASSUME NEW f, NEW g \in FileSystems, NEW gone, g.dir = f.dir
    PROVE  Kept(f, g, gone)
BY DEF Kept, OneEach, Exists

(* The parts of a file system that is changed. *)
LEMMA TouchDir ==
    ASSUME NEW f \in FileSystems, NEW e
    PROVE  Touch(f, e) \in FileSystems /\ Touch(f, e).dir = f.dir
<1>1. \A v : [f EXCEPT !.node[v].mtime = Now].dir = f.dir
    BY DEF FileSystems
<1> QED
    BY <1>1, TouchTyped DEF Touch

EntrySet(f, g, e, i) ==
    /\ g \in FileSystems
    /\ \A x \in Entries : g.dir[x] = IF x = e THEN i ELSE f.dir[x]

LEMMA PutDir ==
    ASSUME NEW f \in FileSystems, NEW e, NEW i \in Inodes, NEW n \in Nodes
    PROVE  EntrySet(f, Put(f, e, i, n), e, i)
<1> DEFINE g == [f EXCEPT !.dir[e] = i]
           h == [f EXCEPT !.dir[e] = i, !.node[i] = n]
<1>1. g \in FileSystems
    BY EntryChanged
<1>2. [g EXCEPT !.node[i] = n] \in FileSystems
    BY <1>1, NodeChanged
<1>3. h = [g EXCEPT !.node[i] = n] /\ h.dir = [f.dir EXCEPT ![e] = i]
    BY DEF FileSystems
<1>4. h \in FileSystems /\ Put(f, e, i, n) = Touch(h, e)
    BY <1>2, <1>3 DEF Put
<1>5. f.dir \in [Entries -> Inodes \cup {Absent}]
    BY DEF FileSystems
<1> HIDE DEF g, h
<1>6. \A x \in Entries : h.dir[x] = IF x = e THEN i ELSE f.dir[x]
    BY <1>3, <1>5
<1> QED
    BY <1>4, <1>6, TouchDir DEF EntrySet

LEMMA FreeNumbers ==
    ASSUME NEW f, NEW i \in Numbers(f)
    PROVE  i \in Inodes /\ \A e \in Entries : f.dir[e] # i
BY DEF Numbers

(* A new entry takes an inode of its own. *)
LEMMA KeptPut ==
    ASSUME NEW f \in FileSystems, NEW e, e \in Entries => ~Exists(f, e),
           NEW i \in Numbers(f), NEW n \in Nodes
    PROVE  Kept(f, Put(f, e, i, n), {})
<1> DEFINE g == Put(f, e, i, n)
<1>1. i \in Inodes /\ \A x \in Entries : f.dir[x] # i
    BY FreeNumbers
<1>2. EntrySet(f, g, e, i)
    BY <1>1, PutDir
<1> HIDE DEF g
<1>3. Kept(f, g, {})
    BY <1>1, <1>2 DEF EntrySet, Kept, OneEach, Exists
<1> QED
    BY <1>3 DEF g

LEMMA KeptWithout ==
    ASSUME NEW f \in FileSystems, NEW e
    PROVE  Kept(f, Without(f, e), {e})
<1> DEFINE g == [f EXCEPT !.dir[e] = Absent]
<1>1. g \in FileSystems /\ g.dir = [f.dir EXCEPT ![e] = Absent]
    BY EntryChanged DEF FileSystems
<1>2. f.dir \in [Entries -> Inodes \cup {Absent}]
    BY DEF FileSystems
<1> HIDE DEF g
<1>3. \A x \in Entries : g.dir[x] = IF x = e THEN Absent ELSE f.dir[x]
    BY <1>1, <1>2
<1>4. Touch(g, e) \in FileSystems /\ Touch(g, e).dir = g.dir
    BY <1>1, TouchDir
<1>5. Without(f, e) = Touch(g, e) \/ Without(f, e) = f
    BY DEF Without, g
<1>6. Kept(f, Touch(g, e), {e})
    BY <1>3, <1>4 DEF Kept, OneEach, Exists
<1> QED
    BY <1>5, <1>6, KeptSame

(* File::create, wherever the entry leads. *)
LEMMA KeptCreated ==
    ASSUME NEW f \in FileSystems, NEW e, NEW c \in Nat, NEW g \in Created(f, e, c)
    PROVE  Kept(f, g, {})
<1> DEFINE x == Leads(f, e)
           v == f.dir[x]
           n == [[f.node[v] EXCEPT !.content = c] EXCEPT !.mtime = Now]
<1>1. g \in FileSystems
    BY CreatedTyped
<1>2. CASE Exists(f, x)
    <2>1. g = [f EXCEPT !.node[v].content = c, !.node[v].mtime = Now]
        BY <1>2 DEF Created
    <2>2. g.dir = f.dir
        BY <2>1 DEF FileSystems
    <2> QED
        BY <1>1, <2>2, KeptSame
<1>3. CASE ~Exists(f, x)
    <2>1. PICK i \in Numbers(f) : g = Put(f, x, i, FileNode(c))
        BY <1>3 DEF Created
    <2>2. FileNode(c) \in Nodes
        BY NodeTyped
    <2> HIDE DEF x
    <2> QED
        BY <1>3, <2>1, <2>2, KeptPut
<1> QED
    BY <1>2, <1>3

LEMMA KeptParent ==
    ASSUME fs \in FileSystems, NEW f \in ParentMade
    PROVE  Kept(fs, f, {})
<1>1. CASE f = fs
    BY <1>1, KeptSame
<1>2. CASE f # fs
    <2> DEFINE above == Parent[Target]
    <2>1. ~Exists(fs, above) /\ \E i \in Numbers(fs) : f = Put(fs, above, i, DirNode)
        BY <1>2 DEF ParentMade
    <2>2. PICK i \in Numbers(fs) : f = Put(fs, above, i, DirNode)
        BY <2>1
    <2>3. DirNode \in Nodes
        BY NodeTyped
    <2> HIDE DEF above
    <2> QED
        BY <2>1, <2>2, <2>3, KeptPut
<1> QED
    BY <1>1, <1>2

LEMMA KeptAttributed ==
    ASSUME NEW f \in FileSystems, next \in Nat, M.mode \in Modes
    PROVE  Kept(f, Attributed(f), {})
<1>1. Attributed(f).dir = f.dir
    BY DEF Attributed, FileSystems
<1> QED
    BY <1>1, AttributedTyped, KeptSame

(* The turns that remove an entry: that of the member. *)
Removes == DropPartial \/ ExtractSymlink \/ DeclineSymlink

LEMMA TurnKept ==
    ASSUME ExtractInv,
           \/ SkipMember \/ DeclineCollision \/ DeclineName \/ DeclineSpecial
           \/ DeclineStripped \/ DeferHardLink \/ ExtractDir \/ ExtractFile
    PROVE  Kept(fs, fs', {})
<1>1. Turn
    BY DEF SkipMember, DeclineCollision, DeclineName, DeclineSpecial, DeclineStripped,
           DeferHardLink, ExtractDir, ExtractFile, Extracting, Reached
<1>2. /\ fs \in FileSystems /\ next \in Nat /\ M.mode \in Modes
      /\ Dest[M.link] \in Entries \cup {Absent, Skipped, Refused}
    BY <1>1, InvParts, TurnFacts
<1>3. \A f \in ParentMade : f \in FileSystems /\ Kept(fs, f, {})
    BY <1>2, KeptParent, ParentMadeTyped
<1>4. CASE SkipMember \/ DeclineCollision
    <2>1. fs' = fs
        BY <1>4 DEF SkipMember, DeclineCollision
    <2> QED
        BY <1>2, <2>1, KeptSame
<1>5. CASE DeclineName \/ DeclineSpecial \/ DeclineStripped \/ DeferHardLink
    <2>1. fs' = fs \/ fs' \in ParentMade
        BY <1>5 DEF DeclineName, DeclineSpecial, DeclineStripped, DeferHardLink
    <2> QED
        BY <1>2, <1>3, <2>1, KeptSame
<1>6. CASE ExtractDir
    <2>1. PICK f \in ParentMade :
            \E g \in IF IsDir(f, Target) THEN {f}
                     ELSE {Put(f, Target, i, DirNode) : i \in Numbers(f)} :
               /\ IsDir(f, Target) \/ (~Exists(f, Target) /\ Writable(f, Target))
               /\ fs' = Attributed(g)
        BY <1>6 DEF ExtractDir
    <2>2. PICK g \in IF IsDir(f, Target) THEN {f}
                     ELSE {Put(f, Target, i, DirNode) : i \in Numbers(f)} :
               /\ IsDir(f, Target) \/ (~Exists(f, Target) /\ Writable(f, Target))
               /\ fs' = Attributed(g)
        BY <2>1
    <2>3. f \in FileSystems /\ Kept(fs, f, {})
        BY <1>3, <2>1
    <2>4. Kept(f, g, {})
        <3>1. CASE IsDir(f, Target)
            BY <2>2, <2>3, <3>1, KeptSame
        <3>2. CASE ~IsDir(f, Target)
            <4>1. PICK i \in Numbers(f) : g = Put(f, Target, i, DirNode)
                BY <2>2, <3>2
            <4>2. ~Exists(f, Target) /\ DirNode \in Nodes
                BY <2>2, <3>2, NodeTyped
            <4> QED
                BY <2>3, <4>1, <4>2, KeptPut
        <3> QED
            BY <3>1, <3>2
    <2>5. g \in FileSystems
        BY <2>4 DEF Kept
    <2>6. Kept(g, fs', {})
        BY <1>2, <2>2, <2>5, KeptAttributed
    <2> QED
        BY <2>3, <2>4, <2>6, KeptTwice
<1>7. CASE ExtractFile
    <2>1. PICK f \in ParentMade : \E g \in Created(f, Target, next) : fs' = Attributed(g)
        BY <1>7 DEF ExtractFile
    <2>2. PICK g \in Created(f, Target, next) : fs' = Attributed(g)
        BY <2>1
    <2>3. f \in FileSystems /\ Kept(fs, f, {})
        BY <1>3, <2>1
    <2>4. Kept(f, g, {})
        BY <1>2, <2>2, <2>3, KeptCreated
    <2>5. g \in FileSystems
        BY <2>4 DEF Kept
    <2>6. Kept(g, fs', {})
        BY <1>2, <2>2, <2>5, KeptAttributed
    <2> QED
        BY <2>3, <2>4, <2>6, KeptTwice
<1> QED
    BY <1>4, <1>5, <1>6, <1>7

LEMMA RemovesKept ==
    ASSUME ExtractInv, Removes
    PROVE  Kept(fs, fs', {Target})
<1>1. Turn
    BY DEF Removes, DropPartial, ExtractSymlink, DeclineSymlink, Extracting, Reached
<1>2. /\ fs \in FileSystems /\ next \in Nat /\ M.mode \in Modes
      /\ Dest[M.link] \in Entries \cup {Absent, Skipped, Refused}
    BY <1>1, InvParts, TurnFacts
<1>3. \A f \in ParentMade : f \in FileSystems /\ Kept(fs, f, {})
    BY <1>2, KeptParent, ParentMadeTyped
<1>4. CASE DropPartial
    <2>1. PICK h \in PartialFiles : fs' = Without(h, Target)
        BY <1>4 DEF DropPartial
    <2>2. PICK f \in ParentMade : h \in Created(f, Target, Garbage)
        BY <2>1 DEF PartialFiles
    <2>3. f \in FileSystems /\ Kept(fs, f, {}) /\ Garbage \in Nat
        BY <1>3, <2>2 DEF Garbage
    <2>4. Kept(f, h, {})
        BY <2>2, <2>3, KeptCreated
    <2>5. h \in FileSystems /\ Kept(h, fs', {Target})
        BY <2>1, <2>4, KeptWithout DEF Kept
    <2> QED
        BY <2>3, <2>4, <2>5, KeptTwice, KeptMore
<1>5. CASE ExtractSymlink
    <2> DEFINE stamp == IF RestoreMtime THEN {"Mtime"} ELSE {}
               mtime == IF stamp \ scenario.host = {} THEN Now ELSE next
               n == [LinkNode(Dest[M.link]) EXCEPT !.mtime = mtime]
    <2>1. PICK f \in {Without(g, Target) : g \in ParentMade} :
            CanSymlink(f) /\ \E i \in Numbers(f) : fs' = Put(f, Target, i, n)
        BY <1>5 DEF ExtractSymlink
    <2>2. PICK g \in ParentMade : f = Without(g, Target)
        BY <2>1
    <2>3. PICK i \in Numbers(f) : fs' = Put(f, Target, i, n)
        BY <2>1
    <2>4. n \in Nodes
        <3>1. LinkNode(Dest[M.link]) \in Nodes /\ mtime \in Nat
            BY <1>2, NodeTyped DEF Now
        <3> QED
            BY <3>1 DEF Nodes
    <2> HIDE DEF n
    <2>5. g \in FileSystems /\ Kept(fs, g, {Target})
        BY <1>3, <2>2, KeptMore
    <2>6. f \in FileSystems /\ Kept(g, f, {Target})
        BY <2>2, <2>5, KeptWithout, WithoutTyped
    <2>7. ~Exists(f, Target)
        BY <2>1 DEF CanSymlink
    <2>8. Kept(f, fs', {})
        BY <2>3, <2>4, <2>6, <2>7, KeptPut
    <2> QED
        BY <2>5, <2>6, <2>8, KeptTwice, KeptMore
<1>6. CASE DeclineSymlink
    <2>1. PICK g \in ParentMade : fs' = Without(g, Target)
        BY <1>6 DEF DeclineSymlink
    <2>2. g \in FileSystems /\ Kept(fs, g, {Target})
        BY <1>3, <2>1, KeptMore
    <2>3. Kept(g, fs', {Target})
        BY <2>1, <2>2, KeptWithout
    <2> QED
        BY <2>2, <2>3, KeptTwice
<1> QED
    BY <1>4, <1>5, <1>6 DEF Removes

-----------------------------------------------------------------------------
(* A member declined for its name met another member there. *)

Kind(j) == members[j].kind

(* No entry is removed that has been recorded: after a file or a symbolic link
   of a path comes no symbolic link of that path, nor, where the partial file of
   a bad member is removed, a file. *)
NoneGivesWay == \A j \in DOMAIN members : \A i \in 1 .. j - 1 :
    /\ members[i].path = members[j].path
    /\ Kind(i) \in {"File", "Symlink"}
    => Kind(j) # "Symlink" /\ (Kind(j) = "File" => ~SkipBad)

(* A recorded inode is still that of the member it was recorded for. *)
RecordedBy(k, i) ==
    /\ k < next /\ Selected(k) /\ Kind(k) \in {"File", "Symlink"}
    /\ members[k].path = byInode[i] /\ fs.dir[Entry(k)] = i
RecordsTrue ==
    /\ OneEach(fs)
    /\ \A i \in Inodes : byInode[i] # Skipped => \E k \in written : RecordedBy(k, i)

CollisionInv == CollisionIsReal /\ (phase = "members" => RecordsTrue)

(* Only a member that is declined for its name needs an argument. *)
LEMMA CollisionStays ==
    ASSUME CollisionIsReal, scenario' = scenario, written \subseteq written',
           \A d \in declined' : d \in declined \/ d.kind # "NameCollision"
    PROVE  CollisionIsReal'
BY DEF CollisionIsReal, members, Entry

LEMMA MembersKnown ==
    ASSUME ExtractInv
    PROVE  /\ members \in Seq(ArchiveMembers) /\ DOMAIN members = 1 .. Len(members)
           /\ Len(members) \in Nat /\ written \subseteq DOMAIN members
           /\ \A j \in DOMAIN members : members[j] \in ArchiveMembers
<1>1. members \in Seq(ArchiveMembers) /\ written \subseteq DOMAIN members
    BY ScenariosAssumption, InvParts DEF members, ReportTyped
<1> QED
    BY <1>1

(* The records stay true when no recorded entry goes. *)
LEMMA RecordsKept ==
    ASSUME ExtractInv, RecordsTrue, NEW gone, Kept(fs, fs', gone), Advance,
           written \subseteq written', byInode' = byInode,
           \A e \in gone \cap Entries : Exists(fs, e) => byInode[fs.dir[e]] = Skipped
    PROVE  RecordsTrue'
<1>1. next' = next + 1 /\ members' = members /\ next \in Nat /\ OneEach(fs')
    BY InvParts DEF Advance, members, Kept, RecordsTrue
<1>2. written \subseteq DOMAIN members /\ DOMAIN members \subseteq Nat
    BY MembersKnown
<1>3. ASSUME NEW i \in Inodes, byInode[i] # Skipped
      PROVE  \E k \in written' : RecordedBy(k, i)'
    <2>1. PICK k \in written : RecordedBy(k, i)
        BY <1>3 DEF RecordsTrue
    <2>2. Exists(fs, Entry(k)) /\ Entry(k) \in Entries /\ fs.dir[Entry(k)] = i
        BY <1>3, <2>1 DEF RecordedBy, Exists, Inodes, Absent, Selected
    <2>3. Entry(k) \notin gone
        BY <1>3, <2>2
    <2>4. fs'.dir[Entry(k)] = i
        BY <2>2, <2>3 DEF Kept
    <2> QED
        BY <1>1, <1>2, <2>1, <2>4 DEF RecordedBy, Selected, Entry, Kind
<1> QED
    BY <1>1, <1>3 DEF RecordsTrue

(* The entry of the member at hand is not recorded, if it is to be removed. *)
LEMMA RemovedUnrecorded ==
    ASSUME ExtractInv, RecordsTrue, NoneGivesWay, Removes, Exists(fs, Target)
    PROVE  byInode[fs.dir[Target]] = Skipped
<1>1. /\ Turn /\ Target \in Entries /\ ~Collides
      /\ M.kind = "Symlink" \/ (M.kind = "File" /\ SkipBad)
    BY DEF Removes, DropPartial, ExtractSymlink, DeclineSymlink, Extracting, Reached
<1>2. next \in DOMAIN members /\ next \in Nat /\ fs \in FileSystems
    BY <1>1, TurnFacts, InvParts
<1> DEFINE i == fs.dir[Target]
<1>3. i \in Inodes
    BY <1>1, <1>2 DEF FileSystems, Exists
<1>4. ASSUME byInode[i] # Skipped PROVE FALSE
    <2>1. PICK k \in written : RecordedBy(k, i)
        BY <1>3, <1>4 DEF RecordsTrue
    <2>2. byInode[i] = M.path
        BY <1>1, <1>4 DEF Collides
    <2>3. k \in 1 .. next - 1
        BY <1>2, <2>1, MembersKnown DEF RecordedBy
    <2>4. members[k].path = members[next].path /\ Kind(k) \in {"File", "Symlink"}
        BY <2>1, <2>2 DEF RecordedBy, M
    <2> QED
        BY <1>1, <1>2, <2>3, <2>4 DEF NoneGivesWay, Kind, M
<1> QED
    BY <1>4

(* The member that is written is recorded. *)
LEMMA RecordsMore ==
    ASSUME ExtractInv, RecordsTrue, NoneGivesWay, ExtractFile \/ ExtractSymlink
    PROVE  RecordsTrue'
<1>1. /\ Turn /\ Advance /\ Record /\ Target \in Entries
      /\ M.kind \in {"File", "Symlink"}
    BY DEF ExtractFile, ExtractSymlink, Extracting, Reached
<1>2. /\ next' = next + 1 /\ members' = members /\ next \in Nat /\ next \in DOMAIN members
      /\ fs \in FileSystems /\ byInode \in [Inodes -> Paths \cup {Skipped}]
    BY <1>1, TurnFacts, InvParts DEF Advance, members
<1>3. written' = written \cup {next}
    BY DEF ExtractFile, ExtractSymlink, Written
<1>4. /\ ExtractFile => Kept(fs, fs', {})
      /\ ExtractSymlink => Kept(fs, fs', {Target})
    BY TurnKept, RemovesKept DEF Removes
<1>5. OneEach(fs')
    BY <1>4 DEF Kept, RecordsTrue
<1>6. ASSUME NEW i \in Inodes, byInode'[i] # Skipped
      PROVE  \E k \in written' : RecordedBy(k, i)'
    <2>1. CASE fs'.dir[Target] = i
        <3>1. byInode'[i] = M.path
            BY <1>1, <1>2, <2>1 DEF Record
        <3>2. PICK k : k = next
            OBVIOUS
        <3>3. Entry(k) = Target /\ members[k] = M
            BY <3>2 DEF Entry, Target, M
        <3>4. RecordedBy(k, i)'
            BY <1>1, <1>2, <2>1, <3>1, <3>2, <3>3 DEF RecordedBy, Selected, Entry, Kind
        <3> QED
            BY <1>3, <3>2, <3>4
    <2>2. CASE fs'.dir[Target] # i
        <3>1. byInode'[i] = byInode[i]
            BY <1>1, <1>2, <2>2 DEF Record
        <3>2. PICK k \in written : RecordedBy(k, i)
            BY <1>6, <3>1 DEF RecordsTrue
        <3>3. Exists(fs, Entry(k)) /\ Entry(k) \in Entries /\ fs.dir[Entry(k)] = i
            BY <3>2 DEF RecordedBy, Exists, Inodes, Absent, Selected
        <3>4. fs'.dir[Entry(k)] = i
            <4>1. CASE ExtractFile
                BY <1>4, <3>3, <4>1 DEF Kept
            <4>2. CASE ExtractSymlink
                <5>1. Entry(k) # Target
                    BY <1>6, <3>1, <3>3, <4>2, RemovedUnrecorded DEF Removes
                <5> QED
                    BY <1>4, <3>3, <5>1 DEF Kept
            <4> QED
                BY <4>1, <4>2
        <3>5. k \in Nat
            BY MembersKnown
        <3>6. RecordedBy(k, i)'
            BY <1>2, <3>1, <3>2, <3>4, <3>5 DEF RecordedBy, Selected, Entry, Kind
        <3> QED
            BY <1>3, <3>6
    <2> QED
        BY <2>1, <2>2
<1> QED
    BY <1>5, <1>6 DEF RecordsTrue

(* A collision is noticed by an inode that was recorded. *)
LEMMA CollisionTurn ==
    ASSUME ExtractInv, CollisionInv, DeclineCollision
    PROVE  CollisionIsReal'
<1>1. /\ Turn /\ Target \in Entries /\ Collides /\ Decline("NameCollision")
      /\ scenario' = scenario /\ members' = members
    BY DEF DeclineCollision, Advance, members
<1>2. RecordsTrue /\ fs \in FileSystems /\ next \in Nat
    BY <1>1, InvParts, TurnFacts DEF CollisionInv, Turn
<1> DEFINE i == fs.dir[Target]
<1>3. i \in Inodes /\ byInode[i] \notin {Skipped, M.path}
    BY <1>1, <1>2 DEF Collides, FileSystems, Exists
<1>4. PICK k \in written : RecordedBy(k, i)
    BY <1>2, <1>3 DEF RecordsTrue
<1>5. k \in 1 .. next - 1
    BY <1>2, <1>4, MembersKnown DEF RecordedBy
<1>6. Entry(k) = Target
    <2>1. Entry(k) \in Entries /\ fs.dir[Entry(k)] = i /\ Exists(fs, Entry(k))
        BY <1>3, <1>4 DEF RecordedBy, Selected, Exists, Inodes, Absent
    <2> QED
        BY <1>1, <1>2, <2>1 DEF RecordsTrue, OneEach
<1>7. members[k].path # members[next].path /\ Entry(next) = Target
    BY <1>3, <1>4 DEF RecordedBy, Entry, Target, M
<1> QED
    BY <1>1, <1>4, <1>5, <1>6, <1>7 DEF CollisionInv, CollisionIsReal, Decline, Entry

(* No step changes the archive, or what it met. *)
LEMMA ScenarioStays == [Next]_vars => scenario' = scenario
BY DEF Next, Step, SkipMember, RefusePath, DeclineCollision, DeclineName, DeclineSpecial,
       ExtractDir, ExtractFile, DropPartial, AbortOnBadData, AbortOnConflict,
       ExtractSymlink, DeclineSymlink, DeferHardLink, DeclineStripped, MembersDone,
       MakeHardLink, DeclineHardLink, LinksDone, StampDir, Finish, IoFails, Ended,
       Advance, Abort, vars

(* The steps that are no turn of the first loop: they end it or come after. *)
Stops == \/ RefusePath \/ AbortOnBadData \/ AbortOnConflict \/ MembersDone
         \/ MakeHardLink \/ DeclineHardLink \/ LinksDone \/ StampDir \/ Finish \/ IoFails

LEMMA CollisionNext ==
    ASSUME ExtractInv, CollisionInv, NoneGivesWay, [Next]_vars
    PROVE  CollisionInv'
<1>1. scenario' = scenario /\ CollisionIsReal
    BY ScenarioStays DEF CollisionInv
<1>2. CASE UNCHANGED vars
    BY <1>2 DEF vars, reportVars, deferredVars, CollisionInv, CollisionIsReal, RecordsTrue,
                RecordedBy, members, Entry, Selected, Kind, OneEach, Exists
<1>3. CASE \/ SkipMember \/ DeclineName \/ DeclineSpecial \/ DeclineStripped
           \/ DeferHardLink \/ ExtractDir \/ DeclineCollision \/ DropPartial \/ DeclineSymlink
    <2>1. /\ Turn /\ Advance /\ written \subseteq written' /\ byInode' = byInode
          /\ DeclineCollision \/ \A d \in declined' : d \in declined \/ d.kind # "NameCollision"
        BY <1>3 DEF SkipMember, DeclineName, DeclineSpecial, DeclineStripped, DeferHardLink,
           ExtractDir, DeclineCollision, DropPartial, DeclineSymlink, Extracting, Reached,
           reportVars, Decline, Written
    <2>2. RecordsTrue
        BY <2>1 DEF CollisionInv, Turn
    <2>3. RecordsTrue'
        <3>1. CASE Removes
            <4>1. Exists(fs, Target) => byInode[fs.dir[Target]] = Skipped
                BY <2>2, <3>1, RemovedUnrecorded
            <4> QED
                BY <2>1, <2>2, <3>1, <4>1, RemovesKept, RecordsKept
        <3>2. CASE ~Removes
            <4>1. Kept(fs, fs', {})
                BY <1>3, <3>2, TurnKept DEF Removes
            <4> QED
                BY <2>1, <2>2, <4>1, RecordsKept
        <3> QED
            BY <3>1, <3>2
    <2>4. CollisionIsReal'
        BY <1>1, <2>1, CollisionTurn, CollisionStays
    <2> QED
        BY <2>3, <2>4 DEF CollisionInv
<1>4. CASE ExtractFile \/ ExtractSymlink
    <2>1. Turn /\ written \subseteq written' /\ declined' = declined
        BY <1>4 DEF ExtractFile, ExtractSymlink, Extracting, Reached, Written
    <2>2. RecordsTrue'
        BY <1>4, <2>1, RecordsMore DEF CollisionInv, Turn
    <2>3. CollisionIsReal'
        BY <1>1, <2>1, CollisionStays
    <2> QED
        BY <2>2, <2>3 DEF CollisionInv
<1>5. CASE Stops
    <2>1. phase' # "members"
        BY <1>5 DEF Stops, RefusePath, AbortOnBadData, AbortOnConflict, MembersDone,
           MakeHardLink, DeclineHardLink, LinksDone, StampDir, Finish, IoFails, Abort, LinkTurn
    <2>2. /\ written \subseteq written'
          /\ \A d \in declined' : d \in declined \/ d.kind # "NameCollision"
        <3>1. CASE MakeHardLink
            BY <3>1 DEF MakeHardLink
        <3>2. CASE DeclineHardLink
            BY <3>2 DEF DeclineHardLink
        <3>3. CASE ~(MakeHardLink \/ DeclineHardLink)
            BY <1>5, <3>3 DEF Stops, RefusePath, AbortOnBadData, AbortOnConflict,
               MembersDone, LinksDone, StampDir, Finish, IoFails, Abort, reportVars
        <3> QED
            BY <3>1, <3>2, <3>3
    <2> QED
        BY <1>1, <2>1, <2>2, CollisionStays DEF CollisionInv
<1> QED
    BY <1>2, <1>3, <1>4, <1>5 DEF Next, Step, Ended, Stops

(* A member declined for its name did meet the entry of a member of another name,
   that had been written there: in every archive that puts no symbolic link and
   no bad file in the place of an earlier member of its path, and where no two
   entries of the destination were one file beforehand. *)
THEOREM CollisionTheorem ==
    Spec => [](OneEach(scenario.prior) /\ NoneGivesWay => CollisionIsReal)
<1> DEFINE Fit == OneEach(scenario.prior) /\ NoneGivesWay
<1>1. Init => (Fit => CollisionInv)
    BY DEF Init, CollisionInv, CollisionIsReal, RecordsTrue
<1>2. ExtractInv /\ (Fit => CollisionInv) /\ [Next]_vars => (Fit => CollisionInv)'
    <2>1. ASSUME [Next]_vars PROVE Fit' => Fit
        BY <2>1, ScenarioStays DEF OneEach, Exists, NoneGivesWay, Kind, members
    <2> QED
        BY <2>1, CollisionNext
<1>3. (Fit => CollisionInv) => (Fit => CollisionIsReal)
    BY DEF CollisionInv
<1> QED
    BY <1>1, <1>2, <1>3, ExtractInit, ExtractNext, PTL DEF Spec
-----------------------------------------------------------------------------
(* What a turn does to the nodes. *)

NodeAt(f, e) == f.node[f.dir[e]]

(* A node as it was, but for the time of a directory. *)
SameNode(m, n) ==
    /\ n.is = m.is /\ n.content = m.content /\ n.to = m.to
    /\ n.mode = m.mode /\ n.xattrs = m.xattrs
    /\ m.is = "dir" \/ n.mtime = m.mtime

SameAt(f, g, e) ==
    /\ g.dir[e] = f.dir[e]
    /\ Exists(f, e) => SameNode(NodeAt(f, e), NodeAt(g, e))
OnlyAt(f, g, t) == \A e \in Entries \ {t} : SameAt(f, g, e)

(* The parent directory of entry t that was made for it. *)
NewDir(f, g, e, t) ==
    /\ e = Parent[t] /\ ~Exists(f, e)
    /\ IsA(g, e, "dir") /\ NodeAt(g, e).mode = "rw"
Turned(f, g, t) == \A e \in Entries \ {t} : SameAt(f, g, e) \/ NewDir(f, g, e, t)

(* An entry can be where t is. *)
ParentDir(f, t) == Parent[t] # Top => IsA(f, Parent[t], "dir")

LEMMA ParentIsOther ==
    ASSUME NEW e \in Entries
    PROVE  Parent[e] # e /\ Parent[e] \in Entries \cup {Top} /\ Top \notin Entries
BY ParentAssumption

LEMMA SameTwice ==
    ASSUME NEW f, NEW g, NEW h, NEW e, SameAt(f, g, e), SameAt(g, h, e)
    PROVE  SameAt(f, h, e)
BY DEF SameAt, SameNode, NodeAt, Exists

LEMMA OnlyTwice ==
    ASSUME NEW f, NEW g, NEW h, NEW t, OnlyAt(f, g, t), OnlyAt(g, h, t)
    PROVE  OnlyAt(f, h, t)
BY SameTwice DEF OnlyAt

LEMMA TurnedThen ==
    ASSUME NEW f, NEW g, NEW h, NEW t, Turned(f, g, t), OnlyAt(g, h, t)
    PROVE  Turned(f, h, t)
<1> SUFFICES ASSUME NEW e \in Entries \ {t} PROVE SameAt(f, h, e) \/ NewDir(f, h, e, t)
    BY DEF Turned
<1>1. SameAt(g, h, e)
    BY DEF OnlyAt
<1>2. CASE SameAt(f, g, e)
    BY <1>1, <1>2, SameTwice
<1>3. CASE NewDir(f, g, e, t)
    BY <1>1, <1>3 DEF NewDir, SameAt, SameNode, NodeAt, IsA, Exists
<1> QED
    BY <1>2, <1>3 DEF Turned

LEMMA ParentDirKept ==
    ASSUME NEW f, NEW g, NEW t \in Entries, ParentDir(f, t), OnlyAt(f, g, t)
    PROVE  ParentDir(g, t)
<1> SUFFICES ASSUME Parent[t] # Top PROVE IsA(g, Parent[t], "dir")
    BY DEF ParentDir
<1>1. Parent[t] \in Entries \ {t} /\ IsA(f, Parent[t], "dir")
    BY ParentIsOther DEF ParentDir
<1>2. SameAt(f, g, Parent[t])
    BY <1>1 DEF OnlyAt
<1> QED
    BY <1>1, <1>2 DEF SameAt, SameNode, IsA, Exists, NodeAt

LEMMA SameSelf == \A f, e : SameAt(f, f, e)
BY DEF SameAt, SameNode

LEMMA TurnedSelf == \A f, t : Turned(f, f, t)
BY SameSelf DEF Turned

(* Only the time of a directory is set when an entry is added or removed. *)
LEMMA TouchNodes ==
    ASSUME NEW f \in FileSystems, NEW e \in Entries,
           Parent[e] # Top => IsA(f, Parent[e], "dir"), NEW v \in Inodes
    PROVE  SameNode(f.node[v], Touch(f, e).node[v])
<1>1. f.node[v] \in Nodes /\ f.node \in [Inodes -> Nodes]
    BY DEF FileSystems
<1>2. CASE Parent[e] = Top
    BY <1>2 DEF Touch, SameNode
<1>3. CASE Parent[e] # Top
    <2> DEFINE u == f.dir[Parent[e]]
               m == [f.node[u] EXCEPT !.mtime = Now]
    <2>1. f.node[u].is = "dir"
        BY <1>3 DEF IsA
    <2>2. Touch(f, e).node = [f.node EXCEPT ![u] = m]
        BY <1>3 DEF Touch, FileSystems
    <2>3. CASE v = u
        <3>1. Touch(f, e).node[v] = [f.node[v] EXCEPT !.mtime = Now]
            BY <1>1, <2>2, <2>3
        <3> QED
            BY <1>1, <2>1, <2>3, <3>1 DEF SameNode, Nodes
    <2>4. CASE v # u
        <3>1. Touch(f, e).node[v] = f.node[v]
            BY <1>1, <2>2, <2>4
        <3> QED
            BY <3>1 DEF SameNode
    <2> QED
        BY <2>3, <2>4
<1> QED
    BY <1>2, <1>3

(* g is f with node n at entry e. *)
NodePut(f, g, e, n) ==
    g \in FileSystems /\ OnlyAt(f, g, e) /\ Exists(g, e) /\ SameNode(n, NodeAt(g, e))

LEMMA PutAt ==
    ASSUME NEW f \in FileSystems, NEW e \in Entries, NEW i \in Numbers(f), NEW n \in Nodes,
           Parent[e] # Top => IsA(f, Parent[e], "dir")
    PROVE  NodePut(f, Put(f, e, i, n), e, n)
<1> DEFINE h == [f EXCEPT !.dir[e] = i, !.node[i] = n]
           k == [f EXCEPT !.dir[e] = i]
           g == Put(f, e, i, n)
<1>1. i \in Inodes /\ \A x \in Entries : f.dir[x] # i
    BY FreeNumbers
<1>2. f.dir \in [Entries -> Inodes \cup {Absent}] /\ f.node \in [Inodes -> Nodes]
    BY DEF FileSystems
<1>3. h.dir = [f.dir EXCEPT ![e] = i] /\ h.node = [f.node EXCEPT ![i] = n]
    BY DEF FileSystems
<1>4. h \in FileSystems
    <2>1. k \in FileSystems
        BY <1>1, EntryChanged
    <2>2. [k EXCEPT !.node[i] = n] \in FileSystems
        BY <2>1, NodeChanged
    <2>3. h = [k EXCEPT !.node[i] = n]
        BY DEF FileSystems
    <2> QED
        BY <2>2, <2>3
<1>5. g = Touch(h, e)
    BY DEF Put
<1> HIDE DEF h, k, g
<1>6. /\ \A x \in Entries : h.dir[x] = IF x = e THEN i ELSE f.dir[x]
      /\ \A v \in Inodes : h.node[v] = IF v = i THEN n ELSE f.node[v]
    BY <1>1, <1>2, <1>3
<1>7. Parent[e] # Top => IsA(h, Parent[e], "dir")
    <2>1. ASSUME Parent[e] # Top PROVE IsA(h, Parent[e], "dir")
        <3>1. Parent[e] \in Entries /\ Parent[e] # e
            BY <2>1, ParentIsOther
        <3>2. f.dir[Parent[e]] \in Inodes
            BY <1>2, <2>1, <3>1 DEF IsA, Exists
        <3> QED
            BY <1>1, <1>6, <2>1, <3>1, <3>2 DEF IsA, Exists
    <2> QED
        BY <2>1
<1>8. g \in FileSystems /\ g.dir = h.dir
    BY <1>4, <1>5, TouchDir
<1>9. \A v \in Inodes : SameNode(h.node[v], g.node[v])
    BY <1>4, <1>5, <1>7, TouchNodes
<1>10. OnlyAt(f, g, e)
    <2> SUFFICES ASSUME NEW x \in Entries \ {e} PROVE SameAt(f, g, x)
        BY DEF OnlyAt
    <2>1. g.dir[x] = f.dir[x] /\ f.dir[x] # i
        BY <1>1, <1>6, <1>8
    <2>2. ASSUME Exists(f, x) PROVE SameNode(NodeAt(f, x), NodeAt(g, x))
        <3>1. f.dir[x] \in Inodes
            BY <1>2, <2>2 DEF Exists
        <3> QED
            BY <1>6, <1>9, <2>1, <3>1 DEF NodeAt
    <2> QED
        BY <2>1, <2>2 DEF SameAt
<1>11. g.dir[e] = i /\ SameNode(n, g.node[i])
    BY <1>1, <1>6, <1>8, <1>9
<1>12. NodePut(f, g, e, n)
    BY <1>1, <1>8, <1>10, <1>11 DEF NodePut, Exists, NodeAt, Inodes, Absent
<1> QED
    BY <1>12 DEF g

(* The node of one entry is changed, which no other entry has. *)
NodeSet(f, g, e, n) ==
    g \in FileSystems /\ g.dir = f.dir /\ OnlyAt(f, g, e) /\ NodeAt(g, e) = n

LEMMA NodeSetAt ==
    ASSUME NEW f \in FileSystems, OneEach(f), NEW e \in Entries, Exists(f, e), NEW n \in Nodes
    PROVE  NodeSet(f, [f EXCEPT !.node[f.dir[e]] = n], e, n)
<1> DEFINE v == f.dir[e]
           g == [f EXCEPT !.node[v] = n]
<1>1. f.dir \in [Entries -> Inodes \cup {Absent}] /\ f.node \in [Inodes -> Nodes]
    BY DEF FileSystems
<1>2. v \in Inodes
    BY <1>1 DEF Exists
<1>3. g.dir = f.dir /\ g.node = [f.node EXCEPT ![v] = n]
    BY DEF FileSystems
<1>4. g \in FileSystems
    BY NodeChanged
<1> HIDE DEF g
<1>5. OnlyAt(f, g, e)
    <2> SUFFICES ASSUME NEW x \in Entries \ {e} PROVE SameAt(f, g, x)
        BY DEF OnlyAt
    <2>1. ASSUME Exists(f, x) PROVE NodeAt(g, x) = NodeAt(f, x)
        <3>1. f.dir[x] # v /\ f.dir[x] \in Inodes
            BY <1>1, <2>1 DEF OneEach, Exists
        <3> QED
            BY <1>1, <1>3, <3>1 DEF NodeAt
    <2> QED
        BY <1>3, <2>1 DEF SameAt, SameNode
<1>6. NodeSet(f, g, e, n)
    BY <1>1, <1>2, <1>3, <1>4, <1>5 DEF NodeSet, NodeAt
<1> QED
    BY <1>6 DEF g

(* What is no symbolic link leads nowhere else. *)
LEMMA LeadsHere ==
    ASSUME NEW f, NEW e, ~IsA(f, e, "symlink")
    PROVE  Leads(f, e) = e
BY DEF Leads

(* remove_file, if it can. *)
Removed(f, g, e) ==
    /\ g \in FileSystems /\ OnlyAt(f, g, e)
    /\ Exists(g, e) => g = f /\ (IsA(f, e, "dir") \/ ~Writable(f, e))
    /\ IsA(f, e, "dir") => g = f

LEMMA WithoutAt ==
    ASSUME NEW f \in FileSystems, NEW e \in Entries
    PROVE  Removed(f, Without(f, e), e)
<1> DEFINE h == [f EXCEPT !.dir[e] = Absent]
           g == Without(f, e)
<1>1. f.dir \in [Entries -> Inodes \cup {Absent}] /\ f.node \in [Inodes -> Nodes]
    BY DEF FileSystems
<1>2. h \in FileSystems /\ h.dir = [f.dir EXCEPT ![e] = Absent] /\ h.node = f.node
    BY EntryChanged DEF FileSystems
<1>3. \/ g = Touch(h, e) /\ Writable(f, e) /\ ~IsA(f, e, "dir")
      \/ g = f /\ (~Exists(f, e) \/ IsA(f, e, "dir") \/ ~Writable(f, e))
    BY DEF Without
<1>4. g \in FileSystems
    BY WithoutTyped
<1> HIDE DEF h, g
<1>5. \A x \in Entries : h.dir[x] = IF x = e THEN Absent ELSE f.dir[x]
    BY <1>1, <1>2
<1>6. ASSUME g = f, ~Exists(f, e) \/ IsA(f, e, "dir") \/ ~Writable(f, e)
      PROVE  Removed(f, g, e)
    <2>1. OnlyAt(f, g, e)
        BY <1>6, SameSelf DEF OnlyAt
    <2> QED
        BY <1>4, <1>6, <2>1 DEF Removed
<1>7. ASSUME g = Touch(h, e), Writable(f, e), ~IsA(f, e, "dir")
      PROVE  Removed(f, g, e)
    <2>1. g.dir = h.dir
        BY <1>2, <1>7, TouchDir
    <2>2. Parent[e] # Top => IsA(h, Parent[e], "dir")
        <3>1. ASSUME Parent[e] # Top PROVE IsA(h, Parent[e], "dir")
            <4>1. IsA(f, Parent[e], "dir") /\ Parent[e] \in Entries /\ Parent[e] # e
                BY <1>7, <3>1, ParentIsOther DEF Writable
            <4>2. h.dir[Parent[e]] = f.dir[Parent[e]]
                BY <1>5, <4>1
            <4> QED
                BY <1>2, <4>1, <4>2 DEF IsA, Exists
        <3> QED
            BY <3>1
    <2>3. \A v \in Inodes : SameNode(h.node[v], g.node[v])
        BY <1>2, <1>7, <2>2, TouchNodes
    <2>4. \A x \in Entries \ {e} : SameAt(f, g, x)
        BY <1>1, <1>2, <1>5, <2>1, <2>3 DEF SameAt, NodeAt, Exists
    <2>5. ~Exists(g, e)
        BY <1>5, <2>1 DEF Exists
    <2> QED
        BY <1>4, <1>7, <2>4, <2>5 DEF Removed, OnlyAt
<1>8. Removed(f, g, e)
    BY <1>3, <1>6, <1>7
<1> QED
    BY <1>8 DEF g

(* File::create where no link is followed. *)
FileMade(f, g, e, c) ==
    /\ g \in FileSystems /\ OnlyAt(f, g, e) /\ IsA(g, e, "file")
    /\ NodeAt(g, e).content = c /\ NodeAt(g, e).mode = "rw"
    /\ Exists(f, e) \/ ParentDir(f, e)

LEMMA CreatedAt ==
    ASSUME NEW f \in FileSystems, OneEach(f), NEW e \in Entries, ~IsA(f, e, "symlink"),
           CanCreate(f, e), NEW c \in Nat, NEW g \in Created(f, e, c)
    PROVE  FileMade(f, g, e, c)
<1>1. Leads(f, e) = e
    BY LeadsHere
<1>2. CASE Exists(f, e)
    <2> DEFINE n == [NodeAt(f, e) EXCEPT !.content = c, !.mtime = Now]
    <2>1. IsA(f, e, "file") /\ NodeAt(f, e).mode = "rw"
        BY <1>1, <1>2 DEF CanCreate, NodeAt
    <2>2. f.dir[e] \in Inodes /\ f.node \in [Inodes -> Nodes]
        BY <1>2 DEF FileSystems, Exists
    <2>3. NodeAt(f, e) \in Nodes
        BY <2>2 DEF NodeAt
    <2>4. n \in Nodes /\ n.is = NodeAt(f, e).is /\ n.mode = NodeAt(f, e).mode /\ n.content = c
        BY <2>3 DEF Nodes, Now
    <2>5. g = [f EXCEPT !.node[f.dir[e]].content = c, !.node[f.dir[e]].mtime = Now]
        BY <1>1, <1>2 DEF Created
    <2>6. g = [f EXCEPT !.node[f.dir[e]] = n]
        BY <2>2, <2>5 DEF FileSystems, NodeAt
    <2> HIDE DEF n
    <2>7. NodeSet(f, g, e, n)
        BY <1>2, <2>4, <2>6, NodeSetAt
    <2> QED
        BY <1>2, <2>1, <2>4, <2>7 DEF NodeSet, FileMade, IsA, Exists, NodeAt
<1>3. CASE ~Exists(f, e)
    <2>1. PICK i \in Numbers(f) : g = Put(f, e, i, FileNode(c))
        BY <1>1, <1>3 DEF Created
    <2>2. FileNode(c) \in Nodes
        BY NodeTyped
    <2>3. Parent[e] # Top => IsA(f, Parent[e], "dir")
        BY <1>1, <1>3 DEF CanCreate, Writable
    <2>4. NodePut(f, g, e, FileNode(c))
        BY <2>1, <2>2, <2>3, PutAt
    <2> QED
        BY <2>3, <2>4 DEF NodePut, FileMade, FileNode, Node, SameNode, IsA, NodeAt, ParentDir
<1> QED
    BY <1>2, <1>3

(* create_dir_all of the parent. *)
ParentThere(f) ==
    f \in FileSystems /\ Turned(fs, f, Target) /\ SameAt(fs, f, Target)
    /\ (OneEach(fs) => OneEach(f))

LEMMA ParentAt ==
    ASSUME fs \in FileSystems, Target \in Entries, NEW f \in ParentMade
    PROVE  ParentThere(f)
<1>1. f \in FileSystems /\ (OneEach(fs) => OneEach(f))
    BY KeptParent DEF Kept
<1>2. CASE f = fs
    BY <1>1, <1>2, TurnedSelf, SameSelf DEF ParentThere
<1>3. CASE f # fs
    <2> DEFINE above == Parent[Target]
    <2>1. above # Top /\ ~Exists(fs, above) /\ \E i \in Numbers(fs) : f = Put(fs, above, i, DirNode)
        BY <1>3 DEF ParentMade
    <2>2. PICK i \in Numbers(fs) : f = Put(fs, above, i, DirNode)
        BY <2>1
    <2>3. above \in Entries /\ above # Target /\ Parent[above] = Top
        BY <2>1, ParentAssumption, ParentIsOther
    <2>4. DirNode \in Nodes
        BY NodeTyped
    <2>5. above = Parent[Target]
        OBVIOUS
    <2> HIDE DEF above
    <2>6. NodePut(fs, f, above, DirNode)
        BY <2>2, <2>3, <2>4, PutAt
    <2>7. NewDir(fs, f, above, Target)
        BY <2>1, <2>5, <2>6 DEF NodePut, NewDir, DirNode, Node, SameNode, IsA, NodeAt
    <2>8. \A e \in Entries : e # above => SameAt(fs, f, e)
        BY <2>6 DEF NodePut, OnlyAt
    <2> QED
        BY <1>1, <2>3, <2>7, <2>8 DEF Turned, ParentThere
<1> QED
    BY <1>2, <1>3

(* The member's attributes are set on its own node; what could not be set the
   host lacks, or the node was read-only. *)
Dressed(f, g) ==
    LET m == NodeAt(f, Target)
        n == NodeAt(g, Target)
    IN /\ g \in FileSystems /\ g.dir = f.dir /\ OnlyAt(f, g, Target)
       /\ n.is = m.is /\ n.content = m.content /\ n.to = m.to
       /\ n.xattrs = next \/ "Xattr" \in Refusals(f)
       /\ n.mode = M.mode \/ ("Mode" \in Refusals(f) /\ n.mode = m.mode)
       /\ n.mtime = next \/ ~RestoreMtime \/ M.kind = "Dir" \/ "Mtime" \in Refusals(f)
       /\ \A k \in Refusals(f) : k \in scenario.host \/ m.mode = "ro"

LEMMA AttributedAt ==
    ASSUME NEW f \in FileSystems, OneEach(f), Target \in Entries, Exists(f, Target),
           ~IsA(f, Target, "symlink"), next \in Nat, M.mode \in Modes
    PROVE  Dressed(f, Attributed(f))
<1> DEFINE m == NodeAt(f, Target)
           done == Tried \ Refusals(f)
           n == [m EXCEPT !.xattrs = IF "Xattr" \in done THEN next ELSE @,
                          !.mode = IF "Mode" \in done THEN M.mode ELSE @,
                          !.mtime = IF "Mtime" \in done THEN next ELSE @]
           g == Attributed(f)
<1>1. Leads(f, Target) = Target
    BY LeadsHere
<1>2. m \in Nodes
    BY DEF FileSystems, Exists, NodeAt
<1>3. g = [f EXCEPT !.node[f.dir[Target]] = n]
    BY <1>1 DEF Attributed, NodeAt
<1>4. n \in Nodes /\ n.is = m.is /\ n.content = m.content /\ n.to = m.to
    BY <1>2 DEF Nodes
<1>5. /\ n.xattrs = IF "Xattr" \in done THEN next ELSE m.xattrs
      /\ n.mode = IF "Mode" \in done THEN M.mode ELSE m.mode
      /\ n.mtime = IF "Mtime" \in done THEN next ELSE m.mtime
    BY <1>2 DEF Nodes
<1>6. \A k \in Refusals(f) : k \in scenario.host \/ m.mode = "ro"
    BY <1>1 DEF Refusals, Protected, NodeAt
<1>7. /\ "Xattr" \in Tried /\ "Mode" \in Tried
      /\ RestoreMtime /\ M.kind # "Dir" => "Mtime" \in Tried
    BY DEF Tried, TimesDeferred
<1> HIDE DEF n, m, g
<1>8. NodeSet(f, g, Target, n)
    BY <1>3, <1>4, NodeSetAt
<1>9. Dressed(f, g)
    BY <1>4, <1>5, <1>6, <1>7, <1>8 DEF NodeSet, Dressed, m
<1> QED
    BY <1>9 DEF g

(* A file or a directory is in its place as g, then the attributes are set. *)
Placed(g) ==
    /\ g \in FileSystems /\ Turned(fs, g, Target) /\ Dressed(g, fs')
    /\ Exists(fs, Target) \/ ParentDir(g, Target)
    /\ M.kind = "File" => /\ IsA(g, Target, "file")
                          /\ NodeAt(g, Target).content = next
                          /\ NodeAt(g, Target).mode = "rw"
                          /\ ~IsA(fs, Target, "dir")
    /\ M.kind = "Dir" => /\ IsA(g, Target, "dir")
                         /\ SameAt(fs, g, Target) \/ NodeAt(g, Target).mode = "rw"
                         /\ Exists(fs, Target) => SameAt(fs, g, Target)
    /\ Written(Refusals(g))

LEMMA FilePlaced ==
    ASSUME ExtractInv, OneEach(fs), ExtractFile, ~IsA(fs, Target, "symlink")
    PROVE  \E g : Placed(g)
<1>1. Turn /\ Target \in Entries /\ M.kind = "File"
    BY DEF ExtractFile, Extracting, Reached
<1>2. fs \in FileSystems /\ next \in Nat /\ M.mode \in Modes
    BY <1>1, InvParts, TurnFacts
<1>3. PICK f \in ParentMade : CanCreate(f, Target) /\ \E g \in Created(f, Target, next) :
                                fs' = Attributed(g) /\ Written(Refusals(g))
    BY DEF ExtractFile
<1>4. PICK g \in Created(f, Target, next) : fs' = Attributed(g) /\ Written(Refusals(g))
    BY <1>3
<1>5. ParentThere(f)
    BY <1>1, <1>2, ParentAt
<1>6. f \in FileSystems /\ OneEach(f) /\ ~IsA(f, Target, "symlink")
    BY <1>5 DEF ParentThere, SameAt, SameNode, IsA, Exists, NodeAt
<1>7. FileMade(f, g, Target, next)
    BY <1>1, <1>2, <1>3, <1>6, CreatedAt
<1>8. OneEach(g)
    BY <1>2, <1>6, KeptCreated DEF Kept
<1>9. Dressed(g, fs')
    BY <1>1, <1>2, <1>4, <1>7, <1>8, AttributedAt DEF FileMade, IsA
<1>10. Turned(fs, g, Target)
    BY <1>5, <1>7, TurnedThen DEF ParentThere, FileMade
<1>11. ~IsA(f, Target, "dir")
    BY <1>3, <1>6, LeadsHere DEF CanCreate, IsA
<1>12. ~IsA(fs, Target, "dir")
    BY <1>5, <1>11 DEF ParentThere, SameAt, SameNode, IsA, Exists, NodeAt
<1>13. Exists(fs, Target) \/ ParentDir(g, Target)
    BY <1>1, <1>5, <1>7, ParentDirKept DEF ParentThere, FileMade, SameAt, Exists
<1> QED
    BY <1>1, <1>4, <1>7, <1>9, <1>10, <1>12, <1>13 DEF Placed, FileMade

LEMMA DirPlaced ==
    ASSUME ExtractInv, OneEach(fs), ExtractDir, ~IsA(fs, Target, "symlink")
    PROVE  \E g : Placed(g)
<1>1. Turn /\ Target \in Entries /\ M.kind = "Dir"
    BY DEF ExtractDir, Extracting, Reached
<1>2. fs \in FileSystems /\ next \in Nat /\ M.mode \in Modes
    BY <1>1, InvParts, TurnFacts
<1>3. PICK f \in ParentMade :
          \E g \in IF IsDir(f, Target) THEN {f}
                   ELSE {Put(f, Target, i, DirNode) : i \in Numbers(f)} :
             /\ IsDir(f, Target) \/ (~Exists(f, Target) /\ Writable(f, Target))
             /\ fs' = Attributed(g)
             /\ Written(Refusals(g))
    BY DEF ExtractDir
<1>4. PICK g \in IF IsDir(f, Target) THEN {f}
                 ELSE {Put(f, Target, i, DirNode) : i \in Numbers(f)} :
             /\ IsDir(f, Target) \/ (~Exists(f, Target) /\ Writable(f, Target))
             /\ fs' = Attributed(g)
             /\ Written(Refusals(g))
    BY <1>3
<1>5. ParentThere(f)
    BY <1>1, <1>2, ParentAt
<1>6. /\ f \in FileSystems /\ OneEach(f) /\ ~IsA(f, Target, "symlink")
      /\ Turned(fs, f, Target) /\ SameAt(fs, f, Target)
    BY <1>5 DEF ParentThere, SameAt, SameNode, IsA, Exists, NodeAt
<1>7. Leads(f, Target) = Target
    BY <1>6, LeadsHere
<1>8. CASE IsDir(f, Target)
    <2>1. IsA(f, Target, "dir") /\ g = f
        BY <1>4, <1>7, <1>8 DEF IsDir
    <2>2. Dressed(g, fs')
        BY <1>1, <1>2, <1>4, <1>6, <2>1, AttributedAt DEF IsA
    <2> QED
        BY <1>1, <1>4, <1>6, <2>1, <2>2 DEF Placed, SameAt, IsA, Exists
<1>9. CASE ~IsDir(f, Target)
    <2>1. PICK i \in Numbers(f) : g = Put(f, Target, i, DirNode)
        BY <1>4, <1>9
    <2>2. DirNode \in Nodes
        BY NodeTyped
    <2>3. ~Exists(f, Target) /\ Writable(f, Target)
        BY <1>4, <1>9
    <2>4. NodePut(f, g, Target, DirNode)
        BY <1>1, <1>6, <2>1, <2>2, <2>3, PutAt DEF Writable
    <2>5. OneEach(g)
        BY <1>6, <2>1, <2>2, <2>3, KeptPut DEF Kept
    <2>6. /\ g \in FileSystems /\ OnlyAt(f, g, Target)
          /\ IsA(g, Target, "dir") /\ NodeAt(g, Target).mode = "rw"
        BY <2>4 DEF NodePut, DirNode, Node, SameNode, IsA, NodeAt
    <2>7. Dressed(g, fs')
        BY <1>1, <1>2, <1>4, <2>5, <2>6, AttributedAt DEF IsA
    <2>8. Turned(fs, g, Target)
        BY <1>6, <2>6, TurnedThen
    <2>9. ~Exists(fs, Target)
        BY <1>6, <2>3 DEF SameAt, Exists
    <2>10. ParentDir(g, Target)
        BY <1>1, <2>3, <2>6, ParentDirKept DEF Writable, ParentDir
    <2> QED
        BY <1>1, <1>4, <2>6, <2>7, <2>8, <2>9, <2>10 DEF Placed
<1> QED
    BY <1>8, <1>9

(* A symbolic link is in its place. *)
LinkPlaced ==
    /\ Turned(fs, fs', Target)
    /\ IsA(fs', Target, "symlink") /\ NodeAt(fs', Target).mode = "rw"
    /\ NodeAt(fs', Target).to = Dest[M.link]
    /\ ~IsA(fs, Target, "dir") /\ ParentDir(fs', Target)

LEMMA SymlinkPlaced ==
    ASSUME ExtractInv, ExtractSymlink
    PROVE  LinkPlaced
<1> DEFINE stamp == IF RestoreMtime THEN {"Mtime"} ELSE {}
           mtime == IF stamp \ scenario.host = {} THEN Now ELSE next
           n == [LinkNode(Dest[M.link]) EXCEPT !.mtime = mtime]
<1>1. Turn /\ Target \in Entries
    BY DEF ExtractSymlink, Extracting, Reached
<1>2. /\ fs \in FileSystems /\ next \in Nat
      /\ Dest[M.link] \in Entries \cup {Absent, Skipped, Refused}
    BY <1>1, InvParts, TurnFacts
<1>3. PICK f \in {Without(g, Target) : g \in ParentMade} :
            CanSymlink(f) /\ \E i \in Numbers(f) : fs' = Put(f, Target, i, n)
    BY DEF ExtractSymlink
<1>4. PICK g \in ParentMade : f = Without(g, Target)
    BY <1>3
<1>5. PICK i \in Numbers(f) : fs' = Put(f, Target, i, n)
    BY <1>3
<1>6. n \in Nodes /\ n.is = "symlink" /\ n.mode = "rw" /\ n.to = Dest[M.link]
    <2>1. LinkNode(Dest[M.link]) \in Nodes /\ mtime \in Nat
        BY <1>2, NodeTyped DEF Now
    <2> QED
        BY <2>1 DEF Nodes, LinkNode, Node
<1> HIDE DEF n
<1>7. g \in FileSystems /\ Turned(fs, g, Target) /\ SameAt(fs, g, Target)
    BY <1>1, <1>2, ParentAt DEF ParentThere
<1>8. f \in FileSystems /\ OnlyAt(g, f, Target)
    BY <1>1, <1>4, <1>7, WithoutAt DEF Removed
<1>9. Parent[Target] # Top => IsA(f, Parent[Target], "dir")
    BY <1>3 DEF CanSymlink, Writable
<1>10. NodePut(f, fs', Target, n)
    BY <1>1, <1>5, <1>6, <1>8, <1>9, PutAt
<1>11. Turned(fs, fs', Target)
    BY <1>7, <1>8, <1>10, TurnedThen DEF NodePut
<1>12. ~IsA(g, Target, "dir")
    BY <1>1, <1>3, <1>4, <1>7, WithoutAt DEF Removed, CanSymlink, IsA
<1>13. ~IsA(fs, Target, "dir")
    BY <1>7, <1>12 DEF SameAt, SameNode, IsA, Exists, NodeAt
<1>14. ParentDir(fs', Target)
    BY <1>1, <1>9, <1>10, ParentDirKept DEF NodePut, ParentDir
<1> QED
    BY <1>6, <1>10, <1>11, <1>13, <1>14 DEF NodePut, SameNode, LinkPlaced, IsA, NodeAt

(* Where a link cannot be made, the entry is gone or as it was. *)
LEMMA SymlinkDeclined ==
    ASSUME ExtractInv, DeclineSymlink
    PROVE  /\ Turned(fs, fs', Target)
           /\ \/ SameAt(fs, fs', Target)
              \/ ~Exists(fs', Target) /\ ~IsA(fs, Target, "dir")
<1>1. Turn /\ Target \in Entries
    BY DEF DeclineSymlink, Extracting, Reached
<1>2. fs \in FileSystems
    BY InvParts
<1>3. PICK g \in ParentMade : fs' = Without(g, Target)
    BY DEF DeclineSymlink
<1>4. g \in FileSystems /\ Turned(fs, g, Target) /\ SameAt(fs, g, Target)
    BY <1>1, <1>2, ParentAt DEF ParentThere
<1>5. Removed(g, fs', Target)
    BY <1>1, <1>3, <1>4, WithoutAt
<1>6. IsA(fs, Target, "dir") => IsA(g, Target, "dir")
    BY <1>4 DEF SameAt, SameNode, IsA, Exists, NodeAt
<1> QED
    BY <1>4, <1>5, <1>6, TurnedThen DEF Removed

(* A partial file is gone, or it stays in place of what was there, in a directory
   that may not be written. *)
PartialStays ==
    /\ IsA(fs', Target, "file") /\ NodeAt(fs', Target).mode = "rw"
    /\ Exists(fs, Target) /\ ~Writable(fs', Target)

LEMMA PartialDropped ==
    ASSUME ExtractInv, OneEach(fs), DropPartial, ~IsA(fs, Target, "symlink")
    PROVE  /\ Turned(fs, fs', Target) /\ ~IsA(fs, Target, "dir")
           /\ PartialStays \/ ~Exists(fs', Target)
<1>1. Turn /\ Target \in Entries
    BY DEF DropPartial, Extracting, Reached
<1>2. fs \in FileSystems /\ Garbage \in Nat
    BY InvParts DEF Garbage
<1>3. PICK h \in PartialFiles : fs' = Without(h, Target)
    BY DEF DropPartial
<1>4. PICK f \in ParentMade : CanCreate(f, Target) /\ h \in Created(f, Target, Garbage)
    BY <1>3 DEF PartialFiles
<1>5. ParentThere(f)
    BY <1>1, <1>2, ParentAt
<1>6. /\ f \in FileSystems /\ OneEach(f) /\ ~IsA(f, Target, "symlink")
      /\ Turned(fs, f, Target) /\ SameAt(fs, f, Target)
    BY <1>5 DEF ParentThere, SameAt, SameNode, IsA, Exists, NodeAt
<1>7. FileMade(f, h, Target, Garbage)
    BY <1>1, <1>2, <1>4, <1>6, CreatedAt
<1>8. Removed(h, fs', Target)
    BY <1>1, <1>3, <1>7, WithoutAt DEF FileMade
<1>9. Turned(fs, fs', Target)
    BY <1>6, <1>7, <1>8, TurnedThen DEF FileMade, Removed
<1>10. ASSUME Exists(fs', Target) PROVE PartialStays
    <2>1. fs' = h /\ ~Writable(h, Target)
        BY <1>7, <1>8, <1>10 DEF Removed, FileMade, IsA
    <2>2. ASSUME ~Exists(f, Target) PROVE FALSE
        <3>1. Writable(f, Target)
            BY <1>4, <1>6, <2>2, LeadsHere DEF CanCreate
        <3>2. Writable(h, Target)
            <4>1. CASE Parent[Target] = Top
                BY <4>1 DEF Writable
            <4>2. CASE Parent[Target] # Top
                <5>1. Parent[Target] \in Entries \ {Target}
                    BY <1>1, <4>2, ParentIsOther
                <5>2. SameAt(f, h, Parent[Target])
                    BY <1>7, <5>1 DEF FileMade, OnlyAt
                <5> QED
                    BY <3>1, <5>2 DEF Writable, SameAt, SameNode, IsA, Exists, NodeAt
            <4> QED
                BY <4>1, <4>2
        <3> QED
            BY <2>1, <3>2
    <2>3. Exists(fs, Target)
        BY <1>6, <2>2 DEF SameAt, Exists
    <2> QED
        BY <1>7, <2>1, <2>3 DEF PartialStays, FileMade
<1>11. ~IsA(f, Target, "dir")
    BY <1>4, <1>6, LeadsHere DEF CanCreate, IsA
<1>12. ~IsA(fs, Target, "dir")
    BY <1>6, <1>11 DEF SameAt, SameNode, IsA, Exists, NodeAt
<1> QED
    BY <1>9, <1>10, <1>12

(* The other turns leave the entry as it is. *)
Leaves == \/ SkipMember \/ DeclineCollision \/ DeclineName \/ DeclineSpecial
          \/ DeclineStripped \/ DeferHardLink

LEMMA LeftAlone ==
    ASSUME ExtractInv, Leaves
    PROVE  Turned(fs, fs', Target) /\ SameAt(fs, fs', Target)
<1>1. CASE fs' = fs
    BY <1>1, TurnedSelf, SameSelf
<1>2. CASE fs' # fs
    <2>1. Target \in Entries /\ fs' \in ParentMade
        BY <1>2 DEF Leaves, SkipMember, DeclineCollision, DeclineName, DeclineSpecial,
                    DeclineStripped, DeferHardLink, Extracting, Reached
    <2>2. fs \in FileSystems
        BY InvParts
    <2> QED
        BY <2>1, <2>2, ParentAt DEF ParentThere
<1> QED
    BY <1>1, <1>2
-----------------------------------------------------------------------------
(* What is lost of the metadata, where no link is followed. *)

(* No file or directory goes where a symbolic link was, or may have been put. *)
NothingFollowed == \A j \in DOMAIN members : Kind(j) \in {"File", "Dir"} /\ Selected(j) =>
    /\ ~IsA(scenario.prior, Entry(j), "symlink")
    /\ \A i \in 1 .. j - 1 : Kind(i) = "Symlink" => Entry(i) # Entry(j)
Direct == OneEach(scenario.prior) /\ NothingFollowed

(* Where a read-only node and a symbolic link come from. *)
ReadOnly(f, e) == Exists(f, e) /\ NodeAt(f, e).mode = "ro"
ReadOnlyBefore(e, k) ==
    \/ ReadOnly(scenario.prior, e)
    \/ \E i \in 1 .. k - 1 : Entry(i) = e /\ members[i].mode = "ro"
LinkBefore(e, k) ==
    \/ IsA(scenario.prior, e, "symlink")
    \/ \E i \in 1 .. k - 1 : Entry(i) = e /\ Kind(i) = "Symlink"

NodesKnown == \A e \in Entries :
    /\ ReadOnly(fs, e) => ReadOnlyBefore(e, next)
    /\ IsA(fs, e, "symlink") => LinkBefore(e, next)
TreeInv == phase = "members" => OneEach(fs) /\ NodesKnown

(* A turn of the first loop that is completed. *)
Turns == Leaves \/ ExtractDir \/ ExtractFile \/ Removes

LEMMA TurnSteps ==
    ASSUME ExtractInv, Turns
    PROVE  /\ Turn /\ next' = next + 1 /\ scenario' = scenario /\ phase' = phase
           /\ members' = members /\ next \in Nat /\ next \in DOMAIN members
<1>1. Turn /\ Advance
    BY DEF Turns, Leaves, Removes, SkipMember, DeclineCollision, DeclineName, DeclineSpecial,
           DeclineStripped, DeferHardLink, ExtractDir, ExtractFile, DropPartial,
           ExtractSymlink, DeclineSymlink, Extracting, Reached
<1> QED
    BY <1>1, TurnFacts DEF Advance, members

(* The entry of a file or a directory is no symbolic link when it is written. *)
LEMMA NoLinkThere ==
    ASSUME ExtractInv, NothingFollowed, NodesKnown, ExtractDir \/ ExtractFile \/ DropPartial
    PROVE  ~IsA(fs, Target, "symlink")
<1>1. Turn /\ Target \in Entries /\ M.kind \in {"File", "Dir"}
    BY DEF ExtractDir, ExtractFile, DropPartial, Extracting, Reached
<1>2. next \in DOMAIN members
    BY <1>1, TurnFacts
<1>3. ~LinkBefore(Target, next)
    BY <1>1, <1>2 DEF NothingFollowed, LinkBefore, Selected, Entry, Kind, Target, M
<1> QED
    BY <1>1, <1>3 DEF NodesKnown

(* No two entries are made one by a turn. *)
LEMMA TurnsOneEach ==
    ASSUME ExtractInv, OneEach(fs), Turns
    PROVE  OneEach(fs')
BY TurnKept, RemovesKept DEF Kept, Turns, Leaves

(* A node at the entry of the member may have become read-only by its mode. *)
LEMMA TurnsNodes ==
    ASSUME ExtractInv, OneEach(fs), NothingFollowed, NodesKnown, Turns
    PROVE  /\ Turned(fs, fs', Target)
           /\ ReadOnly(fs', Target) => ReadOnly(fs, Target) \/ M.mode = "ro"
           /\ IsA(fs', Target, "symlink") => IsA(fs, Target, "symlink") \/ M.kind = "Symlink"
<1>1. CASE Leaves
    BY <1>1, LeftAlone DEF SameAt, SameNode, ReadOnly, IsA, Exists, NodeAt
<1>2. CASE ExtractDir \/ ExtractFile
    <2>1. M.kind = "Dir" \/ M.kind = "File"
        BY <1>2 DEF ExtractDir, ExtractFile, Extracting
    <2>2. PICK g : Placed(g)
        BY <1>2, FilePlaced, DirPlaced, NoLinkThere
    <2>3. Turned(fs, fs', Target)
        BY <2>2, TurnedThen DEF Placed, Dressed
    <2>4. IsA(g, Target, "file") \/ IsA(g, Target, "dir")
        BY <2>1, <2>2 DEF Placed
    <2>5. ~IsA(fs', Target, "symlink")
        BY <2>2, <2>4 DEF Placed, Dressed, IsA, Exists, NodeAt
    <2>6. NodeAt(g, Target).mode = "rw" \/ SameAt(fs, g, Target)
        BY <2>1, <2>2 DEF Placed
    <2>7. NodeAt(fs', Target).mode \in {M.mode, NodeAt(g, Target).mode}
        BY <2>2 DEF Placed, Dressed
    <2>8. Exists(g, Target) /\ (SameAt(fs, g, Target) => Exists(fs, Target))
        BY <2>4 DEF IsA, SameAt, Exists
    <2> QED
        BY <2>3, <2>5, <2>6, <2>7, <2>8 DEF ReadOnly, SameAt, SameNode
<1>3. CASE ExtractSymlink
    BY <1>3, SymlinkPlaced DEF LinkPlaced, ReadOnly, ExtractSymlink, Extracting
<1>4. CASE DeclineSymlink
    BY <1>4, SymlinkDeclined DEF SameAt, SameNode, ReadOnly, IsA, Exists, NodeAt
<1>5. CASE DropPartial
    BY <1>5, PartialDropped, NoLinkThere DEF PartialStays, ReadOnly, IsA, NodeAt
<1> QED
    BY <1>1, <1>2, <1>3, <1>4, <1>5 DEF Turns, Removes

LEMMA TurnsTree ==
    ASSUME ExtractInv, TreeInv, NothingFollowed, Turns
    PROVE  TreeInv'
<1>1. /\ Turn /\ next' = next + 1 /\ scenario' = scenario /\ members' = members
      /\ next \in Nat /\ next \in DOMAIN members
    BY TurnSteps
<1>2. OneEach(fs) /\ NodesKnown
    BY <1>1 DEF TreeInv, Turn
<1>3. /\ Turned(fs, fs', Target)
      /\ ReadOnly(fs', Target) => ReadOnly(fs, Target) \/ M.mode = "ro"
      /\ IsA(fs', Target, "symlink") => IsA(fs, Target, "symlink") \/ M.kind = "Symlink"
    BY <1>2, TurnsNodes
<1>4. \A e : /\ ReadOnlyBefore(e, next) => ReadOnlyBefore(e, next)'
             /\ LinkBefore(e, next) => LinkBefore(e, next)'
    BY <1>1 DEF ReadOnlyBefore, LinkBefore, Entry, Kind
<1>5. /\ M.mode = "ro" => ReadOnlyBefore(Entry(next), next + 1)
      /\ M.kind = "Symlink" => LinkBefore(Entry(next), next + 1)
    <2>1. next \in 1 .. (next + 1) - 1 /\ M = members[next]
        BY <1>1, MembersKnown DEF M
    <2> QED
        BY <2>1 DEF ReadOnlyBefore, LinkBefore, Kind
<1>6. \A e : /\ ReadOnlyBefore(e, next + 1) => ReadOnlyBefore(e, next)'
             /\ LinkBefore(e, next + 1) => LinkBefore(e, next)'
    BY <1>1 DEF ReadOnlyBefore, LinkBefore, Entry, Kind
<1>7. Entry(next) = Target
    BY DEF Entry, Target, M
<1>8. ASSUME NEW e \in Entries
      PROVE  /\ ReadOnly(fs', e) => ReadOnlyBefore(e, next)'
             /\ IsA(fs', e, "symlink") => LinkBefore(e, next)'
    <2>1. CASE e = Target
        BY <1>2, <1>3, <1>4, <1>5, <1>6, <1>7, <2>1 DEF NodesKnown
    <2>2. CASE e # Target /\ SameAt(fs, fs', e)
        <3>1. /\ ReadOnly(fs', e) => ReadOnly(fs, e)
              /\ IsA(fs', e, "symlink") => IsA(fs, e, "symlink")
            BY <2>2 DEF SameAt, SameNode, ReadOnly, IsA, Exists, NodeAt
        <3> QED
            BY <1>2, <1>4, <3>1 DEF NodesKnown
    <2>3. CASE NewDir(fs, fs', e, Target)
        BY <2>3 DEF NewDir, ReadOnly, IsA, NodeAt
    <2> QED
        BY <1>3, <2>1, <2>2, <2>3 DEF Turned
<1>9. NodesKnown'
    BY <1>8 DEF NodesKnown, ReadOnly, IsA, Exists, NodeAt
<1> QED
    BY <1>2, <1>9, TurnsOneEach DEF TreeInv

(* Directories stay. *)
DirsStay == \A e \in Entries : IsA(fs, e, "dir") => IsA(fs', e, "dir")

LEMMA TurnsDirs ==
    ASSUME ExtractInv, OneEach(fs), NothingFollowed, NodesKnown, Turns
    PROVE  DirsStay
<1>1. Turned(fs, fs', Target)
    BY TurnsNodes
<1>2. SameAt(fs, fs', Target) \/ ~IsA(fs, Target, "dir") \/ IsA(fs', Target, "dir")
    <2>1. CASE Leaves
        BY <2>1, LeftAlone
    <2>2. CASE ExtractDir \/ ExtractFile
        <3>1. PICK g : Placed(g) /\ M.kind \in {"Dir", "File"}
            BY <2>2, FilePlaced, DirPlaced, NoLinkThere DEF ExtractDir, ExtractFile, Extracting
        <3> QED
            BY <3>1 DEF Placed, Dressed, IsA, Exists, NodeAt
    <2>3. CASE Removes
        BY <2>3, SymlinkPlaced, SymlinkDeclined, PartialDropped, NoLinkThere
        DEF Removes, LinkPlaced
    <2> QED
        BY <2>1, <2>2, <2>3 DEF Turns
<1> SUFFICES ASSUME NEW e \in Entries, IsA(fs, e, "dir") PROVE IsA(fs', e, "dir")
    BY DEF DirsStay
<1>3. \A x : SameAt(fs, fs', x) /\ IsA(fs, x, "dir") => IsA(fs', x, "dir")
    BY DEF SameAt, SameNode, IsA, Exists, NodeAt
<1>4. CASE e = Target
    BY <1>2, <1>3, <1>4
<1>5. CASE e # Target
    BY <1>1, <1>3, <1>5 DEF Turned, NewDir
<1> QED
    BY <1>4, <1>5

(* The second loop: an entry is made one with another, that is no directory, or
   it is gone, or nothing happens. *)
LinkMade ==
    /\ OnlyAt(fs, fs', L.target) /\ ~IsA(fs, L.target, "dir")
    /\ L.source # L.target /\ Exists(fs, L.source) /\ ~IsA(fs, L.source, "dir")
    /\ fs'.dir[L.target] = fs.dir[L.source]
    /\ SameNode(NodeAt(fs, L.source), NodeAt(fs', L.target))

LEMMA LinkMadeAt ==
    ASSUME ExtractInv, MakeHardLink
    PROVE  LinkMade
<1> DEFINE t == L.target
           s == L.source
           f == Without(fs, t)
           g == [f EXCEPT !.dir[t] = f.dir[s]]
<1>1. LinkTurn /\ CanLink(f) /\ fs' = Touch(g, t)
    BY DEF MakeHardLink
<1>2. fs \in FileSystems /\ t \in Entries /\ s \in Entries
    BY <1>1, InvParts, LinkFacts DEF LinkRecords
<1>3. f \in FileSystems /\ Removed(fs, f, t)
    BY <1>2, WithoutAt, WithoutTyped
<1>4. /\ Exists(f, s) /\ ~IsA(f, s, "dir") /\ ~Exists(f, t) /\ s # t
      /\ Parent[t] # Top => IsA(f, Parent[t], "dir")
    BY <1>1 DEF CanLink, Writable
<1> HIDE DEF f
<1>5. f.dir \in [Entries -> Inodes \cup {Absent}] /\ f.dir[s] \in Inodes
    BY <1>2, <1>3, <1>4 DEF FileSystems, Exists
<1>6. g \in FileSystems /\ g.dir = [f.dir EXCEPT ![t] = f.dir[s]] /\ g.node = f.node
    BY <1>3, <1>5, EntryChanged DEF FileSystems
<1> HIDE DEF g
<1>7. \A x \in Entries : g.dir[x] = IF x = t THEN f.dir[s] ELSE f.dir[x]
    BY <1>5, <1>6
<1>8. fs'.dir = g.dir
    BY <1>1, <1>6, TouchDir
<1>9. Parent[t] # Top => IsA(g, Parent[t], "dir")
    <2>1. ASSUME Parent[t] # Top PROVE IsA(g, Parent[t], "dir")
        <3>1. IsA(f, Parent[t], "dir") /\ Parent[t] \in Entries /\ Parent[t] # t
            BY <1>2, <1>4, <2>1, ParentIsOther
        <3>2. g.dir[Parent[t]] = f.dir[Parent[t]]
            BY <1>7, <3>1
        <3> QED
            BY <1>6, <3>1, <3>2 DEF IsA, Exists
    <2> QED
        BY <2>1
<1>10. \A v \in Inodes : SameNode(f.node[v], fs'.node[v])
    BY <1>1, <1>2, <1>6, <1>9, TouchNodes
<1>11. OnlyAt(f, fs', t)
    <2> SUFFICES ASSUME NEW x \in Entries \ {t} PROVE SameAt(f, fs', x)
        BY DEF OnlyAt
    <2> QED
        BY <1>5, <1>7, <1>8, <1>10 DEF SameAt, NodeAt, Exists
<1>12. OnlyAt(fs, fs', t)
    BY <1>3, <1>11, OnlyTwice DEF Removed
<1>13. SameAt(fs, f, s)
    BY <1>2, <1>3, <1>4 DEF Removed, OnlyAt
<1>14. fs'.dir[t] = fs.dir[s] /\ f.dir[s] = fs.dir[s]
    BY <1>2, <1>7, <1>8, <1>13 DEF SameAt
<1>15. Exists(fs, s) /\ ~IsA(fs, s, "dir")
    BY <1>4, <1>13, <1>14 DEF SameAt, SameNode, IsA, Exists, NodeAt
<1>16. SameNode(NodeAt(fs, s), NodeAt(fs', t))
    <2>1. SameNode(NodeAt(fs, s), NodeAt(f, s))
        BY <1>13, <1>15 DEF SameAt
    <2>2. SameNode(NodeAt(f, s), NodeAt(fs', t))
        BY <1>5, <1>10, <1>14 DEF NodeAt
    <2> QED
        BY <2>1, <2>2 DEF SameNode
<1>17. ~IsA(fs, t, "dir")
    BY <1>3, <1>4 DEF Removed, IsA
<1> QED
    BY <1>4, <1>12, <1>14, <1>15, <1>16, <1>17 DEF LinkMade

LinkGone ==
    /\ OnlyAt(fs, fs', L.target)
    /\ fs' = fs \/ (~Exists(fs', L.target) /\ ~IsA(fs, L.target, "dir"))

LEMMA LinkGoneAt ==
    ASSUME ExtractInv, DeclineHardLink
    PROVE  LinkGone
<1>1. LinkTurn /\ fs' \in {fs, Without(fs, L.target)}
    BY DEF DeclineHardLink
<1>2. fs \in FileSystems /\ L.target \in Entries
    BY <1>1, InvParts, LinkFacts DEF LinkRecords
<1>3. OnlyAt(fs, fs, L.target)
    BY SameSelf DEF OnlyAt
<1> QED
    BY <1>1, <1>2, <1>3, WithoutAt DEF LinkGone, Removed

LEMMA LinksDirs ==
    ASSUME ExtractInv, MakeHardLink \/ DeclineHardLink
    PROVE  DirsStay
<1> SUFFICES ASSUME NEW e \in Entries, IsA(fs, e, "dir") PROVE IsA(fs', e, "dir")
    BY DEF DirsStay
<1>1. LinkMade \/ LinkGone
    BY LinkMadeAt, LinkGoneAt
<1>2. OnlyAt(fs, fs', L.target) /\ (e = L.target => fs' = fs)
    BY <1>1 DEF LinkMade, LinkGone
<1> QED
    BY <1>2 DEF OnlyAt, SameAt, SameNode, IsA, Exists, NodeAt

(* The third loop: the directory is there, and its time can be set unless the
   host cannot do that. *)
T == Head(dirTimes)
Stamped ==
    /\ \A x \in Entries : SameAt(fs, fs', x)
    /\ \A x \in Entries : Exists(fs, x) /\ fs.dir[x] # fs.dir[T.entry] =>
          NodeAt(fs', x) = NodeAt(fs, x)
    /\ IF "Mtime" \in scenario.host
       THEN fs' = fs /\ lost' = lost \cup {[member |-> T.member, kind |-> "Mtime"]}
       ELSE lost' = lost /\ NodeAt(fs', T.entry).mtime = T.member

(* The directories whose times wait are there. *)
DirsThere == \A i \in DOMAIN dirTimes : IsA(fs, dirTimes[i].entry, "dir")

LEMMA TimeFacts ==
    ASSUME ExtractInv, dirTimes # <<>>
    PROVE  /\ T = dirTimes[1] /\ 1 \in DOMAIN dirTimes /\ T \in TimeRecords
           /\ T.member \in DOMAIN members /\ T.member \in Nat /\ T.entry \in Entries
           /\ DOMAIN Tail(dirTimes) = 1 .. Len(dirTimes) - 1 /\ Len(dirTimes) \in Nat
           /\ \A i \in 1 .. Len(dirTimes) - 1 :
                 Tail(dirTimes)[i] = dirTimes[i + 1] /\ i + 1 \in DOMAIN dirTimes
<1>1. dirTimes \in Seq(TimeRecords)
    BY InvParts DEF DeferredTyped
<1>2. /\ T = dirTimes[1] /\ 1 \in DOMAIN dirTimes /\ T \in TimeRecords
      /\ DOMAIN Tail(dirTimes) = 1 .. Len(dirTimes) - 1 /\ Len(dirTimes) \in Nat
      /\ \A i \in 1 .. Len(dirTimes) - 1 :
            Tail(dirTimes)[i] = dirTimes[i + 1] /\ i + 1 \in DOMAIN dirTimes
    BY <1>1 DEF T
<1> QED
    BY <1>2, MembersKnown DEF TimeRecords

LEMMA StampAt ==
    ASSUME ExtractInv, DirsThere, StampDir
    PROVE  Stamped
<1> DEFINE e == T.entry
           v == fs.dir[e]
           n == [fs.node[v] EXCEPT !.mtime = T.member]
<1>1. dirTimes # <<>> /\ fs \in FileSystems
    BY InvParts DEF StampDir
<1>2. e \in Entries /\ IsA(fs, e, "dir") /\ T.member \in Nat
    BY <1>1, TimeFacts DEF DirsThere
<1>3. Leads(fs, e) = e /\ e # Absent /\ Exists(fs, e)
    BY <1>2, LeadsHere, DestAssumption DEF IsA
<1>4. IF "Mtime" \notin scenario.host
      THEN fs' = [fs EXCEPT !.node[v].mtime = T.member] /\ lost' = lost
      ELSE lost' = lost \cup {[member |-> T.member, kind |-> "Mtime"]} /\ fs' = fs
    BY <1>3 DEF StampDir, T
<1>5. CASE "Mtime" \in scenario.host
    BY <1>4, <1>5, SameSelf DEF Stamped
<1>6. CASE "Mtime" \notin scenario.host
    <2>1. /\ fs.dir \in [Entries -> Inodes \cup {Absent}] /\ fs.node \in [Inodes -> Nodes]
          /\ v \in Inodes
        BY <1>1, <1>2, <1>3 DEF FileSystems, Exists
    <2>2. fs'.dir = fs.dir /\ fs'.node = [fs.node EXCEPT ![v] = n]
        <3>1. fs' = [fs EXCEPT !.node[v].mtime = T.member]
            BY <1>4, <1>6
        <3>2. fs' = [fs EXCEPT !.node = [fs.node EXCEPT ![v] = n]]
            BY <3>1
        <3> QED
            BY <1>1, <3>2 DEF FileSystems
    <2>3. /\ n.is = fs.node[v].is /\ n.content = fs.node[v].content /\ n.to = fs.node[v].to
          /\ n.mode = fs.node[v].mode /\ n.xattrs = fs.node[v].xattrs /\ n.mtime = T.member
          /\ fs.node[v].is = "dir"
        BY <1>2, <2>1 DEF Nodes, IsA
    <2> HIDE DEF n
    <2>4. ASSUME NEW x \in Entries, Exists(fs, x)
          PROVE  /\ SameNode(NodeAt(fs, x), NodeAt(fs', x))
                 /\ fs.dir[x] # v => NodeAt(fs', x) = NodeAt(fs, x)
        <3>1. fs.dir[x] \in Inodes
            BY <2>1, <2>4 DEF Exists
        <3> QED
            BY <2>1, <2>2, <2>3, <3>1 DEF SameNode, NodeAt
    <2>5. NodeAt(fs', e).mtime = T.member
        BY <2>1, <2>2, <2>3 DEF NodeAt
    <2>6. \A x \in Entries : SameAt(fs, fs', x)
        BY <2>2, <2>4 DEF SameAt
    <2> QED
        BY <1>4, <1>6, <2>4, <2>5, <2>6 DEF Stamped
<1> QED
    BY <1>5, <1>6

LEMMA TimesTyped ==
    ASSUME ExtractInv
    PROVE  \A i \in DOMAIN dirTimes : dirTimes[i].entry \in Entries
<1>1. dirTimes \in Seq(TimeRecords)
    BY InvParts DEF DeferredTyped
<1>2. \A i \in DOMAIN dirTimes : dirTimes[i] \in TimeRecords
    BY <1>1
<1> QED
    BY <1>2 DEF TimeRecords

LEMMA DirsKept ==
    ASSUME ExtractInv, DirsThere, DirsStay, dirTimes' = dirTimes
    PROVE  DirsThere'
<1>1. \A i \in DOMAIN dirTimes : dirTimes[i].entry \in Entries
    BY TimesTyped
<1> QED
    BY <1>1 DEF DirsThere, DirsStay, IsA, Exists

LEMMA DirDeferred ==
    ASSUME ExtractInv, DirsThere, DirsStay, DeferTimes, IsA(fs', Target, "dir")
    PROVE  DirsThere'
<1> DEFINE t == [member |-> next, entry |-> Target]
<1>1. CASE dirTimes' = dirTimes
    BY <1>1, DirsKept
<1>2. CASE dirTimes' = Append(dirTimes, t)
    <2>1. dirTimes \in Seq(TimeRecords) /\ Len(dirTimes) \in Nat
        BY InvParts DEF DeferredTyped
    <2> HIDE DEF t
    <2>2. /\ DOMAIN dirTimes' = 1 .. Len(dirTimes) + 1 /\ DOMAIN dirTimes = 1 .. Len(dirTimes)
          /\ dirTimes'[Len(dirTimes) + 1] = t
          /\ \A i \in 1 .. Len(dirTimes) : dirTimes'[i] = dirTimes[i]
        BY <1>2, <2>1
    <2>3. \A i \in DOMAIN dirTimes : dirTimes[i].entry \in Entries
        BY TimesTyped
    <2>4. ASSUME NEW i \in 1 .. Len(dirTimes) + 1 PROVE IsA(fs', dirTimes'[i].entry, "dir")
        <3>1. CASE i = Len(dirTimes) + 1
            BY <2>2, <3>1 DEF t
        <3>2. CASE i \in 1 .. Len(dirTimes)
            BY <2>2, <2>3, <3>2 DEF DirsThere, DirsStay
        <3> QED
            BY <2>1, <2>4, <3>1, <3>2
    <2> QED
        BY <2>2, <2>4 DEF DirsThere, IsA, Exists
<1> QED
    BY <1>1, <1>2 DEF DeferTimes
Excused(l) == l.kind \in scenario.host \/ ReadOnlyBefore(Entry(l.member), l.member)
LossInv ==
    /\ TreeInv
    /\ \A l \in lost : Excused(l)
    /\ phase \in {"members", "links", "times"} => DirsThere

LEMMA LossStays ==
    ASSUME \A l \in lost : Excused(l), scenario' = scenario,
           \A l \in lost' : l \in lost \/ Excused(l)
    PROVE  (\A l \in lost : Excused(l))'
<1>1. \A l : Excused(l) => Excused(l)'
    BY DEF Excused, ReadOnlyBefore, ReadOnly, Exists, NodeAt, Entry, members
<1> QED
    BY <1>1

(* What a turn loses the host lacks, or the entry was read-only. *)
LEMMA TurnsLose ==
    ASSUME ExtractInv, OneEach(fs), NothingFollowed, NodesKnown, Turns
    PROVE  \A l \in lost' : l \in lost \/ Excused(l)
<1>1. CASE Leaves \/ DropPartial \/ DeclineSymlink
    <2>1. lost' = lost
        BY <1>1 DEF Leaves, SkipMember, DeclineCollision, DeclineName, DeclineSpecial,
           DeclineStripped, DeferHardLink, DropPartial, DeclineSymlink, Decline, reportVars
    <2> QED
        BY <2>1
<1>2. CASE ExtractSymlink
    <2>1. PICK losses : losses \subseteq scenario.host /\ Written(losses)
        BY <1>2 DEF ExtractSymlink
    <2> QED
        BY <2>1 DEF Written, Excused
<1>3. CASE ExtractDir \/ ExtractFile
    <2>1. PICK g : Placed(g) /\ M.kind \in {"Dir", "File"}
        BY <1>3, FilePlaced, DirPlaced, NoLinkThere DEF ExtractDir, ExtractFile, Extracting
    <2>2. Target \in Entries /\ Entry(next) = Target
        BY <1>3 DEF ExtractDir, ExtractFile, Extracting, Reached, Entry, Target, M
    <2>3. NodeAt(g, Target).mode = "ro" => ReadOnlyBefore(Target, next)
        <3>1. ASSUME NodeAt(g, Target).mode = "ro" PROVE ReadOnly(fs, Target)
            <4>1. SameAt(fs, g, Target) /\ Exists(g, Target)
                BY <2>1, <3>1 DEF Placed, IsA
            <4> QED
                BY <3>1, <4>1 DEF ReadOnly, SameAt, SameNode, Exists
        <3> QED
            BY <2>2, <3>1 DEF NodesKnown
    <2>4. \A k \in Refusals(g) : k \in scenario.host \/ ReadOnlyBefore(Target, next)
        BY <2>1, <2>3 DEF Placed, Dressed
    <2>5. lost' = lost \cup {[member |-> next, kind |-> k] : k \in Refusals(g)}
        BY <2>1 DEF Placed, Written
    <2>6. \A k \in Refusals(g) : Excused([member |-> next, kind |-> k])
        BY <2>2, <2>4 DEF Excused
    <2> QED
        BY <2>5, <2>6
<1> QED
    BY <1>1, <1>2, <1>3 DEF Turns, Removes

(* The other steps lose nothing but the time of a directory. *)
LEMMA StopsLose ==
    ASSUME ExtractInv, LossInv, Stops
    PROVE  /\ phase' # "members"
           /\ phase' \in {"members", "links", "times"} => DirsThere'
           /\ \A l \in lost' : l \in lost \/ Excused(l)
<1>1. CASE MakeHardLink \/ DeclineHardLink
    <2>1. phase = "links" /\ phase' = phase /\ dirTimes' = dirTimes /\ lost' = lost
        BY <1>1 DEF MakeHardLink, DeclineHardLink, LinkTurn
    <2>2. DirsThere'
        BY <1>1, <2>1, LinksDirs, DirsKept DEF LossInv
    <2> QED
        BY <2>1, <2>2
<1>2. CASE StampDir
    <2>1. phase = "times" /\ phase' = phase /\ dirTimes' = Tail(dirTimes) /\ dirTimes # <<>>
        BY <1>2 DEF StampDir
    <2>2. DirsThere
        BY <2>1 DEF LossInv
    <2>3. Stamped
        BY <1>2, <2>2, StampAt
    <2>4. /\ \A i \in 1 .. Len(dirTimes) - 1 :
                Tail(dirTimes)[i] = dirTimes[i + 1] /\ i + 1 \in DOMAIN dirTimes
          /\ DOMAIN dirTimes' = 1 .. Len(dirTimes) - 1
        BY <2>1, TimeFacts
    <2>5. ASSUME NEW i \in 1 .. Len(dirTimes) - 1 PROVE IsA(fs', dirTimes'[i].entry, "dir")
        <3>1. dirTimes'[i] = dirTimes[i + 1] /\ i + 1 \in DOMAIN dirTimes
            BY <2>1, <2>4
        <3>2. IsA(fs, dirTimes'[i].entry, "dir") /\ dirTimes'[i].entry \in Entries
            BY <2>2, <3>1, TimesTyped DEF DirsThere
        <3> QED
            BY <2>3, <3>2 DEF Stamped, SameAt, SameNode, IsA, Exists, NodeAt
    <2>6. DirsThere'
        BY <2>4, <2>5 DEF DirsThere, IsA, Exists
    <2>7. \A l \in lost' : l \in lost \/ Excused(l)
        BY <2>3 DEF Stamped, Excused
    <2> QED
        BY <2>1, <2>6, <2>7
<1>3. CASE \/ RefusePath \/ AbortOnBadData \/ AbortOnConflict \/ Finish \/ IoFails
    BY <1>3 DEF RefusePath, AbortOnBadData, AbortOnConflict, Finish, IoFails, Abort, reportVars
<1>4. CASE MembersDone \/ LinksDone
    <2>1. /\ fs' = fs /\ dirTimes' = dirTimes /\ lost' = lost /\ phase' # "members"
          /\ phase \in {"members", "links", "times"}
        BY <1>4 DEF MembersDone, LinksDone, reportVars, deferredVars
    <2> QED
        BY <2>1 DEF LossInv, DirsThere, IsA, Exists
<1> QED
    BY <1>1, <1>2, <1>3, <1>4 DEF Stops

LEMMA TurnsDirTimes ==
    ASSUME ExtractInv, OneEach(fs), NothingFollowed, NodesKnown, DirsThere, Turns
    PROVE  DirsThere'
<1>1. DirsStay
    BY TurnsDirs
<1>2. CASE ExtractDir
    <2>1. PICK g : Placed(g) /\ M.kind = "Dir"
        BY <1>2, DirPlaced, NoLinkThere DEF ExtractDir, Extracting
    <2>2. IsA(fs', Target, "dir")
        BY <2>1 DEF Placed, Dressed, IsA, Exists, NodeAt
    <2> QED
        BY <1>1, <1>2, <2>2, DirDeferred DEF ExtractDir
<1>3. CASE ~ExtractDir
    <2>1. dirTimes' = dirTimes
        BY <1>3 DEF Turns, Leaves, Removes, SkipMember, DeclineCollision, DeclineName,
           DeclineSpecial, DeclineStripped, DeferHardLink, ExtractFile, DropPartial,
           ExtractSymlink, DeclineSymlink, deferredVars
    <2> QED
        BY <1>1, <2>1, DirsKept
<1> QED
    BY <1>2, <1>3

LEMMA LossNext ==
    ASSUME ExtractInv, LossInv, NothingFollowed, [Next]_vars
    PROVE  LossInv'
<1>1. scenario' = scenario
    BY ScenarioStays
<1>2. CASE UNCHANGED vars
    BY <1>2 DEF vars, reportVars, deferredVars, LossInv, TreeInv, OneEach, Exists, NodesKnown,
       ReadOnlyBefore, LinkBefore, ReadOnly, NodeAt, IsA, Entry, Kind, members, Excused, DirsThere
<1>3. CASE Turns
    <2>1. Turn /\ phase' = phase
        BY <1>3, TurnSteps
    <2>2. OneEach(fs) /\ NodesKnown /\ DirsThere
        BY <2>1 DEF LossInv, TreeInv, Turn
    <2>3. TreeInv'
        BY <1>3, TurnsTree DEF LossInv
    <2>4. \A l \in lost' : l \in lost \/ Excused(l)
        BY <1>3, <2>2, TurnsLose
    <2>5. (\A l \in lost : Excused(l))'
        BY <1>1, <2>4, LossStays DEF LossInv
    <2>6. DirsThere'
        BY <1>3, <2>2, TurnsDirTimes
    <2> QED
        BY <2>3, <2>5, <2>6 DEF LossInv
<1>4. CASE Stops
    <2>1. /\ phase' # "members"
          /\ phase' \in {"members", "links", "times"} => DirsThere'
          /\ \A l \in lost' : l \in lost \/ Excused(l)
        BY <1>4, StopsLose
    <2>2. (\A l \in lost : Excused(l))'
        BY <1>1, <2>1, LossStays DEF LossInv
    <2> QED
        BY <2>1, <2>2 DEF LossInv, TreeInv
<1> QED
    BY <1>2, <1>3, <1>4 DEF Next, Step, Ended, Stops, Turns, Leaves, Removes

LEMMA LossInit ==
    ASSUME Init, OneEach(scenario.prior)
    PROVE  LossInv
BY DEF Init, LossInv, TreeInv, NodesKnown, ReadOnlyBefore, LinkBefore, DirsThere

(* Extraction loses an attribute only where the host has not got it or the entry was
   read-only before: in every archive that puts no file or directory where a symbolic
   link was or is put before it, and where no two entries of the destination were one
   file beforehand. *)
THEOREM LossTheorem == Spec => [](Direct => LossIsTheHosts)
<1>1. Init => (Direct => LossInv)
    BY LossInit DEF Direct
<1>2. ExtractInv /\ (Direct => LossInv) /\ [Next]_vars => (Direct => LossInv)'
    <2>1. ASSUME [Next]_vars PROVE Direct' => Direct
        BY <2>1, ScenarioStays DEF Direct, OneEach, Exists, NothingFollowed, Kind, members,
           Selected, Entry, IsA
    <2> QED
        BY <2>1, LossNext DEF Direct
<1>3. (Direct => LossInv) => (Direct => LossIsTheHosts)
    BY DEF LossInv, LossIsTheHosts, Excused, ReadOnlyBefore, ReadOnly, Exists, NodeAt
<1> QED
    BY <1>1, <1>2, <1>3, ExtractInit, ExtractNext, PTL DEF Spec
-----------------------------------------------------------------------------
(* What was written stays, until the archive names it again. *)

(* After a hard link, the archive names its entry only for the same path and as a
   hard link; and no hard link takes the place of what an earlier one is one with. *)
LinksLast == \A j \in DOMAIN members : \A i \in 1 .. j - 1 :
    Kind(i) = "HardLink" /\ Selected(i) /\ Entry(i) = Entry(j) =>
       \/ Kind(j) = "Special"
       \/ Kind(j) = "HardLink" /\ members[i].path = members[j].path
SourcesStay == \A j \in DOMAIN members : \A i \in 1 .. j - 1 :
    Kind(i) = "HardLink" /\ Kind(j) = "HardLink" /\ Selected(j) =>
       Dest[members[i].link] # Entry(j)

Landed(j) == Selected(j) /\
    LET m == members[j]
        e == Entry(j)
    IN \/ m.kind = "File" /\ IsA(fs, e, "file") /\ NodeAt(fs, e).content = j
       \/ m.kind = "Dir" /\ IsA(fs, e, "dir")
       \/ m.kind = "Symlink" /\ IsA(fs, e, "symlink") /\ NodeAt(fs, e).to = Dest[m.link]
       \/ /\ m.kind = "HardLink" /\ Dest[m.link] \in Entries
          /\ Exists(fs, e) /\ fs.dir[e] = fs.dir[Dest[m.link]]
Recorded(j) == byInode[fs.dir[Entry(j)]] = members[j].path
Named(j) == Kind(j) \in {"File", "Symlink"}

AllLanded == \A j \in written : Superseded(j) \/ Landed(j)
AllRecorded == \A j \in written :
    Kind(j) # "HardLink" /\ (Named(j) => Superseded(j) \/ Recorded(j))

(* The hard links that wait, in archive order; none replaces what has been written. *)
Awaited(h) ==
    Kind(h.member) = "HardLink" /\ h.target = Entry(h.member)
    /\ h.source = Dest[members[h.member].link]
PendingFits == \A i \in DOMAIN hardLinks :
    /\ Awaited(hardLinks[i])
    /\ \A k \in DOMAIN hardLinks : i < k => hardLinks[i].member < hardLinks[k].member
PendingFree == \A i \in DOMAIN hardLinks : \A j \in written :
    /\ Named(j) /\ Entry(j) = hardLinks[i].target => Superseded(j)
    /\ Kind(j) = "HardLink" => j < hardLinks[i].member

ContentInv ==
    /\ phase # "error" => AllLanded
    /\ phase = "members" => AllRecorded
    /\ phase \in {"members", "links"} => PendingFits /\ PendingFree

(* A member of which the file system takes the name for that of an earlier one is not
   extracted, unless it has the same path. *)
LEMMA MeetsSamePath ==
    ASSUME ExtractInv, AccountInv, AllLanded, AllRecorded, Reached, M.kind # "Special",
           NEW j \in written, Named(j), Entry(j) = Target
    PROVE  Superseded(j)
<1> SUFFICES ASSUME ~Superseded(j) PROVE FALSE
    OBVIOUS
<1>1. Turn /\ Target \in Entries /\ ~Collides
    BY DEF Reached
<1>2. next \in DOMAIN members /\ next \in Nat
    BY <1>1, TurnFacts
<1>3. j \in DOMAIN members /\ j \in Nat /\ members[j].path \in Paths
    BY MembersKnown DEF ArchiveMembers
<1>4. j < next
    BY <1>2, <1>3 DEF AccountInv
<1>5. Exists(fs, Target) /\ byInode[fs.dir[Target]] = members[j].path
    BY DEF AllLanded, AllRecorded, Landed, Recorded, Named, Kind, IsA
<1>6. members[j].path = M.path
    BY <1>1, <1>3, <1>5, DestAssumption DEF Collides
<1> QED
    BY <1>2, <1>4, <1>6 DEF Superseded, M

LEMMA LandedSame ==
    ASSUME NEW j, Landed(j), Kind(j) # "HardLink", scenario' = scenario,
           SameAt(fs, fs', Entry(j))
    PROVE  Landed(j)'
<1>1. members' = members /\ Entry(j)' = Entry(j)
    BY DEF members, Entry
<1> QED
    BY <1>1 DEF Landed, Kind, Selected, SameAt, SameNode, IsA, Exists, NodeAt

(* A turn leaves what has landed, and its record. *)
LEMMA TurnsLanded ==
    ASSUME ExtractInv, AccountInv, OneEach(fs), NothingFollowed, NodesKnown, Turns,
           AllLanded, AllRecorded, NEW j \in written, ~Superseded(j)
    PROVE  Landed(j)' /\ (Named(j) => Recorded(j)')
<1>1. Landed(j) /\ Kind(j) # "HardLink" /\ (Named(j) => Recorded(j))
    BY DEF AllLanded, AllRecorded
<1>2. scenario' = scenario /\ members' = members
    BY TurnSteps
<1>3. Exists(fs, Entry(j)) /\ Entry(j) \in Entries
    BY <1>1 DEF Landed, IsA, Selected
<1>4. Entry(j) # Target => SameAt(fs, fs', Entry(j))
    BY <1>3, TurnsNodes DEF Turned, NewDir
<1>5. Leaves => SameAt(fs, fs', Entry(j))
    BY <1>4, LeftAlone
<1>6. ~Leaves => Reached /\ M.kind # "Special"
    BY DEF Turns, Removes, ExtractDir, ExtractFile, DropPartial, ExtractSymlink,
           DeclineSymlink, Extracting
<1>7. Named(j) => Leaves \/ Entry(j) # Target
    BY <1>6, MeetsSamePath
<1>8. Landed(j)'
    <2>1. CASE SameAt(fs, fs', Entry(j))
        BY <1>1, <1>2, <2>1, LandedSame
    <2>2. CASE ~SameAt(fs, fs', Entry(j))
        <3>1. Kind(j) = "Dir" /\ IsA(fs, Entry(j), "dir")
            BY <1>1, <1>4, <1>5, <1>7, <2>2 DEF Landed, Named, Kind
        <3>2. IsA(fs', Entry(j), "dir")
            BY <1>3, <3>1, TurnsDirs DEF DirsStay
        <3> QED
            BY <1>2, <1>3, <3>1, <3>2 DEF Landed, Selected, Entry, Kind, IsA, Exists
    <2> QED
        BY <2>1, <2>2
<1>9. ASSUME Named(j) PROVE Recorded(j)'
    <2>1. fs'.dir[Entry(j)] = fs.dir[Entry(j)]
        BY <1>4, <1>5, <1>7, <1>9 DEF SameAt
    <2>2. byInode'[fs.dir[Entry(j)]] = byInode[fs.dir[Entry(j)]]
        <3>1. CASE ExtractFile \/ ExtractSymlink
            <4>1. Record /\ Target \in Entries
                BY <3>1 DEF ExtractFile, ExtractSymlink, Extracting, Reached
            <4>2. Entry(j) # Target
                <5>1. Reached /\ M.kind # "Special"
                    BY <3>1 DEF ExtractFile, ExtractSymlink, Extracting
                <5> QED
                    BY <1>9, <5>1, MeetsSamePath
            <4>3. OneEach(fs') /\ Exists(fs', Entry(j))
                BY <1>3, <2>1, TurnsOneEach DEF Exists
            <4>4. fs'.dir[Target] # fs.dir[Entry(j)]
                BY <1>3, <2>1, <4>1, <4>2, <4>3 DEF OneEach
            <4>5. byInode \in [Inodes -> Paths \cup {Skipped}] /\ fs \in FileSystems
                BY InvParts
            <4> QED
                BY <1>3, <4>1, <4>4, <4>5 DEF Record, FileSystems, Exists
        <3>2. CASE ~ExtractFile /\ ~ExtractSymlink
            BY <3>2 DEF Turns, Leaves, Removes, SkipMember, DeclineCollision, DeclineName,
               DeclineSpecial, DeclineStripped, DeferHardLink, ExtractDir, DropPartial,
               DeclineSymlink
        <3> QED
            BY <3>1, <3>2
    <2> QED
        BY <1>1, <1>2, <1>9, <2>1, <2>2 DEF Recorded, Entry
<1> QED
    BY <1>8, <1>9

(* What a turn counts as written has landed, and is recorded. *)
Writes == ExtractFile \/ ExtractDir \/ ExtractSymlink

LEMMA WrittenBy ==
    ASSUME Turns
    PROVE  IF Writes THEN written' = written \cup {next} ELSE written' = written
BY DEF Writes, Turns, Leaves, Removes, SkipMember, DeclineCollision, DeclineName,
       DeclineSpecial, DeclineStripped, DeferHardLink, ExtractFile, ExtractDir,
       ExtractSymlink, DropPartial, DeclineSymlink, Decline, Written, reportVars

LEMMA WritesLand ==
    ASSUME ExtractInv, OneEach(fs), NothingFollowed, NodesKnown, Writes, NEW j, j = next
    PROVE  Landed(j)' /\ Kind(j) # "HardLink" /\ (Named(j) => Recorded(j)')
<1>1. /\ Turns /\ Target \in Entries /\ M = members[j] /\ Entry(j) = Target
      /\ M.kind \in {"File", "Dir", "Symlink"}
    BY DEF Writes, Turns, Removes, ExtractDir, ExtractFile, ExtractSymlink, Extracting,
           Reached, M, Entry, Target
<1>2. members' = members /\ scenario' = scenario
    BY <1>1, TurnSteps
<1>3. ASSUME ExtractFile \/ ExtractDir PROVE Landed(j)'
    <2>1. PICK g : Placed(g) /\ M.kind \in {"File", "Dir"}
        BY <1>3, FilePlaced, DirPlaced, NoLinkThere DEF ExtractDir, ExtractFile, Extracting
    <2>2. /\ M.kind = "File" => IsA(fs', Target, "file") /\ NodeAt(fs', Target).content = next
          /\ M.kind = "Dir" => IsA(fs', Target, "dir")
        BY <2>1 DEF Placed, Dressed, IsA, Exists, NodeAt
    <2> QED
        BY <1>1, <1>2, <2>1, <2>2 DEF Landed, Selected, Entry, IsA, Exists, NodeAt
<1>4. ASSUME ExtractSymlink PROVE Landed(j)'
    <2>1. LinkPlaced /\ M.kind = "Symlink"
        BY <1>4, SymlinkPlaced DEF ExtractSymlink, Extracting
    <2> QED
        BY <1>1, <1>2, <2>1 DEF LinkPlaced, Landed, Selected, Entry, IsA, Exists, NodeAt
<1>5. Landed(j)'
    BY <1>3, <1>4 DEF Writes
<1>6. ASSUME Named(j) PROVE Recorded(j)'
    <2>1. Record
        BY <1>1, <1>6 DEF Writes, ExtractFile, ExtractDir, ExtractSymlink, Extracting, Named, Kind
    <2>2. Exists(fs', Target) /\ fs' \in FileSystems
        <3>1. Exists(fs', Target)
            BY <1>1, <1>2, <1>5 DEF Landed, Entry, IsA, Exists
        <3>2. fs' \in FileSystems
            BY <1>1, TurnKept, RemovesKept DEF Kept, Turns, Leaves
        <3> QED
            BY <3>1, <3>2
    <2>3. byInode \in [Inodes -> Paths \cup {Skipped}] /\ fs'.dir[Target] \in Inodes
        BY <1>1, <2>2, InvParts DEF FileSystems, Exists
    <2>4. byInode'[fs'.dir[Target]] = M.path
        BY <2>1, <2>3 DEF Record
    <2> QED
        BY <1>1, <1>2, <2>4 DEF Recorded, Entry
<1> QED
    BY <1>1, <1>5, <1>6 DEF Kind

LEMMA SupersededStays ==
    ASSUME NEW j, Superseded(j), scenario' = scenario
    PROVE  Superseded(j)'
BY DEF Superseded, members

LEMMA TurnsAllLanded ==
    ASSUME ExtractInv, AccountInv, OneEach(fs), NothingFollowed, NodesKnown, Turns,
           AllLanded, AllRecorded
    PROVE  AllLanded' /\ AllRecorded'
<1>1. scenario' = scenario /\ members' = members
    BY TurnSteps
<1>2. ASSUME NEW j \in written', ~Superseded(j)
      PROVE  Landed(j)' /\ Kind(j) # "HardLink" /\ (Named(j) => Recorded(j)')
    <2>1. CASE j \in written
        BY <1>2, <2>1, TurnsLanded DEF AllRecorded
    <2>2. CASE j \notin written
        <3>1. Writes /\ j = next
            BY <2>2, WrittenBy
        <3> QED
            BY <3>1, WritesLand
    <2> QED
        BY <2>1, <2>2
<1>3. \A j \in written' : Kind(j) # "HardLink"
    <2>1. Writes => Kind(next) # "HardLink"
        BY DEF Writes, ExtractFile, ExtractDir, ExtractSymlink, Extracting, M, Kind
    <2> QED
        BY <2>1, WrittenBy DEF AllRecorded
<1>4. AllLanded'
    BY <1>1, <1>2, SupersededStays DEF AllLanded
<1>5. AllRecorded'
    <2>1. \A j : Kind(j)' = Kind(j) /\ (Named(j)' => Named(j))
        BY <1>1 DEF Kind, Named
    <2> QED
        BY <1>1, <1>2, <1>3, <2>1, SupersededStays DEF AllRecorded
<1> QED
    BY <1>4, <1>5

(* The hard link of the member at hand is the last to wait. *)
LEMMA PendingMore ==
    ASSUME ExtractInv, DeferHardLink
    PROVE  LET h == [member |-> next, source |-> Dest[M.link], target |-> Target]
               n == Len(hardLinks)
           IN /\ n \in Nat /\ DOMAIN hardLinks = 1 .. n /\ DOMAIN hardLinks' = 1 .. n + 1
              /\ hardLinks'[n + 1] = h /\ Awaited(h)
              /\ \A i \in 1 .. n : hardLinks'[i] = hardLinks[i]
<1> DEFINE h == [member |-> next, source |-> Dest[M.link], target |-> Target]
           n == Len(hardLinks)
<1>1. hardLinks \in Seq(LinkRecords) /\ hardLinks' = Append(hardLinks, h)
    BY InvParts DEF DeferHardLink, Defer, DeferredTyped
<1>2. M.kind = "HardLink"
    BY DEF DeferHardLink, Extracting
<1>3. Awaited(h)
    BY <1>2 DEF Awaited, Kind, Entry, M, Target
<1> HIDE DEF h
<1>4. /\ n \in Nat /\ DOMAIN hardLinks = 1 .. n /\ DOMAIN hardLinks' = 1 .. n + 1
      /\ hardLinks'[n + 1] = h
      /\ \A i \in 1 .. n : hardLinks'[i] = hardLinks[i]
    BY <1>1
<1> QED
    BY <1>3, <1>4 DEF h

LEMMA PendingTyped ==
    ASSUME ExtractInv, NEW i \in DOMAIN hardLinks
    PROVE  /\ hardLinks[i] \in LinkRecords /\ hardLinks[i].member \in DOMAIN members
           /\ hardLinks[i].member \in Nat /\ hardLinks[i].target \in Entries
           /\ hardLinks[i].source \in Entries
<1>1. hardLinks[i] \in LinkRecords
    BY InvParts DEF DeferredTyped
<1> QED
    BY <1>1, MembersKnown DEF LinkRecords

LEMMA PendingBefore ==
    ASSUME ExtractInv, AccountInv, Turn, NEW i \in DOMAIN hardLinks
    PROVE  hardLinks[i].member < next
<1>1. /\ hardLinks[i].member \in DOMAIN members /\ hardLinks[i].member \in Nat
      /\ next \in Nat
    BY PendingTyped, TurnFacts
<1>2. Waits(hardLinks[i].member)
    BY DEF Waits
<1> QED
    BY <1>1, <1>2 DEF AccountInv

LEMMA TurnsFits ==
    ASSUME ExtractInv, AccountInv, Turns, PendingFits
    PROVE  PendingFits'
<1>1. Turn /\ members' = members /\ next \in Nat
    BY TurnSteps
<1>2. \A h : Awaited(h) => Awaited(h)'
    BY <1>1 DEF Awaited, Kind, Entry
<1>3. CASE hardLinks' = hardLinks
    BY <1>2, <1>3 DEF PendingFits
<1>4. CASE DeferHardLink
    <2> DEFINE h == [member |-> next, source |-> Dest[M.link], target |-> Target]
               n == Len(hardLinks)
    <2>1. /\ n \in Nat /\ DOMAIN hardLinks = 1 .. n /\ DOMAIN hardLinks' = 1 .. n + 1
          /\ hardLinks'[n + 1] = h /\ Awaited(h)
          /\ \A i \in 1 .. n : hardLinks'[i] = hardLinks[i]
        BY <1>4, PendingMore
    <2>2. h.member = next
        OBVIOUS
    <2> HIDE DEF h, n
    <2>3. \A i \in 1 .. n : hardLinks[i].member < next /\ hardLinks[i].member \in Nat
        BY <1>1, <2>1, PendingBefore, PendingTyped
    <2>4. \A i \in 1 .. n + 1 : Awaited(hardLinks'[i])
        <3> SUFFICES ASSUME NEW i \in 1 .. n + 1 PROVE Awaited(hardLinks'[i])
            OBVIOUS
        <3>1. CASE i \in 1 .. n
            BY <2>1, <3>1 DEF PendingFits
        <3>2. CASE i = n + 1
            BY <2>1, <3>2
        <3> QED
            BY <2>1, <3>1, <3>2
    <2>5. ASSUME NEW i \in 1 .. n + 1, NEW k \in 1 .. n + 1, i < k
          PROVE  hardLinks'[i].member < hardLinks'[k].member
        <3>1. i \in 1 .. n
            BY <2>1, <2>5
        <3>2. CASE k \in 1 .. n
            BY <2>1, <2>5, <3>1, <3>2 DEF PendingFits
        <3>3. CASE k = n + 1
            BY <2>1, <2>2, <2>3, <3>1, <3>3
        <3> QED
            BY <2>1, <3>2, <3>3
    <2> QED
        BY <1>2, <2>1, <2>4, <2>5 DEF PendingFits
<1>5. hardLinks' = hardLinks \/ DeferHardLink
    BY DEF Turns, Leaves, Removes, SkipMember, DeclineCollision, DeclineName,
       DeclineSpecial, DeclineStripped, ExtractFile, ExtractDir, ExtractSymlink,
       DropPartial, DeclineSymlink, deferredVars
<1> QED
    BY <1>3, <1>4, <1>5

LEMMA TurnsFree ==
    ASSUME ExtractInv, AccountInv, Turns, AllLanded, AllRecorded, AllRecorded', LinksLast,
           PendingFits, PendingFree
    PROVE  PendingFree'
<1>1. Turn /\ members' = members /\ scenario' = scenario /\ next \in Nat /\ next \in DOMAIN members
    BY TurnSteps
<1>2. \A j : Kind(j)' = Kind(j) /\ Named(j)' = Named(j) /\ Entry(j)' = Entry(j)
    BY <1>1 DEF Kind, Named, Entry
<1>3. \A j \in written' : Kind(j) # "HardLink"
    BY <1>2 DEF AllRecorded
<1>4. ASSUME NEW i \in DOMAIN hardLinks, NEW j \in written',
             Named(j), Entry(j) = hardLinks[i].target
      PROVE  Superseded(j)
    <2>1. CASE j \in written
        BY <1>4, <2>1 DEF PendingFree
    <2>2. CASE j \notin written
        <3>1. Writes /\ j = next
            BY <2>2, WrittenBy
        <3> DEFINE m == hardLinks[i].member
        <3>2. m < next /\ m \in DOMAIN members /\ m \in Nat /\ Awaited(hardLinks[i])
            BY <1>1, PendingBefore, PendingTyped DEF PendingFits
        <3>3. Kind(m) = "HardLink" /\ Entry(m) = Entry(next) /\ Selected(m)
            BY <1>4, <3>1, <3>2, PendingTyped DEF Awaited, Selected
        <3>4. m \in 1 .. next - 1
            BY <1>1, <3>2, MembersKnown
        <3>5. Kind(next) \in {"Special", "HardLink"}
            BY <1>1, <3>3, <3>4 DEF LinksLast
        <3> QED
            BY <1>4, <3>1, <3>5 DEF Named
    <2> QED
        BY <2>1, <2>2
<1>5. ASSUME NEW i \in DOMAIN hardLinks', NEW j \in written',
             Named(j), Entry(j) = hardLinks'[i].target
      PROVE  Superseded(j)
    <2>1. CASE DeferHardLink
        <3> DEFINE h == [member |-> next, source |-> Dest[M.link], target |-> Target]
                   n == Len(hardLinks)
        <3>1. /\ n \in Nat /\ DOMAIN hardLinks = 1 .. n /\ DOMAIN hardLinks' = 1 .. n + 1
              /\ hardLinks'[n + 1] = h
              /\ \A k \in 1 .. n : hardLinks'[k] = hardLinks[k]
            BY <2>1, PendingMore
        <3>2. h.target = Target
            OBVIOUS
        <3> HIDE DEF h, n
        <3>3. CASE i \in 1 .. n
            BY <1>4, <1>5, <3>1, <3>3
        <3>4. CASE i = n + 1
            <4>1. Reached /\ M.kind # "Special" /\ written' = written
                BY <2>1 DEF DeferHardLink, Extracting, reportVars
            <4> QED
                BY <1>5, <3>1, <3>2, <3>4, <4>1, MeetsSamePath
        <3> QED
            BY <3>1, <3>3, <3>4
    <2>2. CASE hardLinks' = hardLinks
        BY <1>4, <1>5, <2>2
    <2>3. hardLinks' = hardLinks \/ DeferHardLink
        BY DEF Turns, Leaves, Removes, SkipMember, DeclineCollision, DeclineName,
           DeclineSpecial, DeclineStripped, ExtractFile, ExtractDir, ExtractSymlink,
           DropPartial, DeclineSymlink, deferredVars
    <2> QED
        BY <2>1, <2>2, <2>3
<1> QED
    BY <1>1, <1>2, <1>3, <1>5, SupersededStays DEF PendingFree

(* The second loop. *)
Links == MakeHardLink \/ DeclineHardLink

LEMMA LinkSteps ==
    ASSUME ExtractInv, PendingFits, Links
    PROVE  /\ LinkTurn /\ phase = "links" /\ phase' = "links" /\ scenario' = scenario
           /\ members' = members /\ hardLinks' = Tail(hardLinks)
           /\ 1 \in DOMAIN hardLinks /\ hardLinks[1] = L /\ Awaited(L)
           /\ L.member \in DOMAIN members /\ L.member \in Nat
           /\ L.source \in Entries /\ L.target \in Entries
           /\ DOMAIN hardLinks' = 1 .. Len(hardLinks) - 1 /\ Len(hardLinks) \in Nat
           /\ \A i \in 1 .. Len(hardLinks) - 1 :
                 /\ hardLinks'[i] = hardLinks[i + 1] /\ i + 1 \in DOMAIN hardLinks
                 /\ L.member < hardLinks[i + 1].member
           /\ OnlyAt(fs, fs', L.target)
           /\ written' = IF MakeHardLink THEN written \cup {L.member} ELSE written
<1>1. /\ LinkTurn /\ phase = "links" /\ phase' = "links" /\ scenario' = scenario
      /\ members' = members /\ hardLinks' = Tail(hardLinks)
      /\ MakeHardLink => written' = written \cup {L.member}
      /\ ~MakeHardLink => written' = written
    BY DEF Links, MakeHardLink, DeclineHardLink, LinkTurn, members
<1>2. hardLinks \in Seq(LinkRecords) /\ hardLinks # <<>>
    BY <1>1, InvParts DEF LinkTurn, DeferredTyped
<1>3. /\ DOMAIN hardLinks' = 1 .. Len(hardLinks) - 1 /\ Len(hardLinks) \in Nat
      /\ DOMAIN hardLinks = 1 .. Len(hardLinks) /\ 1 \in DOMAIN hardLinks
      /\ hardLinks[1] = L
      /\ \A i \in 1 .. Len(hardLinks) - 1 :
            /\ hardLinks'[i] = hardLinks[i + 1] /\ i + 1 \in DOMAIN hardLinks /\ 1 < i + 1
    BY <1>1, <1>2 DEF L
<1>4. /\ L.member \in DOMAIN members /\ L.member \in Nat
      /\ L.source \in Entries /\ L.target \in Entries
    BY <1>3, PendingTyped
<1>5. /\ Awaited(L)
      /\ \A i \in 1 .. Len(hardLinks) - 1 : L.member < hardLinks[i + 1].member
    BY <1>3 DEF PendingFits
<1>6. OnlyAt(fs, fs', L.target)
    BY LinkMadeAt, LinkGoneAt DEF Links, LinkMade, LinkGone
<1> QED
    BY <1>1, <1>3, <1>4, <1>5, <1>6

LEMMA LinksLanded ==
    ASSUME ExtractInv, PendingFits, PendingFree, AllLanded, LinksLast, SourcesStay, Links,
           NEW j \in written, ~Superseded(j)
    PROVE  Landed(j)'
<1>1. Landed(j) /\ j \in DOMAIN members /\ j \in Nat /\ DOMAIN members = 1 .. Len(members)
      /\ Len(members) \in Nat
    BY MembersKnown DEF AllLanded
<1> DEFINE m == L.member
           t == L.target
<1>2. /\ scenario' = scenario /\ members' = members /\ OnlyAt(fs, fs', t)
      /\ m \in DOMAIN members /\ m \in Nat /\ t \in Entries
      /\ Kind(m) = "HardLink" /\ t = Entry(m)
      /\ 1 \in DOMAIN hardLinks /\ hardLinks[1] = L
    BY LinkSteps DEF Awaited
<1>3. Named(j) => Entry(j) # t
    BY <1>2 DEF PendingFree
<1>4. ASSUME Kind(j) = "HardLink" PROVE j < m /\ j \in 1 .. m - 1
    <2>1. j < m
        BY <1>2, <1>4 DEF PendingFree
    <2> QED
        BY <1>1, <1>2, <2>1
<1>5. Selected(m) /\ Entry(j) \in Entries
    BY <1>1, <1>2 DEF Selected, Landed
<1>6. ASSUME Kind(j) = "HardLink" PROVE Entry(j) # t
    <2>1. ASSUME Entry(j) = t PROVE FALSE
        <3>1. members[j].path = members[m].path
            BY <1>2, <1>4, <1>5, <1>6, <2>1 DEF LinksLast, Selected
        <3> QED
            BY <1>1, <1>2, <1>4, <1>6, <3>1 DEF Superseded, Kind
    <2> QED
        BY <2>1
<1> HIDE DEF m, t
<1>7. CASE Entry(j) # t /\ Kind(j) # "HardLink"
    <2>1. SameAt(fs, fs', Entry(j))
        BY <1>2, <1>5, <1>7 DEF OnlyAt
    <2> QED
        BY <1>1, <1>2, <1>7, <2>1, LandedSame
<1>8. CASE Kind(j) = "HardLink"
    <2> DEFINE s == Dest[members[j].link]
    <2>1. s # t
        BY <1>2, <1>4, <1>5, <1>8 DEF SourcesStay
    <2>2. s \in Entries /\ Exists(fs, Entry(j)) /\ fs.dir[Entry(j)] = fs.dir[s]
        BY <1>1, <1>8 DEF Landed, Kind
    <2>3. fs'.dir[Entry(j)] = fs.dir[Entry(j)] /\ fs'.dir[s] = fs.dir[s]
        BY <1>2, <1>5, <1>6, <1>8, <2>1, <2>2 DEF OnlyAt, SameAt
    <2> QED
        BY <1>2, <1>5, <1>8, <2>2, <2>3 DEF Landed, Kind, Selected, Entry, Exists
<1>9. CASE Entry(j) = t /\ Kind(j) # "HardLink"
    <2>1. Kind(j) = "Dir" /\ IsA(fs, Entry(j), "dir")
        BY <1>1, <1>3, <1>9 DEF Landed, Kind, Named
    <2>2. IsA(fs', Entry(j), "dir")
        BY <1>5, <2>1, LinksDirs DEF Links, DirsStay
    <2> QED
        BY <1>2, <1>5, <2>1, <2>2 DEF Landed, Kind, Selected, Entry, IsA, Exists
<1> QED
    BY <1>7, <1>8, <1>9

LEMMA LinkLands ==
    ASSUME ExtractInv, PendingFits, MakeHardLink, NEW j, j = L.member
    PROVE  Landed(j)'
<1>1. /\ members' = members /\ OnlyAt(fs, fs', L.target)
      /\ L.source \in Entries /\ L.target \in Entries /\ Awaited(L)
    BY LinkSteps DEF Links
<1>2. LinkMade
    BY LinkMadeAt
<1>3. fs'.dir[L.source] = fs.dir[L.source] /\ fs'.dir[L.target] = fs.dir[L.source]
      /\ Exists(fs, L.source)
    BY <1>1, <1>2 DEF LinkMade, OnlyAt, SameAt
<1> QED
    BY <1>1, <1>3 DEF Awaited, Landed, Selected, Entry, Kind, Exists

LEMMA LinksFits ==
    ASSUME ExtractInv, PendingFits, Links
    PROVE  PendingFits'
<1>1. /\ members' = members
      /\ DOMAIN hardLinks' = 1 .. Len(hardLinks) - 1 /\ Len(hardLinks) \in Nat
      /\ \A i \in 1 .. Len(hardLinks) - 1 :
            hardLinks'[i] = hardLinks[i + 1] /\ i + 1 \in DOMAIN hardLinks
    BY LinkSteps
<1>2. \A h : Awaited(h) => Awaited(h)'
    BY <1>1 DEF Awaited, Kind, Entry
<1>3. \A i \in 1 .. Len(hardLinks) - 1 : Awaited(hardLinks'[i])
    BY <1>1 DEF PendingFits
<1>4. ASSUME NEW i \in 1 .. Len(hardLinks) - 1, NEW k \in 1 .. Len(hardLinks) - 1, i < k
      PROVE  hardLinks'[i].member < hardLinks'[k].member
    <2>1. i + 1 < k + 1 /\ i + 1 \in DOMAIN hardLinks /\ k + 1 \in DOMAIN hardLinks
        BY <1>1, <1>4
    <2>2. hardLinks[i + 1].member < hardLinks[k + 1].member
        BY <2>1 DEF PendingFits
    <2> QED
        BY <1>1, <2>2
<1> QED
    BY <1>1, <1>2, <1>3, <1>4 DEF PendingFits

LEMMA LinksContent ==
    ASSUME ExtractInv, PendingFits, PendingFree, AllLanded, LinksLast, SourcesStay, Links
    PROVE  AllLanded' /\ PendingFits' /\ PendingFree'
<1>1. /\ scenario' = scenario /\ members' = members /\ L.member \in Nat
      /\ DOMAIN hardLinks' = 1 .. Len(hardLinks) - 1 /\ Len(hardLinks) \in Nat
      /\ \A i \in 1 .. Len(hardLinks) - 1 :
            /\ hardLinks'[i] = hardLinks[i + 1] /\ i + 1 \in DOMAIN hardLinks
            /\ L.member < hardLinks[i + 1].member
      /\ written' = IF MakeHardLink THEN written \cup {L.member} ELSE written
      /\ Kind(L.member) = "HardLink"
    BY LinkSteps DEF Awaited
<1>2. \A j : Kind(j)' = Kind(j) /\ Named(j)' = Named(j) /\ Entry(j)' = Entry(j)
    BY <1>1 DEF Kind, Named, Entry
<1>3. AllLanded'
    <2>1. ASSUME NEW j \in written', ~Superseded(j) PROVE Landed(j)'
        <3>1. CASE j \in written
            BY <2>1, <3>1, LinksLanded
        <3>2. CASE j \notin written
            <4>1. MakeHardLink /\ j = L.member
                BY <1>1, <3>2
            <4> QED
                BY <4>1, LinkLands
        <3> QED
            BY <3>1, <3>2
    <2> QED
        BY <1>1, <2>1, SupersededStays DEF AllLanded
<1>4. PendingFits'
    BY LinksFits
<1>5. PendingFree'
    <2>1. ASSUME NEW i \in 1 .. Len(hardLinks) - 1, NEW j \in written'
          PROVE  /\ Named(j) /\ Entry(j) = hardLinks'[i].target => Superseded(j)
                 /\ Kind(j) = "HardLink" => j < hardLinks'[i].member
        <3>1. CASE j \in written
            BY <1>1, <3>1 DEF PendingFree
        <3>2. CASE j = L.member
            BY <1>1, <3>2 DEF Named
        <3> QED
            BY <1>1, <3>1, <3>2
    <2> QED
        BY <1>1, <1>2, <2>1, SupersededStays DEF PendingFree
<1> QED
    BY <1>3, <1>4, <1>5

(* Nothing is moved: the third loop, and the ends of the loops. *)
LEMMA AllLandedSame ==
    ASSUME AllLanded, UNCHANGED <<scenario, written>>, \A e \in Entries : SameAt(fs, fs', e)
    PROVE  AllLanded'
<1>1. members' = members /\ written' = written
    BY DEF members
<1>2. ASSUME NEW j \in written, ~Superseded(j) PROVE Landed(j)'
    <2>1. Landed(j) /\ Entry(j) \in Entries
        BY <1>2 DEF AllLanded, Landed, Selected
    <2>2. CASE Kind(j) # "HardLink"
        BY <2>1, <2>2, LandedSame
    <2>3. CASE Kind(j) = "HardLink"
        <3>1. Dest[members[j].link] \in Entries
            BY <2>1, <2>3 DEF Landed, Kind
        <3> QED
            BY <1>1, <2>1, <2>3, <3>1 DEF Landed, Kind, Selected, Entry, SameAt, Exists
    <2> QED
        BY <2>2, <2>3
<1> QED
    BY <1>1, <1>2, SupersededStays DEF AllLanded

ContentFits == Direct /\ LinksLast /\ SourcesStay

LEMMA ContentNext ==
    ASSUME ExtractInv, AccountInv, LossInv, ContentInv, ContentFits, [Next]_vars
    PROVE  ContentInv'
<1>1. scenario' = scenario /\ NothingFollowed /\ LinksLast /\ SourcesStay
    BY ScenarioStays DEF ContentFits, Direct
<1>2. members' = members
    BY <1>1 DEF members
<1>3. CASE UNCHANGED vars
    <2>1. /\ fs' = fs /\ written' = written /\ byInode' = byInode /\ hardLinks' = hardLinks
          /\ phase' = phase /\ next' = next
        BY <1>3 DEF vars, reportVars, deferredVars
    <2>2. AllLanded => AllLanded'
        BY <1>1, <2>1, AllLandedSame, SameSelf
    <2>3. (AllRecorded => AllRecorded') /\ (PendingFits => PendingFits') /\ (PendingFree => PendingFree')
        BY <1>2, <2>1 DEF AllRecorded, PendingFits, PendingFree, Superseded, Recorded, Named,
                          Kind, Entry, Awaited
    <2> QED
        BY <2>1, <2>2, <2>3 DEF ContentInv
<1>4. CASE Turns
    <2>1. Turn /\ phase = "members" /\ phase' = phase
        BY <1>4, TurnSteps DEF Turn
    <2>2. /\ OneEach(fs) /\ NodesKnown /\ AllLanded /\ AllRecorded
          /\ PendingFits /\ PendingFree
        BY <2>1 DEF LossInv, TreeInv, ContentInv
    <2>3. AllLanded' /\ AllRecorded'
        BY <1>1, <1>4, <2>2, TurnsAllLanded
    <2>4. PendingFits'
        BY <1>4, <2>2, TurnsFits
    <2>5. PendingFree'
        BY <1>1, <1>4, <2>2, <2>3, TurnsFree
    <2> QED
        BY <2>3, <2>4, <2>5 DEF ContentInv
<1>5. CASE Links
    <2>1. phase = "links" /\ phase' = "links"
        BY <1>5 DEF Links, MakeHardLink, DeclineHardLink, LinkTurn
    <2> QED
        BY <1>1, <1>5, <2>1, LinksContent DEF ContentInv
<1>6. CASE RefusePath \/ AbortOnBadData \/ AbortOnConflict \/ IoFails
    BY <1>6 DEF RefusePath, AbortOnBadData, AbortOnConflict, IoFails, Abort, ContentInv
<1>7. CASE MembersDone \/ LinksDone \/ Finish
    <2>1. /\ fs' = fs /\ written' = written /\ hardLinks' = hardLinks
          /\ phase # "error" /\ phase' # "members"
          /\ phase' \in {"members", "links"} => phase \in {"members", "links"}
        BY <1>7 DEF MembersDone, LinksDone, Finish, reportVars, deferredVars
    <2>2. AllLanded'
        BY <1>1, <2>1, AllLandedSame, SameSelf DEF ContentInv
    <2>3. (PendingFits => PendingFits') /\ (PendingFree => PendingFree')
        BY <1>2, <2>1 DEF PendingFits, PendingFree, Superseded, Named, Kind, Entry, Awaited
    <2> QED
        BY <2>1, <2>2, <2>3 DEF ContentInv
<1>8. CASE StampDir
    <2>1. phase = "times" /\ phase' = phase /\ written' = written
        BY <1>8 DEF StampDir
    <2>2. Stamped
        BY <1>8, <2>1, StampAt DEF LossInv
    <2>3. AllLanded'
        BY <1>1, <2>1, <2>2, AllLandedSame DEF ContentInv, Stamped
    <2> QED
        BY <2>1, <2>3 DEF ContentInv
<1> QED
    BY <1>3, <1>4, <1>5, <1>6, <1>7, <1>8
    DEF Next, Step, Ended, Turns, Leaves, Removes, Links

LEMMA ContentInit ==
    ASSUME Init
    PROVE  ContentInv
BY DEF Init, ContentInv, AllLanded, AllRecorded, PendingFits, PendingFree

(* What has landed is restored. *)
LEMMA LandedRestored ==
    ASSUME ExtractInv, NEW j \in written, Landed(j)
    PROVE  Restored(j)
<1>1. Entry(j) \in Entries /\ Entry(j) # Absent
    BY DestAssumption DEF Landed, Selected
<1>2. IsA(fs, Entry(j), "dir") => IsDir(fs, Entry(j))
    BY <1>1, LeadsHere DEF IsDir, IsA
<1> QED
    BY <1>1, <1>2 DEF Landed, Restored, NodeAt

LEMMA ContentHolds ==
    Spec => [](ExtractInv /\ AccountInv /\ (ContentFits => LossInv /\ ContentInv))
<1>1. Init => (ContentFits => LossInv /\ ContentInv)
    BY LossInit, ContentInit DEF ContentFits, Direct
<1>2. ExtractInv /\ AccountInv /\ (ContentFits => LossInv /\ ContentInv) /\ [Next]_vars
      => (ContentFits => LossInv /\ ContentInv)'
    <2>1. ASSUME [Next]_vars PROVE ContentFits' => ContentFits
        <3>1. scenario' = scenario /\ members' = members
            BY <2>1, ScenarioStays DEF members
        <3>2. (Direct' => Direct) /\ (LinksLast' => LinksLast)
            BY <3>1 DEF Direct, OneEach, Exists, NothingFollowed, LinksLast, Kind, Selected,
               Entry, IsA
        <3>3. SourcesStay' => SourcesStay
            BY <3>1 DEF SourcesStay, Kind, Selected, Entry
        <3> QED
            BY <3>2, <3>3 DEF ContentFits
    <2>2. ContentFits => NothingFollowed
        BY DEF ContentFits, Direct
    <2> QED
        BY <2>1, <2>2, LossNext, ContentNext
<1> QED
    BY <1>1, <1>2, ExtractInit, ExtractNext, AccountInit, AccountNext, PTL DEF Spec

(* What extraction has counted as written is there when it ends, byte for byte, if the
   archive does not name the path again: in every archive that puts nothing but a hard
   link of the same path where it has put a hard link, and no hard link in place of the
   source of an earlier one, and under the conditions of LossTheorem. *)
THEOREM ContentTheorem == Spec => [](ContentFits => ContentLands)
<1>1. ExtractInv /\ (ContentFits => LossInv /\ ContentInv) => (ContentFits => ContentLands)
    BY LandedRestored DEF ContentInv, AllLanded, ContentLands, Finished
<1> QED
    BY <1>1, ContentHolds, PTL

(* If nothing was declined, the last member of each path is what is found there when
   extraction ends, under the conditions of ContentTheorem. *)
THEOREM LaterWinsTheorem == Spec => [](ContentFits => LaterEntryWins)
<1>1. ExtractInv /\ ContentLands /\ Accounted => LaterEntryWins
    <2> SUFFICES ASSUME ContentLands, Accounted, Finished, declined = {},
                        NEW j \in DOMAIN members, Selected(j), ~Superseded(j)
                 PROVE  Restored(j)
        BY DEF LaterEntryWins
    <2>1. {d \in declined : d.member = j} = {}
        OBVIOUS
    <2>2. Cardinality({d \in declined : d.member = j}) = 0
        BY <2>1, FS_EmptySet
    <2>3. j \in written
        BY <2>2 DEF Accounted
    <2> QED
        BY <2>3 DEF ContentLands
<1>2. Spec => []ExtractInv
    BY ContentHolds, PTL
<1> QED
    BY <1>1, <1>2, ContentTheorem, AccountedTheorem, PTL

(* No hard link or directory has the path of an earlier file. *)
FilesStayNamed == \A j \in DOMAIN members : \A i \in 1 .. j - 1 :
    members[i].path = members[j].path /\ Kind(i) = "File" => Kind(j) \notin {"HardLink", "Dir"}

(* The content of every file that was counted as written is on disk when extraction ends,
   if no later file or symbolic link has its path: in every archive that gives the path of
   a file to no hard link or directory, and under the conditions of ContentTheorem. *)
THEOREM SurvivesTheorem == Spec => [](ContentFits /\ FilesStayNamed => ContentSurvives)
<1>1. ExtractInv /\ ContentInv /\ FilesStayNamed => ContentSurvives
    <2> SUFFICES ASSUME ExtractInv, ContentInv, FilesStayNamed, Finished,
                        NEW j \in written, members[j].kind = "File",
                        ~\E i \in DOMAIN members : /\ i > j
                                                   /\ members[i].path = members[j].path
                                                   /\ members[i].kind \in {"File", "Symlink"}
                 PROVE  \E e \in Entries : IsA(fs, e, "file") /\ fs.node[fs.dir[e]].content = j
        BY DEF ContentSurvives
    <2>1. j \in DOMAIN members
        BY MembersKnown
    <2>2. ~Superseded(j)
        <3> SUFFICES ASSUME NEW i \in DOMAIN members, i > j,
                            members[i].path = members[j].path, members[i].kind # "Special"
                     PROVE  FALSE
            BY DEF Superseded
        <3>1. members[i].kind \in {"Dir", "HardLink"}
            BY MembersKnown DEF ArchiveMembers, MemberKinds
        <3>2. j \in 1 .. i - 1
            BY <2>1, MembersKnown
        <3> QED
            BY <3>1, <3>2 DEF FilesStayNamed, Kind
    <2>3. Landed(j)
        BY <2>2 DEF ContentInv, AllLanded, Finished
    <2> QED
        BY <2>3 DEF Landed, Selected, NodeAt
<1> QED
    BY <1>1, ContentHolds, PTL
-----------------------------------------------------------------------------
(* The attributes of what was written. *)

Pending(j) == \E i \in DOMAIN dirTimes : dirTimes[i].member = j
Dressable(j) == Kind(j) \in {"File", "Dir"} /\ LastOnEntry(j)
Attired(j) ==
    LET n == NodeAt(fs, Entry(j)) IN
    /\ Selected(j) /\ IsA(fs, Entry(j), IF Kind(j) = "Dir" THEN "dir" ELSE "file")
    /\ n.xattrs = j \/ Reports(lost, j, "Xattr")
    /\ n.mode = members[j].mode \/ Reports(lost, j, "Mode")
    /\ RestoreMtime => \/ n.mtime = j \/ Reports(lost, j, "Mtime")
                       \/ Kind(j) = "Dir" /\ Pending(j)
AllAttired == \A j \in written : Dressable(j) => Attired(j)

(* The times that wait, in archive order. *)
Timed(t) == Kind(t.member) = "Dir" /\ t.entry = Entry(t.member)
TimesFit == \A i \in DOMAIN dirTimes :
    /\ Timed(dirTimes[i])
    /\ \A k \in DOMAIN dirTimes : i < k => dirTimes[i].member < dirTimes[k].member
TimesWait == RestoreMtime => \A j \in written : Kind(j) = "Dir" => Pending(j)
TimesInOrder == RestoreMtime => \A j \in written : Kind(j) = "Dir" =>
    Pending(j) \/ \A i \in DOMAIN dirTimes : j < dirTimes[i].member

(* No two entries are one directory: it cannot be linked. *)
DirsOneEach == \A a, b \in Entries : IsA(fs, a, "dir") /\ fs.dir[a] = fs.dir[b] => a = b

AttrsInv ==
    /\ phase # "error" => AllAttired /\ TimesFit /\ TimesInOrder /\ DirsOneEach
    /\ phase \in {"members", "links"} => TimesWait /\ PendingFits

(* Where a node stays, so do the attributes; but the time of a directory may not. *)
LEMMA AttiredMore ==
    ASSUME NEW j, Attired(j), scenario' = scenario, lost \subseteq lost',
           SameAt(fs, fs', Entry(j)),
           RestoreMtime /\ Kind(j) = "Dir" => \/ Pending(j)' \/ Reports(lost', j, "Mtime")
                                             \/ NodeAt(fs', Entry(j)).mtime = j
    PROVE  Attired(j)'
<1>1. members' = members /\ Entry(j)' = Entry(j) /\ Kind(j)' = Kind(j)
    BY DEF members, Entry, Kind
<1>2. SameNode(NodeAt(fs, Entry(j)), NodeAt(fs', Entry(j))) /\ Exists(fs', Entry(j))
    BY DEF Attired, IsA, SameAt, Exists
<1>3. RestoreMtime /\ Kind(j) = "Dir" => \/ Pending(j)' \/ Reports(lost', j, "Mtime")
                                         \/ NodeAt(fs', Entry(j)).mtime = j
    OBVIOUS
<1>4. NodeAt(fs, Entry(j)).is = IF Kind(j) = "Dir" THEN "dir" ELSE "file"
    BY DEF Attired, IsA, NodeAt
<1>5. \A k : Reports(lost, j, k) => Reports(lost', j, k)
    BY DEF Reports
<1>6. ~(Kind(j) = "Dir") => NodeAt(fs', Entry(j)).mtime = NodeAt(fs, Entry(j)).mtime
    BY <1>2, <1>4 DEF SameNode
<1>7. IsA(fs', Entry(j), IF Kind(j) = "Dir" THEN "dir" ELSE "file")
    BY <1>2, <1>4 DEF SameNode, IsA, NodeAt
<1>8. /\ NodeAt(fs', Entry(j)).xattrs = NodeAt(fs, Entry(j)).xattrs
      /\ NodeAt(fs', Entry(j)).mode = NodeAt(fs, Entry(j)).mode
    BY <1>2 DEF SameNode
<1>9. Selected(j)' /\ members[j].mode' = members[j].mode
    BY <1>1 DEF Attired, Selected
<1>10. \A k : Reports(lost', j, k) => Reports(lost, j, k)'
    BY DEF Reports
<1> QED
    BY <1>1, <1>3, <1>5, <1>6, <1>7, <1>8, <1>9, <1>10 DEF Attired, IsA, Exists, NodeAt

LEMMA AttiredSame ==
    ASSUME NEW j, Attired(j), scenario' = scenario, lost \subseteq lost',
           SameAt(fs, fs', Entry(j)), dirTimes' = dirTimes,
           RestoreMtime /\ Kind(j) = "Dir" => Pending(j)
    PROVE  Attired(j)'
<1>1. Pending(j) => Pending(j)'
    BY DEF Pending
<1> QED
    BY <1>1, AttiredMore

LEMMA TimesMore ==
    ASSUME ExtractInv, Turns
    PROVE  \/ dirTimes' = dirTimes /\ ~(ExtractDir /\ RestoreMtime)
           \/ ExtractDir /\ dirTimes' = Append(dirTimes, [member |-> next, entry |-> Target])
<1>1. CASE ExtractDir
    BY <1>1 DEF ExtractDir, Extracting, DeferTimes, TimesDeferred
<1>2. CASE ~ExtractDir
    BY <1>2 DEF Turns, Leaves, Removes, SkipMember, DeclineCollision, DeclineName,
       DeclineSpecial, DeclineStripped, DeferHardLink, ExtractFile, DropPartial,
       ExtractSymlink, DeclineSymlink, deferredVars
<1> QED
    BY <1>1, <1>2

LEMMA TimesAppended ==
    ASSUME ExtractInv, NEW t, dirTimes' = Append(dirTimes, t)
    PROVE  /\ Len(dirTimes) \in Nat /\ DOMAIN dirTimes = 1 .. Len(dirTimes)
           /\ DOMAIN dirTimes' = 1 .. Len(dirTimes) + 1
           /\ dirTimes'[Len(dirTimes) + 1] = t
           /\ \A i \in 1 .. Len(dirTimes) : dirTimes'[i] = dirTimes[i]
<1>1. dirTimes \in Seq(TimeRecords)
    BY InvParts DEF DeferredTyped
<1> QED
    BY <1>1

LEMMA TimeKnown ==
    ASSUME ExtractInv, NEW i \in DOMAIN dirTimes
    PROVE  /\ dirTimes[i].member \in DOMAIN members /\ dirTimes[i].member \in Nat
           /\ dirTimes[i].member \in written /\ dirTimes[i].entry \in Entries
<1>1. dirTimes[i].member \in written /\ dirTimes[i].entry \in Entries
    BY TimesTyped, InvParts DEF DeferredTyped, DirsWritten
<1> QED
    BY <1>1, MembersKnown

LEMMA TurnsTimes ==
    ASSUME ExtractInv, AccountInv, Turns, TimesFit, TimesWait
    PROVE  TimesFit' /\ TimesWait'
<1>1. /\ Turn /\ members' = members /\ next \in Nat /\ next \in DOMAIN members
    BY TurnSteps
<1>2. \A t : Timed(t) => Timed(t)'
    BY <1>1 DEF Timed, Kind, Entry
<1>3. /\ written' = written \cup {next} \/ written' = written
      /\ ~ExtractDir => (\A j \in written' : Kind(j) = "Dir" => j \in written)
    <2>1. ~ExtractDir /\ Writes => Kind(next) # "Dir"
        BY DEF Writes, ExtractFile, ExtractSymlink, Extracting, Kind, M
    <2> QED
        BY <2>1, WrittenBy
<1>4. CASE dirTimes' = dirTimes /\ ~(ExtractDir /\ RestoreMtime)
    <2>1. TimesFit'
        BY <1>2, <1>4 DEF TimesFit
    <2>2. TimesWait'
        BY <1>1, <1>3, <1>4 DEF TimesWait, Pending, Kind
    <2> QED
        BY <2>1, <2>2
<1>5. CASE ExtractDir /\ dirTimes' = Append(dirTimes, [member |-> next, entry |-> Target])
    <2> DEFINE t == [member |-> next, entry |-> Target]
               n == Len(dirTimes)
    <2>1. /\ n \in Nat /\ DOMAIN dirTimes = 1 .. n /\ DOMAIN dirTimes' = 1 .. n + 1
          /\ dirTimes'[n + 1] = t
          /\ \A i \in 1 .. n : dirTimes'[i] = dirTimes[i]
        BY <1>5, TimesAppended
    <2>2. t.member = next /\ Timed(t)
        BY <1>5 DEF Timed, ExtractDir, Extracting, Kind, M, Entry, Target
    <2> HIDE DEF t, n
    <2>3. \A i \in 1 .. n : dirTimes[i].member < next /\ dirTimes[i].member \in Nat
        <3>1. \A j \in written : j \in DOMAIN members /\ j \in Nat => j < next
            BY <1>1 DEF AccountInv
        <3> QED
            BY <2>1, <3>1, TimeKnown
    <2>4. ASSUME NEW i \in 1 .. n + 1
          PROVE  /\ Timed(dirTimes'[i])
                 /\ \A k \in 1 .. n + 1 : i < k => dirTimes'[i].member < dirTimes'[k].member
        <3>1. CASE i \in 1 .. n
            <4>1. \A k \in 1 .. n + 1 : k \in 1 .. n \/ k = n + 1
                BY <2>1
            <4> QED
                BY <2>1, <2>2, <2>3, <3>1, <4>1 DEF TimesFit
        <3>2. CASE i = n + 1
            BY <2>1, <2>2, <3>2
        <3> QED
            BY <2>1, <3>1, <3>2
    <2>5. TimesFit'
        BY <1>2, <2>1, <2>4 DEF TimesFit
    <2>6. ASSUME RestoreMtime, NEW j \in written', Kind(j) = "Dir"
          PROVE  \E i \in 1 .. n + 1 : dirTimes'[i].member = j
        <3>1. CASE j = next
            BY <2>1, <2>2, <3>1
        <3>2. CASE j # next
            <4>1. PICK i \in 1 .. n : dirTimes[i].member = j
                BY <1>3, <2>1, <2>6, <3>2 DEF TimesWait, Pending
            <4>2. i \in 1 .. n + 1
                BY <2>1
            <4> QED
                BY <2>1, <4>1, <4>2
        <3> QED
            BY <3>1, <3>2
    <2>7. TimesWait'
        BY <1>1, <2>1, <2>6 DEF TimesWait, Pending, Kind
    <2> QED
        BY <2>5, <2>7
<1> QED
    BY <1>4, <1>5, TimesMore

LEMMA WrittenTyped ==
    ASSUME ExtractInv, NEW j \in written
    PROVE  j \in DOMAIN members /\ j \in Nat /\ members[j] \in ArchiveMembers
BY MembersKnown

(* A turn leaves the attributes of earlier members alone, whose entry is not named
   again. *)
LEMMA TurnsAttired ==
    ASSUME ExtractInv, AccountInv, OneEach(fs), NothingFollowed, NodesKnown, Turns,
           AllAttired, TimesWait, NEW j \in written, Dressable(j)
    PROVE  Attired(j)'
<1>1. /\ Turn /\ scenario' = scenario /\ members' = members /\ next \in Nat
      /\ next \in DOMAIN members
    BY TurnSteps
<1>2. Attired(j) /\ Entry(j) \in Entries /\ Exists(fs, Entry(j))
    BY DEF AllAttired, Attired, Selected, IsA
<1>3. j < next
    BY <1>1, WrittenTyped DEF AccountInv
<1>4. Entry(j) # Target \/ Leaves
    <2>1. Entry(next) # Entry(j) \/ members[next].kind = "Special"
        BY <1>1, <1>3 DEF Dressable, LastOnEntry
    <2>2. ~Leaves => M.kind # "Special"
        BY DEF Turns, Removes, ExtractDir, ExtractFile, DropPartial, ExtractSymlink,
               DeclineSymlink, Extracting
    <2> QED
        BY <2>1, <2>2 DEF Entry, Target, M
<1>5. SameAt(fs, fs', Entry(j))
    <2>1. CASE Leaves /\ Entry(j) = Target
        BY <2>1, LeftAlone
    <2>2. CASE Entry(j) # Target
        BY <1>2, <2>2, TurnsNodes DEF Turned, NewDir
    <2> QED
        BY <1>4, <2>1, <2>2
<1>6. lost \subseteq lost'
    BY DEF Turns, Leaves, Removes, SkipMember, DeclineCollision, DeclineName, DeclineSpecial,
       DeclineStripped, DeferHardLink, DropPartial, DeclineSymlink, Decline, reportVars,
       ExtractFile, ExtractDir, ExtractSymlink, Written
<1>7. RestoreMtime /\ Kind(j) = "Dir" => Pending(j)
    BY DEF TimesWait
<1>8. CASE dirTimes' = dirTimes
    BY <1>1, <1>2, <1>5, <1>6, <1>7, <1>8, AttiredSame
<1>9. CASE dirTimes' = Append(dirTimes, [member |-> next, entry |-> Target])
    <2>1. Pending(j) => Pending(j)'
        BY <1>9, TimesAppended DEF Pending
    <2> QED
        BY <1>1, <1>2, <1>5, <1>6, <1>7, <2>1, AttiredMore
<1> QED
    BY <1>8, <1>9, TimesMore

(* The member at hand has its attributes, or what it has not is reported. *)
LEMMA WritesAttire ==
    ASSUME ExtractInv, OneEach(fs), NothingFollowed, NodesKnown, ExtractFile \/ ExtractDir,
           NEW j, j = next, TimesWait'
    PROVE  Attired(j)'
<1>1. /\ Turns /\ Target \in Entries /\ M = members[j] /\ Entry(j) = Target
    BY DEF Turns, ExtractDir, ExtractFile, Extracting, Reached, M, Entry, Target
<1>2. members' = members /\ scenario' = scenario
    BY <1>1, TurnSteps
<1>3. PICK g : Placed(g) /\ M.kind \in {"Dir", "File"}
    BY FilePlaced, DirPlaced, NoLinkThere DEF ExtractDir, ExtractFile, Extracting
<1>4. Kind(j) = M.kind
    BY <1>1 DEF Kind
<1>5. IsA(fs', Target, IF Kind(j) = "Dir" THEN "dir" ELSE "file")
    BY <1>3, <1>4 DEF Placed, Dressed, IsA, Exists, NodeAt
<1>6. \A k \in Refusals(g) : Reports(lost', j, k)
    BY <1>3 DEF Placed, Written, Reports
<1>7. LET n == NodeAt(fs', Target) IN
      /\ n.xattrs = j \/ Reports(lost', j, "Xattr")
      /\ n.mode = M.mode \/ Reports(lost', j, "Mode")
      /\ n.mtime = j \/ ~RestoreMtime \/ Kind(j) = "Dir" \/ Reports(lost', j, "Mtime")
    BY <1>3, <1>4, <1>6 DEF Placed, Dressed
<1>8. RestoreMtime /\ Kind(j) = "Dir" => Pending(j)'
    <2>1. j \in written'
        BY <1>3 DEF Placed, Written
    <2> QED
        BY <1>2, <2>1 DEF TimesWait, Kind
<1>9. \A k : Reports(lost', j, k) => Reports(lost, j, k)'
    BY DEF Reports
<1>10. Selected(j)' /\ Entry(j)' = Target /\ Kind(j)' = Kind(j) /\ members'[j] = M
    BY <1>1, <1>2 DEF Selected, Entry, Kind
<1> QED
    BY <1>5, <1>7, <1>8, <1>9, <1>10 DEF Attired, IsA, Exists, NodeAt

LEMMA TurnsAllAttired ==
    ASSUME ExtractInv, AccountInv, OneEach(fs), NothingFollowed, NodesKnown, Turns,
           AllAttired, TimesWait, TimesWait'
    PROVE  AllAttired'
<1>1. members' = members
    BY TurnSteps
<1>2. ASSUME NEW j \in written', Dressable(j) PROVE Attired(j)'
    <2>1. CASE j \in written
        BY <1>2, <2>1, TurnsAttired
    <2>2. CASE j \notin written
        <3>1. Writes /\ j = next
            BY <2>2, WrittenBy
        <3>2. ExtractFile \/ ExtractDir
            BY <1>2, <3>1 DEF Writes, ExtractSymlink, Extracting, Dressable, Kind, M
        <3> QED
            BY <3>1, <3>2, WritesAttire
    <2> QED
        BY <2>1, <2>2
<1>3. \A j : Dressable(j)' => Dressable(j)
    BY <1>1 DEF Dressable, Kind, LastOnEntry, Entry
<1> QED
    BY <1>2, <1>3 DEF AllAttired

(* No hard link takes the place of a file or a directory named last. *)
LEMMA LinksAttired ==
    ASSUME ExtractInv, PendingFits, LinksLast, Links, AllAttired, TimesWait
    PROVE  AllAttired' /\ TimesWait'
<1> DEFINE m == L.member
           t == L.target
<1>1. /\ scenario' = scenario /\ members' = members /\ OnlyAt(fs, fs', t)
      /\ m \in DOMAIN members /\ m \in Nat /\ t \in Entries
      /\ Kind(m) = "HardLink" /\ t = Entry(m)
      /\ written' = written \/ written' = written \cup {m}
    BY LinkSteps DEF Awaited
<1>2. lost' = lost /\ dirTimes' = dirTimes
    BY DEF Links, MakeHardLink, DeclineHardLink
<1> HIDE DEF m, t
<1>3. \A j \in written' : Kind(j) \in {"File", "Dir"} => j \in written
    BY <1>1
<1>4. ASSUME NEW j \in written, Dressable(j) PROVE Attired(j)'
    <2>1. /\ Attired(j) /\ Entry(j) \in Entries /\ Kind(j) \in {"File", "Dir"}
          /\ j \in DOMAIN members /\ j \in Nat
        BY <1>4, WrittenTyped DEF AllAttired, Attired, Selected, Dressable
    <2>2. ASSUME Entry(j) = t PROVE FALSE
        <3>1. ~(m > j)
            BY <1>1, <1>4, <2>2 DEF Dressable, LastOnEntry, Kind
        <3>2. m # j
            BY <1>1, <2>1
        <3>3. m \in 1 .. j - 1
            BY <1>1, <2>1, <3>1, <3>2, MembersKnown
        <3>4. Selected(m)
            BY <1>1 DEF Selected
        <3> QED
            BY <1>1, <2>1, <2>2, <3>3, <3>4 DEF LinksLast
    <2>3. SameAt(fs, fs', Entry(j))
        BY <1>1, <2>1, <2>2 DEF OnlyAt
    <2>4. RestoreMtime /\ Kind(j) = "Dir" => Pending(j)
        BY DEF TimesWait
    <2> QED
        BY <1>1, <1>2, <2>1, <2>3, <2>4, AttiredSame
<1>5. \A j : Dressable(j)' => Dressable(j)
    BY <1>1 DEF Dressable, Kind, LastOnEntry, Entry
<1>6. AllAttired'
    BY <1>3, <1>4, <1>5 DEF AllAttired, Dressable
<1>7. TimesWait'
    BY <1>1, <1>2, <1>3 DEF TimesWait, Pending, Kind
<1> QED
    BY <1>6, <1>7

LEMMA LinksDirsOne ==
    ASSUME ExtractInv, Links, DirsOneEach
    PROVE  DirsOneEach'
<1>1. L.target \in Entries /\ L.source \in Entries
    BY LinkFacts DEF Links, MakeHardLink, DeclineHardLink, LinkRecords
<1>2. CASE LinkMade
    <2>1. OnlyAt(fs, fs', L.target) /\ fs'.dir[L.target] = fs.dir[L.source]
        BY <1>2 DEF LinkMade
    <2>2. NodeAt(fs', L.target).is # "dir"
        BY <1>2 DEF LinkMade, SameNode, IsA, NodeAt
    <2>3. ASSUME NEW a \in Entries, NEW b \in Entries, IsA(fs', a, "dir"), fs'.dir[a] = fs'.dir[b]
          PROVE  a = b
        <3>1. a # L.target /\ b # L.target
            BY <2>2, <2>3 DEF IsA, NodeAt
        <3>2. SameAt(fs, fs', a) /\ SameAt(fs, fs', b)
            BY <2>1, <3>1 DEF OnlyAt
        <3>3. IsA(fs, a, "dir") /\ fs.dir[a] = fs.dir[b]
            BY <2>3, <3>2 DEF SameAt, SameNode, IsA, Exists, NodeAt
        <3> QED
            BY <3>3 DEF DirsOneEach
    <2> QED
        BY <2>3 DEF DirsOneEach, IsA, Exists
<1>3. CASE LinkGone /\ fs' = fs
    BY <1>3 DEF DirsOneEach, IsA, Exists
<1>4. CASE LinkGone /\ ~Exists(fs', L.target)
    <2>1. OnlyAt(fs, fs', L.target)
        BY <1>4 DEF LinkGone
    <2>2. ASSUME NEW a \in Entries, NEW b \in Entries, IsA(fs', a, "dir"), fs'.dir[a] = fs'.dir[b]
          PROVE  a = b
        <3>1. a # L.target /\ b # L.target
            BY <1>4, <2>2 DEF IsA, Exists
        <3>2. SameAt(fs, fs', a) /\ SameAt(fs, fs', b)
            BY <2>1, <3>1 DEF OnlyAt
        <3>3. IsA(fs, a, "dir") /\ fs.dir[a] = fs.dir[b]
            BY <2>2, <3>2 DEF SameAt, SameNode, IsA, Exists, NodeAt
        <3> QED
            BY <3>3 DEF DirsOneEach
    <2> QED
        BY <2>2 DEF DirsOneEach, IsA, Exists
<1> QED
    BY <1>2, <1>3, <1>4, LinkMadeAt, LinkGoneAt DEF Links, LinkGone

(* The time of a directory is set once, in archive order: by the last member there. *)
LEMMA StampsTimes ==
    ASSUME ExtractInv, StampDir, TimesFit, TimesInOrder
    PROVE  /\ TimesFit' /\ TimesInOrder' /\ Timed(T) /\ members' = members
           /\ \A j : Pending(j) => Pending(j)' \/ j = T.member
           /\ RestoreMtime => \A j \in written :
                 Kind(j) = "Dir" => Pending(j) \/ j < T.member
<1> DEFINE n == Len(dirTimes)
<1>1. /\ dirTimes # <<>> /\ dirTimes' = Tail(dirTimes) /\ written' = written
      /\ members' = members
    BY DEF StampDir, members
<1>2. /\ T = dirTimes[1] /\ 1 \in DOMAIN dirTimes /\ n \in Nat /\ DOMAIN dirTimes' = 1 .. n - 1
      /\ \A i \in 1 .. n - 1 : dirTimes'[i] = dirTimes[i + 1] /\ i + 1 \in DOMAIN dirTimes
    BY <1>1, TimeFacts
<1>3. DOMAIN dirTimes = 1 .. n
    <2>1. dirTimes \in Seq(TimeRecords)
        BY InvParts DEF DeferredTyped
    <2> QED
        BY <2>1
<1> HIDE DEF n
<1>4. \A i \in 1 .. n - 1 : T.member < dirTimes'[i].member /\ 1 < i + 1
    BY <1>2 DEF TimesFit
<1>5. ASSUME NEW j, Pending(j), j # T.member
      PROVE  \E i \in 1 .. n - 1 : dirTimes'[i].member = j
    <2>1. PICK i \in 1 .. n : dirTimes[i].member = j
        BY <1>3, <1>5 DEF Pending
    <2>2. i # 1
        BY <1>2, <1>5, <2>1
    <2>3. i - 1 \in 1 .. n - 1 /\ (i - 1) + 1 = i
        BY <1>2, <2>2
    <2> QED
        BY <1>2, <2>1, <2>3
<1>6. \A j : Pending(j) => Pending(j)' \/ j = T.member
    BY <1>2, <1>5 DEF Pending
<1>7. TimesFit'
    <2>1. \A t : Timed(t) => Timed(t)'
        BY <1>1 DEF Timed, Kind, Entry
    <2>2. \A i \in 1 .. n - 1 : Timed(dirTimes'[i])
        BY <1>2 DEF TimesFit
    <2>3. ASSUME NEW i \in 1 .. n - 1, NEW k \in 1 .. n - 1, i < k
          PROVE  dirTimes'[i].member < dirTimes'[k].member
        <3>1. i + 1 \in DOMAIN dirTimes /\ k + 1 \in DOMAIN dirTimes
            BY <1>2
        <3>2. i + 1 < k + 1
            BY <2>3
        <3>3. dirTimes[i + 1].member < dirTimes[k + 1].member
            BY <3>1, <3>2 DEF TimesFit
        <3> QED
            BY <1>2, <3>3
    <2> QED
        BY <1>2, <2>1, <2>2, <2>3 DEF TimesFit
<1>8. RestoreMtime => \A j \in written : Kind(j) = "Dir" => Pending(j) \/ j < T.member
    BY <1>2 DEF TimesInOrder
<1>9. TimesInOrder'
    <2>1. ASSUME RestoreMtime, NEW j \in written, Kind(j) = "Dir"
          PROVE  \/ \E i \in 1 .. n - 1 : dirTimes'[i].member = j
                 \/ \A i \in 1 .. n - 1 : j < dirTimes'[i].member
        <3>1. CASE Pending(j)
            BY <1>4, <1>5, <3>1
        <3>2. CASE ~Pending(j)
            BY <1>2, <2>1, <3>2 DEF TimesInOrder
        <3> QED
            BY <3>1, <3>2
    <2> QED
        BY <1>1, <1>2, <2>1 DEF TimesInOrder, Pending, Kind
<1>10. Timed(T)
    BY <1>2 DEF TimesFit
<1> QED
    BY <1>1, <1>6, <1>7, <1>8, <1>9, <1>10

LEMMA StampsAttired ==
    ASSUME ExtractInv, DirsThere, StampDir, AllAttired, TimesFit, TimesInOrder, DirsOneEach
    PROVE  AllAttired' /\ DirsOneEach'
<1>1. Stamped /\ dirTimes # <<>>
    BY StampAt DEF StampDir
<1>2. /\ Timed(T) /\ members' = members /\ written' = written /\ scenario' = scenario
      /\ \A j : Pending(j) => Pending(j)' \/ j = T.member
      /\ RestoreMtime => \A j \in written : Kind(j) = "Dir" => Pending(j) \/ j < T.member
    BY StampsTimes DEF StampDir
<1>3. T.member \in DOMAIN members /\ T.entry \in Entries /\ T.member \in Nat
    BY <1>1, TimeFacts
<1>4. lost \subseteq lost' /\ \A x \in Entries : SameAt(fs, fs', x)
    BY <1>1 DEF Stamped
<1>5. ASSUME NEW j \in written, Dressable(j) PROVE Attired(j)'
    <2>1. /\ Attired(j) /\ Entry(j) \in Entries /\ j \in Nat /\ Exists(fs, Entry(j))
          /\ Kind(j) = "Dir" => IsA(fs, Entry(j), "dir")
        BY <1>5, WrittenTyped DEF AllAttired, Attired, Selected, IsA
    <2>2. ASSUME RestoreMtime, Kind(j) = "Dir", ~Pending(j)'
          PROVE  Reports(lost', j, "Mtime") \/ NodeAt(fs', Entry(j)).mtime = j
        <3>1. CASE j = T.member
            <4>1. T.entry = Entry(j)
                BY <1>2, <3>1 DEF Timed
            <4> QED
                BY <1>1, <3>1, <4>1 DEF Stamped, Reports
        <3>2. CASE j # T.member
            <4>1. ~Pending(j) /\ j < T.member
                BY <1>2, <2>2, <3>2
            <4>2. T.entry # Entry(j)
                <5>1. Kind(T.member) = "Dir" /\ T.entry = Entry(T.member)
                    BY <1>2 DEF Timed
                <5> QED
                    BY <1>3, <1>5, <2>1, <4>1, <5>1 DEF Dressable, LastOnEntry, Kind
            <4>3. fs.dir[Entry(j)] # fs.dir[T.entry]
                BY <1>3, <2>1, <2>2, <4>2 DEF DirsOneEach
            <4>4. NodeAt(fs', Entry(j)) = NodeAt(fs, Entry(j))
                BY <1>1, <2>1, <4>3 DEF Stamped
            <4>5. NodeAt(fs, Entry(j)).mtime = j \/ Reports(lost, j, "Mtime")
                BY <2>1, <2>2, <4>1 DEF Attired
            <4> QED
                BY <1>4, <4>4, <4>5 DEF Reports
        <3> QED
            BY <3>1, <3>2
    <2> QED
        BY <1>2, <1>4, <2>1, <2>2, AttiredMore
<1>6. \A j : Dressable(j)' => Dressable(j)
    BY <1>2 DEF Dressable, Kind, LastOnEntry, Entry
<1>7. AllAttired'
    BY <1>2, <1>5, <1>6 DEF AllAttired
<1>8. ASSUME NEW a \in Entries, NEW b \in Entries, IsA(fs', a, "dir"), fs'.dir[a] = fs'.dir[b]
      PROVE  a = b
    <2>1. SameAt(fs, fs', a) /\ SameAt(fs, fs', b)
        BY <1>4
    <2>2. IsA(fs, a, "dir") /\ fs.dir[a] = fs.dir[b]
        BY <1>8, <2>1 DEF SameAt, SameNode, IsA, Exists, NodeAt
    <2> QED
        BY <2>2 DEF DirsOneEach
<1>9. DirsOneEach'
    BY <1>8 DEF DirsOneEach, IsA, Exists
<1> QED
    BY <1>7, <1>9
AttrsFit == Direct /\ LinksLast

LEMMA AttrsNext ==
    ASSUME ExtractInv, AccountInv, LossInv, AttrsInv, AttrsFit, [Next]_vars
    PROVE  AttrsInv'
<1>1. scenario' = scenario /\ members' = members /\ NothingFollowed /\ LinksLast
    BY ScenarioStays DEF AttrsFit, Direct, members
<1>2. CASE /\ UNCHANGED <<fs, written, lost, dirTimes, hardLinks>>
           /\ phase # "error"
           /\ phase' \in {"members", "links"} => phase \in {"members", "links"}
    <2>1. /\ fs' = fs /\ written' = written /\ lost' = lost /\ dirTimes' = dirTimes
          /\ hardLinks' = hardLinks
        BY <1>2
    <2>2. AllAttired => AllAttired'
        <3>1. ASSUME NEW j, Attired(j) PROVE Attired(j)'
            <4>1. Pending(j) => Pending(j)'
                BY <2>1 DEF Pending
            <4>2. RestoreMtime /\ Kind(j) = "Dir" =>
                    Pending(j)' \/ Reports(lost', j, "Mtime") \/ NodeAt(fs', Entry(j)).mtime = j
                BY <2>1, <3>1, <4>1 DEF Attired
            <4> QED
                BY <1>1, <2>1, <3>1, <4>2, SameSelf, AttiredMore
        <3>2. \A j : Dressable(j)' => Dressable(j)
            BY <1>1 DEF Dressable, Kind, LastOnEntry, Entry
        <3> QED
            BY <2>1, <3>1, <3>2 DEF AllAttired
    <2>3. /\ TimesFit => TimesFit'
          /\ TimesInOrder => TimesInOrder'
          /\ TimesWait => TimesWait'
        BY <1>1, <2>1 DEF TimesFit, Timed, TimesInOrder, TimesWait, Pending, Kind, Entry
    <2>4. DirsOneEach => DirsOneEach'
        BY <2>1 DEF DirsOneEach, IsA, Exists
    <2>5. PendingFits => PendingFits'
        BY <1>1, <2>1 DEF PendingFits, Awaited, Kind, Entry
    <2> QED
        BY <1>2, <2>2, <2>3, <2>4, <2>5 DEF AttrsInv
<1>3. CASE phase' = "error"
    BY <1>3 DEF AttrsInv
<1>4. CASE Turns
    <2>1. Turn /\ phase = "members" /\ phase' = phase
        BY <1>4, TurnSteps DEF Turn
    <2>2. /\ OneEach(fs) /\ NodesKnown /\ AllAttired /\ TimesFit /\ TimesWait /\ PendingFits
        BY <2>1 DEF LossInv, TreeInv, AttrsInv
    <2>3. TimesFit' /\ TimesWait'
        BY <1>4, <2>2, TurnsTimes
    <2>4. AllAttired'
        BY <1>1, <1>4, <2>2, <2>3, TurnsAllAttired
    <2>5. PendingFits'
        BY <1>4, <2>2, TurnsFits
    <2>6. DirsOneEach'
        <3>1. OneEach(fs')
            BY <1>4, <2>2, TurnsOneEach
        <3> QED
            BY <3>1 DEF DirsOneEach, OneEach, IsA, Exists
    <2>7. TimesInOrder'
        BY <2>3 DEF TimesWait, TimesInOrder
    <2> QED
        BY <2>3, <2>4, <2>5, <2>6, <2>7 DEF AttrsInv
<1>5. CASE Links
    <2>1. phase = "links" /\ phase' = "links" /\ dirTimes' = dirTimes
        BY <1>5 DEF Links, MakeHardLink, DeclineHardLink, LinkTurn
    <2>2. AllAttired /\ TimesFit /\ TimesWait /\ PendingFits /\ DirsOneEach
        BY <2>1 DEF AttrsInv
    <2>3. AllAttired' /\ TimesWait' /\ PendingFits' /\ DirsOneEach'
        BY <1>1, <1>5, <2>2, LinksAttired, LinksFits, LinksDirsOne
    <2>4. TimesFit'
        BY <1>1, <2>1, <2>2 DEF TimesFit, Timed, Kind, Entry
    <2>5. TimesInOrder'
        BY <2>3 DEF TimesWait, TimesInOrder
    <2> QED
        BY <2>1, <2>3, <2>4, <2>5 DEF AttrsInv
<1>6. CASE StampDir
    <2>1. phase = "times" /\ phase' = phase
        BY <1>6 DEF StampDir
    <2>2. DirsThere /\ AllAttired /\ TimesFit /\ TimesInOrder /\ DirsOneEach
        BY <2>1 DEF LossInv, AttrsInv
    <2>3. AllAttired' /\ DirsOneEach' /\ TimesFit' /\ TimesInOrder'
        BY <1>6, <2>2, StampsAttired, StampsTimes
    <2> QED
        BY <2>1, <2>3 DEF AttrsInv
<1>7. CASE phase = "error" /\ UNCHANGED vars
    BY <1>7 DEF AttrsInv, vars
<1>8. [Next]_vars => \/ UNCHANGED vars \/ Turns \/ Links \/ StampDir
                     \/ RefusePath \/ AbortOnBadData \/ AbortOnConflict \/ IoFails
                     \/ MembersDone \/ LinksDone \/ Finish
    BY DEF Next, Step, Ended, Turns, Leaves, Removes, Links
<1>9. (UNCHANGED vars /\ phase # "error") \/ MembersDone \/ LinksDone \/ Finish
      => /\ UNCHANGED <<fs, written, lost, dirTimes, hardLinks>>
         /\ phase # "error"
         /\ phase' \in {"members", "links"} => phase \in {"members", "links"}
    BY DEF MembersDone, LinksDone, Finish, reportVars, deferredVars, vars
<1>10. RefusePath \/ AbortOnBadData \/ AbortOnConflict \/ IoFails => phase' = "error"
    BY DEF RefusePath, AbortOnBadData, AbortOnConflict, IoFails, Abort
<1> QED
    BY <1>2, <1>3, <1>4, <1>5, <1>6, <1>7, <1>8, <1>9, <1>10

LEMMA AttrsInit ==
    ASSUME Init, OneEach(scenario.prior)
    PROVE  AttrsInv
BY DEF Init, AttrsInv, AllAttired, TimesFit, TimesInOrder, TimesWait, PendingFits,
       DirsOneEach, OneEach, IsA, Exists

LEMMA AttiredRestored ==
    ASSUME dirTimes = <<>>, NEW j, Attired(j)
    PROVE  LET n == fs.node[Inode(j)] IN
           /\ n.xattrs = j \/ Reports(lost, j, "Xattr")
           /\ n.mode = members[j].mode \/ Reports(lost, j, "Mode")
           /\ RestoreMtime => n.mtime = j \/ Reports(lost, j, "Mtime")
<1>1. ~Pending(j)
    BY DEF Pending
<1>2. ~IsA(fs, Entry(j), "symlink")
    BY DEF Attired, IsA
<1>3. fs.node[Inode(j)] = NodeAt(fs, Entry(j))
    BY <1>2, LeadsHere DEF Inode, NodeAt
<1> QED
    BY <1>1, <1>3 DEF Attired

(* What extraction has counted as written has, when it ends, every attribute that is
   not reported as lost, if the archive names its entry no more: in every archive that
   puts nothing but a hard link of the same path where it has put a hard link, and under
   the conditions of LossTheorem. *)
THEOREM MetadataTheorem == Spec => [](AttrsFit => MetadataRestored)
<1>1. Init => (AttrsFit => LossInv /\ AttrsInv)
    BY LossInit, AttrsInit DEF AttrsFit, Direct
<1>2. ExtractInv /\ AccountInv /\ (AttrsFit => LossInv /\ AttrsInv) /\ [Next]_vars
      => (AttrsFit => LossInv /\ AttrsInv)'
    <2>1. ASSUME [Next]_vars PROVE AttrsFit' => AttrsFit
        <3>1. scenario' = scenario /\ members' = members
            BY <2>1, ScenarioStays DEF members
        <3>2. (Direct' => Direct) /\ (LinksLast' => LinksLast)
            BY <3>1 DEF Direct, OneEach, Exists, NothingFollowed, LinksLast, Kind, Selected,
               Entry, IsA
        <3> QED
            BY <3>2 DEF AttrsFit
    <2>2. AttrsFit => NothingFollowed
        BY DEF AttrsFit, Direct
    <2> QED
        BY <2>1, <2>2, LossNext, AttrsNext
<1>3. AttrsInv /\ Finished /\ dirTimes = <<>> => MetadataRestored
    <2> SUFFICES ASSUME AttrsInv, Finished, dirTimes = <<>>, NEW j \in written, Dressable(j)
                 PROVE  LET n == fs.node[Inode(j)] IN
                        /\ n.xattrs = j \/ Reports(lost, j, "Xattr")
                        /\ n.mode = members[j].mode \/ Reports(lost, j, "Mode")
                        /\ RestoreMtime => n.mtime = j \/ Reports(lost, j, "Mtime")
        BY DEF MetadataRestored, Dressable, Kind
    <2>1. Attired(j)
        BY DEF AttrsInv, Finished, AllAttired
    <2> QED
        BY <2>1, AttiredRestored
<1>4. (AttrsFit => LossInv /\ AttrsInv) /\ (Finished => dirTimes = <<>>)
      => (AttrsFit => MetadataRestored)
    BY <1>3 DEF MetadataRestored
<1>5. Init => (Finished => dirTimes = <<>>)
    BY DEF Init
<1>6. (Finished => dirTimes = <<>>) /\ [Next]_vars => (Finished => dirTimes = <<>>)'
    <2>1. ASSUME (Finished => dirTimes = <<>>), [Next]_vars, Finished' PROVE dirTimes' = <<>>
        BY <2>1 DEF Finished, Next, Step, SkipMember, RefusePath, DeclineCollision, DeclineName,
           DeclineSpecial, ExtractDir, ExtractFile, DropPartial, AbortOnBadData,
           AbortOnConflict, ExtractSymlink, DeclineSymlink, DeferHardLink, DeclineStripped,
           MembersDone, MakeHardLink, DeclineHardLink, LinksDone, StampDir, Finish, IoFails,
           Ended, Advance, Abort, Extracting, Reached, Turn, LinkTurn, deferredVars, vars
    <2> QED
        BY <2>1
<1> QED
    BY <1>1, <1>2, <1>4, <1>5, <1>6, ExtractInit, ExtractNext, AccountInit, AccountNext, PTL
    DEF Spec
-----------------------------------------------------------------------------
(* What is left where a member was declined. *)

(* A destination that could have been made by an extraction, and bad files only where
   they can be removed: where their directory can have become read-only, nothing is
   there before. *)
CleanTree(f) == \A e \in Entries : Exists(f, e) =>
    ParentDir(f, e) /\ (IsA(f, e, "file") => NodeAt(f, e).content # Garbage)
Removable == \A j \in DOMAIN members :
    /\ Kind(j) = "File" /\ Selected(j) /\ SkipBad
    /\ Parent[Entry(j)] # Top /\ ReadOnlyBefore(Parent[Entry(j)], j)
    => ~Exists(scenario.prior, Entry(j)) /\ \A i \in 1 .. j - 1 : Entry(i) # Entry(j)
DeclineFits == Direct /\ CleanTree(scenario.prior) /\ Removable

(* Every entry comes from a member that was written, or was there before, or is the
   parent of one. *)
Origin(e) ==
    \/ \E j \in written : Entry(j) = e
    \/ Exists(scenario.prior, e)
    \/ \E j \in DOMAIN members : Selected(j) /\ Parent[Entry(j)] = e
WholeAt(e) == IsA(fs, e, "file") => NodeAt(fs, e).content # Garbage
AllWhole == \A e \in Entries : Exists(fs, e) => Origin(e) /\ WholeAt(e)
SaneTree == \A e \in Entries : Exists(fs, e) => ParentDir(fs, e)

CleanInv ==
    /\ phase # "error" => AllWhole
    /\ phase \in {"members", "links"} => PendingFits
    /\ phase = "members" => SaneTree

LEMMA OriginStays ==
    ASSUME NEW e, Origin(e), scenario' = scenario, written \subseteq written'
    PROVE  Origin(e)'
BY DEF Origin, Selected, Entry, members, Exists

LEMMA WholeSame ==
    ASSUME NEW e, Exists(fs, e) => Origin(e) /\ WholeAt(e), SameAt(fs, fs', e),
           scenario' = scenario, written \subseteq written'
    PROVE  (Exists(fs, e) => Origin(e) /\ WholeAt(e))'
<1>1. Exists(fs', e) => Exists(fs, e)
    BY DEF SameAt, Exists
<1>2. Exists(fs, e) /\ WholeAt(e) => WholeAt(e)'
    BY DEF WholeAt, SameAt, SameNode, IsA, Exists, NodeAt
<1>3. Exists(fs, e)' => Exists(fs', e)
    BY DEF Exists
<1> QED
    BY <1>1, <1>2, <1>3, OriginStays

(* A turn does not leave a partial file in place. *)
LEMMA NoPartialStays ==
    ASSUME ExtractInv, AccountInv, OneEach(fs), NothingFollowed, NodesKnown, DropPartial,
           AllWhole, SaneTree, Removable
    PROVE  ~Exists(fs', Target)
<1>1. /\ Turns /\ Turn /\ Target \in Entries /\ M.kind = "File" /\ SkipBad
    BY DEF DropPartial, Extracting, Reached, Turns, Removes
<1>2. /\ next \in Nat /\ next \in DOMAIN members /\ Entry(next) = Target /\ Kind(next) = "File"
    BY <1>1, TurnFacts DEF Entry, Target, M, Kind
<1>3. SUFFICES ASSUME PartialStays PROVE FALSE
    BY <1>1, PartialDropped, NoLinkThere
<1>4. Exists(fs, Target) /\ ~Writable(fs', Target)
    BY <1>3 DEF PartialStays
<1> DEFINE p == Parent[Target]
<1>5. p # Top /\ p \in Entries \ {Target}
    BY <1>1, <1>4, ParentIsOther DEF Writable
<1>6. IsA(fs, p, "dir")
    BY <1>1, <1>4, <1>5 DEF SaneTree, ParentDir
<1>7. SameAt(fs, fs', p)
    BY <1>1, <1>5, <1>6, TurnsNodes DEF Turned, NewDir, IsA
<1>8. ReadOnly(fs, p)
    <2>1. IsA(fs', p, "dir") /\ NodeAt(fs', p).mode = NodeAt(fs, p).mode
        BY <1>6, <1>7 DEF SameAt, SameNode, IsA, Exists, NodeAt
    <2>2. NodeAt(fs', p).mode # "rw"
        BY <1>4, <1>5, <2>1 DEF Writable, NodeAt
    <2>3. NodeAt(fs, p) \in Nodes
        <3>1. fs \in FileSystems
            BY InvParts
        <3> QED
            BY <1>5, <1>6, <3>1 DEF FileSystems, NodeAt, IsA, Exists
    <2> QED
        BY <1>6, <2>1, <2>2, <2>3 DEF ReadOnly, IsA, Nodes, Modes
<1>9. ReadOnlyBefore(p, next)
    BY <1>5, <1>8 DEF NodesKnown
<1>10. ~Exists(scenario.prior, Target) /\ \A i \in 1 .. next - 1 : Entry(i) # Target
    BY <1>1, <1>2, <1>5, <1>9 DEF Removable, Selected
<1>11. Origin(Target)
    BY <1>1, <1>4 DEF AllWhole
<1>12. CASE \E j \in written : Entry(j) = Target
    <2>1. PICK j \in written : Entry(j) = Target
        BY <1>12
    <2>2. j \in DOMAIN members /\ j \in Nat /\ j < next
        BY <1>2, WrittenTyped DEF AccountInv
    <2>3. j \in 1 .. next - 1
        BY <1>2, <2>2, MembersKnown
    <2> QED
        BY <1>10, <2>1, <2>3
<1>13. CASE \E j \in DOMAIN members : Selected(j) /\ Parent[Entry(j)] = Target
    BY <1>1, <1>5, <1>13, ParentAssumption DEF Selected
<1> QED
    BY <1>10, <1>11, <1>12, <1>13 DEF Origin

(* The entry of the member at hand after its turn. *)
LEMMA TurnsTarget ==
    ASSUME ExtractInv, AccountInv, OneEach(fs), NothingFollowed, NodesKnown, Turns,
           AllWhole, SaneTree, Removable, Target \in Entries
    PROVE  \/ SameAt(fs, fs', Target)
           \/ ~Exists(fs', Target)
           \/ /\ Writes /\ (Exists(fs, Target) \/ ParentDir(fs', Target))
              /\ IsA(fs', Target, "file") => NodeAt(fs', Target).content = next
<1>1. CASE Leaves
    BY <1>1, LeftAlone
<1>2. CASE ExtractDir \/ ExtractFile
    <2>1. PICK g : Placed(g) /\ M.kind \in {"Dir", "File"}
        BY <1>2, FilePlaced, DirPlaced, NoLinkThere DEF ExtractDir, ExtractFile, Extracting
    <2>2. Exists(fs, Target) \/ ParentDir(fs', Target)
        BY <2>1, ParentDirKept DEF Placed, Dressed
    <2>3. IsA(fs', Target, "file") => NodeAt(fs', Target).content = next
        BY <2>1 DEF Placed, Dressed, IsA, Exists, NodeAt
    <2> QED
        BY <1>2, <2>2, <2>3 DEF Writes
<1>3. CASE ExtractSymlink
    BY <1>3, SymlinkPlaced DEF LinkPlaced, Writes, IsA
<1>4. CASE DeclineSymlink
    BY <1>4, SymlinkDeclined
<1>5. CASE DropPartial
    BY <1>5, NoPartialStays
<1> QED
    BY <1>1, <1>2, <1>3, <1>4, <1>5 DEF Turns, Removes

LEMMA TurnsClean ==
    ASSUME ExtractInv, AccountInv, OneEach(fs), NothingFollowed, NodesKnown, Turns,
           AllWhole, SaneTree, Removable
    PROVE  AllWhole' /\ SaneTree'
<1>1. /\ Turn /\ scenario' = scenario /\ members' = members /\ next \in Nat
      /\ next \in DOMAIN members
    BY TurnSteps
<1>2. /\ written \subseteq written'
      /\ Writes => next \in written'
      /\ Turned(fs, fs', Target) /\ DirsStay
    BY WrittenBy, TurnsNodes, TurnsDirs
<1>3. fs' = fs \/ (Target \in Entries /\ Selected(next) /\ Entry(next) = Target)
    BY DEF Turns, Leaves, Removes, SkipMember, DeclineCollision, DeclineName, DeclineSpecial,
       DeclineStripped, DeferHardLink, ExtractDir, ExtractFile, DropPartial, ExtractSymlink,
       DeclineSymlink, Extracting, Reached, Selected, Entry, Target, M
<1>4. ASSUME NEW e \in Entries, Exists(fs, e), ParentDir(fs, e) PROVE ParentDir(fs', e)
    BY <1>2, <1>4, ParentIsOther DEF DirsStay, ParentDir
<1>5. ASSUME NEW e \in Entries
      PROVE  /\ (Exists(fs, e) => Origin(e) /\ WholeAt(e))'
             /\ Exists(fs', e) => ParentDir(fs', e)
    <2>1. CASE SameAt(fs, fs', e)
        <3>1. (Exists(fs, e) => Origin(e) /\ WholeAt(e))'
            BY <1>1, <1>2, <2>1, WholeSame DEF AllWhole
        <3>2. Exists(fs', e) => Exists(fs, e)
            BY <2>1 DEF SameAt, Exists
        <3> QED
            BY <1>4, <3>1, <3>2 DEF SaneTree
    <2>2. CASE ~SameAt(fs, fs', e) /\ e # Target
        <3>1. NewDir(fs, fs', e, Target)
            BY <1>2, <2>2 DEF Turned
        <3>2. fs' # fs
            BY <2>2, SameSelf
        <3>3. Selected(next) /\ Parent[Entry(next)] = e
            BY <1>3, <3>1, <3>2 DEF NewDir
        <3>4. Origin(e) /\ Parent[e] = Top
            BY <1>1, <3>3, ParentAssumption DEF Origin, Selected
        <3>5. Origin(e)'
            BY <1>1, <1>2, <3>4, OriginStays
        <3>6. WholeAt(e)'
            BY <3>1 DEF NewDir, WholeAt, IsA, Exists, NodeAt
        <3> QED
            BY <3>4, <3>5, <3>6 DEF ParentDir
    <2>3. CASE ~SameAt(fs, fs', e) /\ e = Target
        <3>1. \/ ~Exists(fs', Target)
              \/ /\ Writes /\ (Exists(fs, Target) \/ ParentDir(fs', Target))
                 /\ IsA(fs', Target, "file") => NodeAt(fs', Target).content = next
            BY <2>3, TurnsTarget
        <3>2. CASE ~Exists(fs', Target)
            BY <2>3, <3>2 DEF Exists
        <3>3. CASE /\ Writes /\ (Exists(fs, Target) \/ ParentDir(fs', Target))
                   /\ IsA(fs', Target, "file") => NodeAt(fs', Target).content = next
            <4>1. next \in written' /\ Entry(next) = Target
                BY <1>2, <3>3 DEF Entry, Target, M
            <4>2. Origin(e)'
                <5>1. \A j : Entry(j)' = Entry(j)
                    BY <1>1 DEF Entry
                <5> QED
                    BY <2>3, <4>1, <5>1 DEF Origin
            <4>3. next # Garbage
                BY <1>1, MembersKnown DEF Garbage
            <4>4. WholeAt(e)'
                BY <2>3, <3>3, <4>3 DEF WholeAt, IsA, Exists, NodeAt, Garbage
            <4>5. Exists(fs', e) => ParentDir(fs', e)
                BY <1>4, <2>3, <3>3 DEF SaneTree
            <4> QED
                BY <4>2, <4>4, <4>5
        <3> QED
            BY <3>1, <3>2, <3>3
    <2> QED
        BY <2>1, <2>2, <2>3
<1>6. AllWhole'
    BY <1>5 DEF AllWhole
<1>7. SaneTree'
    BY <1>5 DEF SaneTree, ParentDir, IsA, Exists
<1> QED
    BY <1>6, <1>7

LEMMA LinksClean ==
    ASSUME ExtractInv, PendingFits, Links, AllWhole
    PROVE  AllWhole'
<1>1. /\ scenario' = scenario /\ members' = members /\ OnlyAt(fs, fs', L.target)
      /\ L.source \in Entries /\ L.target \in Entries /\ L.target = Entry(L.member)
      /\ written' = IF MakeHardLink THEN written \cup {L.member} ELSE written
    BY LinkSteps DEF Awaited
<1>2. written \subseteq written'
    BY <1>1
<1>3. ASSUME NEW e \in Entries PROVE (Exists(fs, e) => Origin(e) /\ WholeAt(e))'
    <2>1. CASE SameAt(fs, fs', e)
        BY <1>1, <1>2, <2>1, WholeSame DEF AllWhole
    <2>2. CASE ~SameAt(fs, fs', e)
        <3>1. e = L.target /\ fs' # fs
            BY <1>1, <2>2, SameSelf DEF OnlyAt
        <3>2. CASE DeclineHardLink
            BY <3>1, <3>2, LinkGoneAt DEF LinkGone, Exists
        <3>3. CASE MakeHardLink
            <4>1. LinkMade
                BY <3>3, LinkMadeAt
            <4>2. WholeAt(L.source)
                BY <1>1, <4>1 DEF LinkMade, AllWhole
            <4>3. WholeAt(e)'
                BY <3>1, <4>1, <4>2 DEF LinkMade, WholeAt, SameNode, IsA, Exists, NodeAt
            <4>4. Origin(e)'
                BY <1>1, <3>1, <3>3 DEF Origin, Entry
            <4> QED
                BY <4>3, <4>4
        <3> QED
            BY <3>2, <3>3 DEF Links
    <2> QED
        BY <2>1, <2>2
<1> QED
    BY <1>3 DEF AllWhole

LEMMA CleanNext ==
    ASSUME ExtractInv, AccountInv, LossInv, CleanInv, DeclineFits, [Next]_vars
    PROVE  CleanInv'
<1>1. /\ scenario' = scenario /\ members' = members /\ NothingFollowed /\ Removable
    BY ScenarioStays DEF DeclineFits, Direct, members
<1>2. ASSUME AllWhole, written' = written, \A e \in Entries : SameAt(fs, fs', e) PROVE AllWhole'
    BY <1>1, <1>2, WholeSame DEF AllWhole
<1>3. CASE /\ UNCHANGED <<fs, written, hardLinks>> /\ phase # "error"
           /\ phase' \in {"members", "links"} => phase \in {"members", "links"}
           /\ phase' = "members" => phase = "members"
    <2>1. AllWhole'
        BY <1>2, <1>3, SameSelf DEF CleanInv
    <2>2. PendingFits => PendingFits'
        BY <1>1, <1>3 DEF PendingFits, Awaited, Kind, Entry
    <2>3. SaneTree => SaneTree'
        BY <1>3 DEF SaneTree, ParentDir, IsA, Exists
    <2> QED
        BY <1>3, <2>1, <2>2, <2>3 DEF CleanInv
<1>4. CASE phase' = "error"
    BY <1>4 DEF CleanInv
<1>5. CASE Turns
    <2>1. Turn /\ phase = "members" /\ phase' = phase
        BY <1>5, TurnSteps DEF Turn
    <2>2. /\ OneEach(fs) /\ NodesKnown /\ AllWhole /\ SaneTree /\ PendingFits
        BY <2>1 DEF LossInv, TreeInv, CleanInv
    <2>3. AllWhole' /\ SaneTree' /\ PendingFits'
        BY <1>1, <1>5, <2>2, TurnsClean, TurnsFits
    <2> QED
        BY <2>3 DEF CleanInv
<1>6. CASE Links
    <2>1. phase = "links" /\ phase' = "links"
        BY <1>6 DEF Links, MakeHardLink, DeclineHardLink, LinkTurn
    <2> QED
        BY <1>6, <2>1, LinksClean, LinksFits DEF CleanInv
<1>7. CASE StampDir
    <2>1. phase = "times" /\ phase' = phase /\ written' = written
        BY <1>7 DEF StampDir
    <2>2. Stamped
        BY <1>7, <2>1, StampAt DEF LossInv
    <2> QED
        BY <1>2, <2>1, <2>2 DEF CleanInv, Stamped
<1>8. CASE phase = "error" /\ UNCHANGED vars
    BY <1>8 DEF CleanInv, vars
<1>9. [Next]_vars => \/ UNCHANGED vars \/ Turns \/ Links \/ StampDir
                     \/ RefusePath \/ AbortOnBadData \/ AbortOnConflict \/ IoFails
                     \/ MembersDone \/ LinksDone \/ Finish
    BY DEF Next, Step, Ended, Turns, Leaves, Removes, Links
<1>10. (UNCHANGED vars /\ phase # "error") \/ MembersDone \/ LinksDone \/ Finish
      => /\ UNCHANGED <<fs, written, hardLinks>> /\ phase # "error"
         /\ phase' \in {"members", "links"} => phase \in {"members", "links"}
         /\ phase' = "members" => phase = "members"
    BY DEF MembersDone, LinksDone, Finish, reportVars, deferredVars, vars
<1>11. RefusePath \/ AbortOnBadData \/ AbortOnConflict \/ IoFails => phase' = "error"
    BY DEF RefusePath, AbortOnBadData, AbortOnConflict, IoFails, Abort
<1> QED
    BY <1>3, <1>4, <1>5, <1>6, <1>7, <1>8, <1>9, <1>10, <1>11

LEMMA CleanInit ==
    ASSUME Init, CleanTree(scenario.prior)
    PROVE  CleanInv
BY DEF Init, CleanInv, CleanTree, AllWhole, SaneTree, PendingFits, Origin, WholeAt

(* Only selected members are declined or put off. *)
AllMeant == /\ \A d \in declined : Selected(d.member)
            /\ \A i \in DOMAIN hardLinks : Selected(hardLinks[i].member)

LEMMA MeantInit == Init => AllMeant
BY DEF Init, AllMeant

LEMMA MeantNext ==
    ASSUME ExtractInv, AllMeant, [Next]_vars
    PROVE  AllMeant'
<1>1. members' = members /\ \A j : Selected(j)' <=> Selected(j)
    BY ScenarioStays DEF members, Selected, Entry
<1>2. CASE declined' = declined /\ hardLinks' = hardLinks
    BY <1>1, <1>2 DEF AllMeant
<1>3. CASE \/ DeclineCollision \/ DeclineName \/ DeclineSpecial \/ DropPartial
           \/ DeclineSymlink \/ DeclineStripped
    <2>1. Target \in Entries /\ hardLinks' = hardLinks /\ \E kind : Decline(kind)
        BY <1>3 DEF DeclineCollision, DeclineName, DeclineSpecial, DropPartial,
           DeclineSymlink, DeclineStripped, Extracting, Reached, deferredVars
    <2>2. Selected(next)
        BY <2>1 DEF Selected, Entry, Target, M
    <2>3. \A d \in declined' : d \in declined \/ d.member = next
        BY <2>1 DEF Decline
    <2> QED
        BY <1>1, <2>1, <2>2, <2>3 DEF AllMeant
<1>4. CASE DeferHardLink
    <2> DEFINE r == [member |-> next, source |-> Dest[M.link], target |-> Target]
    <2>1. Target \in Entries /\ declined' = declined /\ hardLinks' = Append(hardLinks, r)
        BY <1>4 DEF DeferHardLink, Extracting, Reached, Defer, reportVars
    <2>2. r.member = next /\ Selected(next)
        BY <2>1 DEF Selected, Entry, Target, M
    <2>3. hardLinks \in Seq(LinkRecords)
        BY InvParts DEF DeferredTyped
    <2> HIDE DEF r
    <2>4. \A i \in DOMAIN hardLinks' :
              hardLinks'[i] = r \/ (i \in DOMAIN hardLinks /\ hardLinks'[i] = hardLinks[i])
        BY <2>1, <2>3
    <2> QED
        BY <1>1, <2>1, <2>2, <2>4 DEF AllMeant
<1>5. CASE MakeHardLink \/ DeclineHardLink
    <2>1. LinkTurn /\ hardLinks' = Tail(hardLinks)
        BY <1>5 DEF MakeHardLink, DeclineHardLink
    <2>2. \A d \in declined' : d \in declined \/ d.member = L.member
        BY <1>5 DEF MakeHardLink, DeclineHardLink
    <2>3. /\ 1 \in DOMAIN hardLinks /\ hardLinks[1] = L
          /\ \A i \in DOMAIN hardLinks' : /\ i + 1 \in DOMAIN hardLinks
                                         /\ hardLinks'[i] = hardLinks[i + 1]
        <3>1. hardLinks \in Seq(LinkRecords)
            BY InvParts DEF DeferredTyped
        <3> QED
            BY <2>1, <3>1, LinkFacts
    <2> QED
        BY <1>1, <2>2, <2>3 DEF AllMeant
<1>6. \/ declined' = declined /\ hardLinks' = hardLinks
      \/ DeclineCollision \/ DeclineName \/ DeclineSpecial \/ DropPartial
      \/ DeclineSymlink \/ DeclineStripped
      \/ DeferHardLink \/ MakeHardLink \/ DeclineHardLink
    <2>1. CASE UNCHANGED vars
        BY <2>1 DEF vars, reportVars, deferredVars
    <2>2. CASE SkipMember \/ ExtractFile \/ ExtractDir \/ ExtractSymlink \/ StampDir
        BY <2>2 DEF SkipMember, ExtractFile, ExtractDir, ExtractSymlink, StampDir, Written,
           reportVars, deferredVars
    <2>3. CASE \/ RefusePath \/ AbortOnBadData \/ AbortOnConflict \/ MembersDone
               \/ LinksDone \/ Finish \/ IoFails
        BY <2>3 DEF RefusePath, AbortOnBadData, AbortOnConflict, MembersDone, LinksDone,
           Finish, IoFails, Abort, reportVars, deferredVars
    <2> QED
        BY <2>1, <2>2, <2>3 DEF Next, Step, Ended
<1> QED
    BY <1>2, <1>3, <1>4, <1>5, <1>6

(* Where a member was declined there is, when extraction ends, nothing but what another
   member that was written has put there, or the parent of one, or what was there before,
   and no partial file: in a destination without partial files whose entries are in
   directories, and in every archive that puts no file where the directory can have become
   read-only and something is there, and under the conditions of LossTheorem. *)
THEOREM DeclinedTheorem == Spec => [](DeclineFits => DeclinedLeavesNothing)
<1>1. Init => (DeclineFits => LossInv /\ CleanInv)
    BY LossInit, CleanInit DEF DeclineFits, Direct
<1>2. ExtractInv /\ AccountInv /\ (DeclineFits => LossInv /\ CleanInv) /\ [Next]_vars
      => (DeclineFits => LossInv /\ CleanInv)'
    <2>1. ASSUME [Next]_vars PROVE DeclineFits' => DeclineFits
        <3>1. scenario' = scenario /\ members' = members
            BY <2>1, ScenarioStays DEF members
        <3>2. Direct' => Direct
            BY <3>1 DEF Direct, OneEach, Exists, NothingFollowed, Kind, Selected, Entry, IsA
        <3>3. CleanTree(scenario.prior)' => CleanTree(scenario.prior)
            BY <3>1 DEF CleanTree, ParentDir, IsA, Exists, NodeAt
        <3>4. Removable' => Removable
            BY <3>1 DEF Removable, ReadOnlyBefore, ReadOnly, Kind, Selected, Entry, Exists, NodeAt
        <3> QED
            BY <3>2, <3>3, <3>4 DEF DeclineFits
    <2>2. DeclineFits => NothingFollowed
        BY DEF DeclineFits, Direct
    <2> QED
        BY <2>1, <2>2, LossNext, CleanNext
<1>3. AllMeant /\ (DeclineFits => LossInv /\ CleanInv)
      => (DeclineFits => DeclinedLeavesNothing)
    <2> SUFFICES ASSUME AllMeant, CleanInv, Finished, NEW d \in declined,
                        Exists(fs, Entry(d.member))
                 PROVE  LET e == Entry(d.member) IN
                        /\ \/ \E j \in written : Entry(j) = e
                           \/ Exists(scenario.prior, e)
                           \/ \E j \in DOMAIN members : Selected(j) /\ Parent[Entry(j)] = e
                        /\ IsA(fs, e, "file") => fs.node[fs.dir[e]].content # Garbage
        BY DEF DeclinedLeavesNothing
    <2> DEFINE e == Entry(d.member)
    <2>1. e \in Entries
        BY DEF AllMeant, Selected
    <2>2. Origin(e) /\ WholeAt(e)
        BY <2>1 DEF CleanInv, Finished, AllWhole
    <2> QED
        BY <2>2 DEF Origin, WholeAt, NodeAt
<1> QED
    BY <1>1, <1>2, <1>3, ExtractInit, ExtractNext, AccountInit, AccountNext,
       MeantInit, MeantNext, PTL DEF Spec
=============================================================================
