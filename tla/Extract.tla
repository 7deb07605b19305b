------------------------------ MODULE Extract ------------------------------
(***************************************************************************)
(* Extraction onto the file system: `extract_to_dir` and `extract_one` of  *)
(* extract.rs.  The members are written one by one in archive order, each  *)
(* with its content, then its extended attributes, permission bits and     *)
(* timestamp; hard links are put off to a second pass, when every file is  *)
(* on disk, and the timestamps of directories to a third.  Names that were *)
(* written are remembered by inode, so that two names which the file       *)
(* system takes for one are noticed.                                       *)
(*                                                                         *)
(* The file system is external: entries, at the top of the destination or  *)
(* in a directory there, that lead to inodes; it may not be empty when the *)
(* extraction starts.  A path of the archive leads to the entry Dest       *)
(* gives, which stands for --strip-components, normalisation and the       *)
(* folding of names; the filters leave paths out, but only as those of     *)
(* members.  The content, the attributes and the timestamp of a node are   *)
(* named by the index of the member they are of.                           *)
(***************************************************************************)
EXTENDS Naturals, Sequences, FiniteSets

CONSTANTS
    Scenarios,   \* an archive, the file system it meets, what the host lacks
    Paths,       \* archive paths
    Entries,     \* entries of the destination directory
    Parent,      \* Entries -> Entries, or Top
    Dest,        \* Paths -> Entries, or Skipped, or Refused
    Excluded,    \* paths that the includes or excludes leave out
    Top, Skipped, Refused,
    MaxInodes,   \* inodes of the file system
    SkipBad,     \* opts.skip_bad_chunks
    RestoreMtime, \* opts.restore_mtime
    Strict       \* opts.strict

Inodes == 1 .. MaxInodes
Absent == 0

MemberKinds == {"File", "Dir", "Symlink", "HardLink", "Special"}
Modes == {"rw", "ro"}

(* `link` is the link target of symbolic and hard links, `good` says whether
   the data of a file can be read. *)
ArchiveMembers == [path: Paths, kind: MemberKinds, link: Paths, good: BOOLEAN,
                   mode: Modes]

(* What may be impossible on a host for reasons outside the archive. *)
HostLacks == {"Xattr", "Mode", "Mtime", "Symlink", "HardLink"}

(* `content` of a file, `to` of a symbolic link, `mode`, and the members whose
   timestamp (Now: none) and extended attributes it has. *)
Nodes == [is: {"unused", "file", "dir", "symlink"}, content: Nat,
          to: Entries \cup {Absent, Skipped, Refused},
          mode: Modes, mtime: Nat, xattrs: Nat]
FileSystems == [dir: [Entries -> Inodes \cup {Absent}], node: [Inodes -> Nodes]]

(* Where a member of that path goes: the filters come first. *)
Goes(path) == IF path \in Excluded THEN Skipped ELSE Dest[path]

(* A path below a symbolic link is not modelled, nor more than two levels. *)
ASSUME ScenariosAssumption == \A s \in Scenarios :
    /\ s.members \in Seq(ArchiveMembers)
    /\ s.prior \in FileSystems
    /\ s.host \subseteq HostLacks
    /\ \A i, j \in DOMAIN s.members :
          /\ s.members[i].kind = "Symlink"
          /\ Goes(s.members[j].path) \in Entries
          => Parent[Goes(s.members[j].path)] # Goes(s.members[i].path)
ASSUME DestAssumption ==
    /\ Dest \in [Paths -> Entries \cup {Skipped, Refused}]
    /\ Skipped \notin Entries /\ Refused \notin Entries /\ Absent \notin Entries
    /\ Skipped \notin Paths /\ Excluded \subseteq Paths
ASSUME ParentAssumption ==
    /\ Parent \in [Entries -> Entries \cup {Top}] /\ Top \notin Entries
    /\ \A e \in Entries : Parent[e] \in Entries => Parent[Parent[e]] = Top
ASSUME OptionsAssumption ==
    SkipBad \in BOOLEAN /\ RestoreMtime \in BOOLEAN /\ Strict \in BOOLEAN

VARIABLES
    scenario,  \* which archive, on what
    phase,     \* "members", "links", "times", or how it ended
    next,      \* index of the next member
    fs,        \* the file system: entry -> inode, inode -> what it is
    written,   \* history: the members counted in members_written
    declined,  \* the members in report.declined, with the kind
    lost,      \* the members in report.metadata_lost, with the kind
    byInode,   \* WrittenNames.by_inode
    hardLinks, \* Deferred.hard_links
    dirTimes   \* Deferred.dir_times

reportVars == <<written, declined, lost>>
deferredVars == <<hardLinks, dirTimes>>
vars == <<scenario, phase, next, fs, reportVars, byInode, deferredVars>>

Garbage == 0
Now == 0
NoXattrs == 0
Node(is, content, to) == [is |-> is, content |-> content, to |-> to,
                          mode |-> "rw", mtime |-> Now, xattrs |-> NoXattrs]
FileNode(content) == Node("file", content, Absent)
DirNode == Node("dir", Garbage, Absent)
LinkNode(entry) == Node("symlink", Garbage, entry)
Unused == Node("unused", Garbage, Absent)

Init ==
    /\ scenario \in Scenarios
    /\ phase = "members" /\ next = 1
    /\ fs = scenario.prior
    /\ written = {} /\ declined = {} /\ lost = {}
    /\ byInode = [i \in Inodes |-> Skipped]
    /\ hardLinks = <<>> /\ dirTimes = <<>>

members == scenario.members
M == members[next]
Target == Goes(M.path)
-----------------------------------------------------------------------------
(* The file system, and the calls made of it by a user who is not root. *)

Exists(f, e) == f.dir[e] # Absent
IsA(f, e, type) == Exists(f, e) /\ f.node[f.dir[e]].is = type

(* Where an entry leads when symbolic links are followed; Absent when they
   form a loop or leave the directory. *)
Leads(f, e) ==
    LET follow[n \in 0 .. Cardinality(Entries)] == [x \in Entries |->
            LET y == f.node[f.dir[x]].to IN
            IF n = 0 \/ y \notin Entries THEN Absent
            ELSE IF IsA(f, y, "symlink") THEN follow[n - 1][y] ELSE y]
    IN IF IsA(f, e, "symlink") THEN follow[Cardinality(Entries)][e] ELSE e

IsDir(f, e) == Leads(f, e) # Absent /\ IsA(f, Leads(f, e), "dir")

(* The number of a new inode: one that a recorded file had, or the least of
   the others, which are all alike. *)
Numbers(f) ==
    LET free == {i \in Inodes : \A e \in Entries : f.dir[e] # i}
        recorded == {i \in free : byInode[i] # Skipped}
    IN {i \in free : i \in recorded \/ \A k \in free \ recorded : i <= k}

(* A change of a directory sets its timestamp. *)
Touch(f, e) == IF Parent[e] = Top THEN f
               ELSE [f EXCEPT !.node[f.dir[Parent[e]]].mtime = Now]

Put(f, e, i, n) ==
    Touch([f EXCEPT !.dir[e] = i, !.node[i] = n], e)

(* May an entry be added or removed where e is? *)
Writable(f, e) == Parent[e] # Top =>
    IsA(f, Parent[e], "dir") /\ f.node[f.dir[Parent[e]]].mode = "rw"

(* remove_file refuses a directory, and its result is ignored. *)
Without(f, e) == IF Exists(f, e) /\ ~IsA(f, e, "dir") /\ Writable(f, e)
                 THEN Touch([f EXCEPT !.dir[e] = Absent], e)
                 ELSE f

(* File::create follows a link and truncates a file that is there. *)
CanCreate(f, e) ==
    LET x == Leads(f, e) IN
    /\ x # Absent
    /\ IF Exists(f, x) THEN IsA(f, x, "file") /\ f.node[f.dir[x]].mode = "rw"
                       ELSE Writable(f, x)
Created(f, e, content) ==
    LET x == Leads(f, e) IN
    IF Exists(f, x)
    THEN {[f EXCEPT !.node[f.dir[x]].content = content,
                    !.node[f.dir[x]].mtime = Now]}
    ELSE {Put(f, x, i, FileNode(content)) : i \in Numbers(f)}

(* create_dir_all(target.parent()): the file systems it may lead to. *)
ParentMade ==
    LET above == Parent[Target] IN
    IF above = Top \/ IsDir(fs, above) THEN {fs}
    ELSE IF Exists(fs, above) THEN {}
    ELSE {Put(fs, above, i, DirNode) : i \in Numbers(fs)}
-----------------------------------------------------------------------------
(* One turn of the first loop. *)

(* Variant: any entry that was written is a collision. *)
CollidesWithItself == Exists(fs, Target) /\ byInode[fs.dir[Target]] # Skipped

Collides == Exists(fs, Target) /\ byInode[fs.dir[Target]] \notin {Skipped, M.path}

Turn == phase = "members" /\ next <= Len(members)
Advance == next' = next + 1 /\ UNCHANGED <<scenario, phase>>
Abort == phase' = "error" /\ UNCHANGED <<scenario, next, reportVars, byInode, deferredVars>>

Decline(kind) ==
    /\ declined' = declined \cup {[member |-> next, kind |-> kind]}
    /\ UNCHANGED <<written, lost>>

Written(losses) ==
    /\ written' = written \cup {next}
    /\ lost' = lost \cup {[member |-> next, kind |-> k] : k \in losses}
    /\ UNCHANGED declined

(* Filtered out, or with too few components. *)
SkipMember ==
    /\ Turn
    /\ Target = Skipped
    /\ Advance
    /\ UNCHANGED <<fs, reportVars, byInode, deferredVars>>

(* extract_one is called. *)
Reached == Turn /\ Target \in Entries /\ ~Collides
Extracting(kind) == Reached /\ M.kind = kind

(* A path that is absolute or contains `..`. *)
RefusePath ==
    /\ \/ Turn /\ Target = Refused /\ fs' = fs
       \/ Extracting("HardLink") /\ Dest[M.link] = Refused /\ fs' \in ParentMade
    /\ Abort

DeclineCollision ==
    /\ Turn
    /\ Target \in Entries
    /\ Collides
    /\ Decline("NameCollision")
    /\ Advance
    /\ UNCHANGED <<fs, byInode, deferredVars>>

(* The platform or the file system refuses the name, or that of the parent;
   it cannot if there is an entry of that name already. *)
DeclineName ==
    /\ Turn
    /\ Target \in Entries /\ ~Exists(fs, Target)
    /\ \/ fs' = fs
       \/ M.kind \in {"File", "Dir"} /\ fs' \in ParentMade
    /\ Decline("InvalidName")
    /\ Advance
    /\ UNCHANGED <<byInode, deferredVars>>

DeclineSpecial ==
    /\ Extracting("Special")
    /\ fs' \in ParentMade
    /\ Decline("Special")
    /\ Advance
    /\ UNCHANGED <<byInode, deferredVars>>

(* Variant: the timestamp of a directory is set with its other attributes. *)
TimesAtOnce == FALSE

TimesDeferred == M.kind = "Dir"

(* The attributes that are set on the member's node, and those of them that
   cannot be: an extended attribute needs a node that may be written, and one
   of a user is not for symbolic links. *)
Tried == {"Xattr", "Mode"} \cup
         (IF RestoreMtime /\ ~TimesDeferred THEN {"Mtime"} ELSE {})

(* Variant: the mode is set first. *)
ProtectedByMode(f) == M.mode = "ro"

Protected(f) == f.node[f.dir[Leads(f, Target)]].mode = "ro"
Refusals(f) == Tried \cap
    (scenario.host \cup IF Protected(f) \/ IsA(f, Target, "symlink") THEN {"Xattr"} ELSE {})

Attributed(f) ==
    LET done == Tried \ Refusals(f)
        i == f.dir[Leads(f, Target)]
        n == [f.node[i] EXCEPT !.xattrs = IF "Xattr" \in done THEN next ELSE @,
                               !.mode = IF "Mode" \in done THEN M.mode ELSE @,
                               !.mtime = IF "Mtime" \in done THEN next ELSE @]
    IN [f EXCEPT !.node[i] = n]

DeferTimes ==
    dirTimes' = IF RestoreMtime /\ TimesDeferred
                THEN Append(dirTimes, [member |-> next, entry |-> Target])
                ELSE dirTimes

ExtractDir ==
    /\ Extracting("Dir")
    /\ \E f \in ParentMade :
          \E g \in IF IsDir(f, Target) THEN {f}
                   ELSE {Put(f, Target, i, DirNode) : i \in Numbers(f)} :
             /\ IsDir(f, Target) \/ (~Exists(f, Target) /\ Writable(f, Target))
             /\ fs' = Attributed(g)
             /\ Written(Refusals(g))
    /\ DeferTimes
    /\ Advance
    /\ UNCHANGED <<byInode, hardLinks>>

(* Variant: files are not recorded. *)
RecordNothing == byInode' = byInode

(* WrittenNames.record looks at the entry itself, not where it leads. *)
Record == byInode' = [byInode EXCEPT ![fs'.dir[Target]] = M.path]

ExtractFile ==
    /\ Extracting("File")
    /\ M.good
    /\ \E f \in ParentMade :
          /\ CanCreate(f, Target)
          /\ \E g \in Created(f, Target, next) :
                /\ fs' = Attributed(g)
                /\ Written(Refusals(g))
    /\ Record
    /\ Advance
    /\ UNCHANGED deferredVars

PartialFiles == UNION {Created(f, Target, Garbage) :
                          f \in {g \in ParentMade : CanCreate(g, Target)}}

(* Variant: the partial file stays. *)
KeepPartial ==
    /\ Extracting("File") /\ SkipBad
    /\ fs' \in PartialFiles
    /\ Decline("BadData")
    /\ Advance
    /\ UNCHANGED <<byInode, deferredVars>>

(* With skip_bad_chunks the partial file is removed by its name.  An error of
   extract_member_at may as well be one of writing, whatever the data.  Where
   a link was followed, it is the link that goes and the partial file that
   stays. *)
DropPartial ==
    /\ Extracting("File") /\ SkipBad
    /\ fs' \in {Without(f, Target) : f \in PartialFiles}
    /\ Decline("BadData")
    /\ Advance
    /\ UNCHANGED <<byInode, deferredVars>>

(* Without it the run is aborted, as when the last bytes cannot be flushed;
   the partial file stays. *)
AbortOnBadData ==
    /\ Extracting("File")
    /\ M.good \/ ~SkipBad
    /\ fs' \in PartialFiles
    /\ Abort

(* Something else where the parent or the directory should go, a directory
   where the file should, or no permission to create it. *)
AbortOnConflict ==
    /\ Reached
    /\ \/ ParentMade = {} /\ fs' = fs
       \/ \E f \in ParentMade :
             /\ \/ M.kind = "File" /\ ~CanCreate(f, Target)
                \/ /\ M.kind = "Dir" /\ ~IsDir(f, Target)
                   /\ Exists(f, Target) \/ ~Writable(f, Target)
             /\ fs' = f
    /\ Abort

CanSymlink(f) == "Symlink" \notin scenario.host
                 /\ ~Exists(f, Target) /\ Writable(f, Target)

ExtractSymlink ==
    /\ Extracting("Symlink")
    /\ LET stamp == IF RestoreMtime THEN {"Mtime"} ELSE {}
           mtime == IF stamp \ scenario.host = {} THEN Now ELSE next
       IN /\ \E f \in {Without(g, Target) : g \in ParentMade} :
                /\ CanSymlink(f)
                /\ \E i \in Numbers(f) :
                      fs' = Put(f, Target, i, [LinkNode(Dest[M.link]) EXCEPT !.mtime = mtime])
          /\ Written(stamp \cap scenario.host)
    /\ Record
    /\ Advance
    /\ UNCHANGED deferredVars

DeclineSymlink ==
    /\ Extracting("Symlink")
    /\ fs' \in {f \in {Without(g, Target) : g \in ParentMade} : ~CanSymlink(f)}
    /\ Decline("Symlink")
    /\ Advance
    /\ UNCHANGED <<byInode, deferredVars>>

Defer == hardLinks' = Append(hardLinks,
                         [member |-> next, source |-> Dest[M.link], target |-> Target])

(* Variant: a link target that was stripped away is deferred, too. *)
DeferAnyHardLink ==
    /\ Extracting("HardLink")
    /\ fs' \in ParentMade
    /\ Defer
    /\ Advance
    /\ UNCHANGED <<reportVars, byInode, dirTimes>>

DeferHardLink ==
    /\ Extracting("HardLink")
    /\ fs' \in ParentMade
    /\ Dest[M.link] \in Entries
    /\ Defer
    /\ Advance
    /\ UNCHANGED <<reportVars, byInode, dirTimes>>

(* What --strip-components leaves nothing of.  A link target that a filter has
   left out is deferred, and linked to whatever is in its place by then. *)
DeclineStripped ==
    /\ Extracting("HardLink")
    /\ fs' \in ParentMade
    /\ Dest[M.link] = Skipped
    /\ Decline("HardLink")
    /\ Advance
    /\ UNCHANGED <<byInode, deferredVars>>

MembersDone ==
    /\ phase = "members" /\ next > Len(members)
    /\ phase' = "links"
    /\ UNCHANGED <<scenario, next, fs, reportVars, byInode, deferredVars>>
-----------------------------------------------------------------------------
(* The second loop, over the deferred hard links.  The parent of the target
   was made in the first; a directory is never removed. *)

L == Head(hardLinks)
LinkTurn == phase = "links" /\ hardLinks # <<>>

(* source.exists() follows symbolic links. *)
SourceThere == Leads(fs, L.source) # Absent /\ Exists(fs, Leads(fs, L.source))

CanLink(f) ==
    /\ "HardLink" \notin scenario.host
    /\ Exists(f, L.source) /\ ~IsA(f, L.source, "dir")
    /\ ~Exists(f, L.target) /\ Writable(f, L.target)

MakeHardLink ==
    /\ LinkTurn
    /\ SourceThere
    /\ LET f == Without(fs, L.target) IN
          /\ CanLink(f)
          /\ fs' = Touch([f EXCEPT !.dir[L.target] = f.dir[L.source]], L.target)
    /\ written' = written \cup {L.member}
    /\ hardLinks' = Tail(hardLinks)
    /\ UNCHANGED <<scenario, phase, next, declined, lost, byInode, dirTimes>>

(* Variant: a link whose source is missing is passed over. *)
DeclineLinkSilently ==
    /\ LinkTurn
    /\ ~SourceThere
    /\ hardLinks' = Tail(hardLinks)
    /\ UNCHANGED <<scenario, phase, next, fs, reportVars, byInode, dirTimes>>

(* Variant: a link whose source is missing is tried again. *)
RetryLink ==
    /\ LinkTurn
    /\ ~SourceThere
    /\ hardLinks' = Append(Tail(hardLinks), L)
    /\ UNCHANGED <<scenario, phase, next, fs, reportVars, byInode, dirTimes>>

DeclineHardLink ==
    /\ LinkTurn
    /\ LET f == IF SourceThere THEN Without(fs, L.target) ELSE fs IN
          /\ ~SourceThere \/ ~CanLink(f)
          /\ fs' = f
    /\ declined' = declined \cup {[member |-> L.member, kind |-> "HardLink"]}
    /\ hardLinks' = Tail(hardLinks)
    /\ UNCHANGED <<scenario, phase, next, written, lost, byInode, dirTimes>>

LinksDone ==
    /\ phase = "links" /\ hardLinks = <<>>
    /\ phase' = "times"
    /\ UNCHANGED <<scenario, next, fs, reportVars, byInode, deferredVars>>

(* The third, over the directories. *)
StampDir ==
    /\ phase = "times" /\ dirTimes # <<>>
    /\ LET t == Head(dirTimes)
           e == Leads(fs, t.entry)
       IN IF e # Absent /\ Exists(fs, e) /\ "Mtime" \notin scenario.host
          THEN /\ fs' = [fs EXCEPT !.node[fs.dir[e]].mtime = t.member]
               /\ lost' = lost
          ELSE /\ lost' = lost \cup {[member |-> t.member, kind |-> "Mtime"]}
               /\ fs' = fs
    /\ dirTimes' = Tail(dirTimes)
    /\ UNCHANGED <<scenario, phase, next, written, declined, byInode, hardLinks>>

Finish ==
    /\ phase = "times" /\ dirTimes = <<>>
    /\ phase' = IF Strict /\ (declined # {} \/ lost # {}) THEN "strict" ELSE "ok"
    /\ UNCHANGED <<scenario, next, fs, reportVars, byInode, deferredVars>>

(* An error of the file system that is not the archive's doing. *)
IoFails ==
    /\ phase \in {"members", "links"}
    /\ phase' = "error"
    /\ UNCHANGED <<scenario, next, fs, reportVars, byInode, deferredVars>>

Ended == phase \in {"ok", "strict", "error"} /\ UNCHANGED vars

Step ==
    \/ SkipMember \/ RefusePath \/ DeclineCollision \/ DeclineName
    \/ DeclineSpecial \/ ExtractDir \/ ExtractFile \/ DropPartial
    \/ AbortOnBadData \/ AbortOnConflict \/ ExtractSymlink \/ DeclineSymlink
    \/ DeferHardLink \/ DeclineStripped \/ MembersDone
    \/ MakeHardLink \/ DeclineHardLink \/ LinksDone \/ StampDir \/ Finish

Next == Step \/ IoFails \/ Ended

Spec == Init /\ [][Next]_vars /\ WF_vars(Step)
-----------------------------------------------------------------------------
(* Correctness. *)

LossKinds == {"InvalidName", "NameCollision", "Special", "BadData", "Symlink",
              "HardLink"}

(* The variables keep their types; what is put off can be looked up. *)
ExtractTypeOK ==
    /\ scenario \in Scenarios
    /\ phase \in {"members", "links", "times", "ok", "strict", "error"}
    /\ next \in 1 .. Len(members) + 1
    /\ fs \in FileSystems
    /\ written \subseteq DOMAIN members
    /\ declined \subseteq [member: DOMAIN members, kind: LossKinds]
    /\ lost \subseteq [member: written, kind: {"Xattr", "Mode", "Mtime"}]
    /\ byInode \in [Inodes -> Paths \cup {Skipped}]
    /\ hardLinks \in Seq([member: DOMAIN members, source: Entries, target: Entries])
    /\ dirTimes \in Seq([member: DOMAIN members, entry: Entries])

Finished == phase \in {"ok", "strict"}
Entry(j) == Goes(members[j].path)
Selected(j) == Entry(j) \in Entries
Reports(set, j, kind) == [member |-> j, kind |-> kind] \in set

(* The report is complete: when extraction ends, every selected member has
   been counted as written or been declined once, and no member both; those
   put off to the second pass are not forgotten. *)
Accounted == Finished => \A j \in DOMAIN members :
    Selected(j) => IF j \in written
                   THEN \A d \in declined : d.member # j
                   ELSE Cardinality({d \in declined : d.member = j}) = 1

Inode(j) == fs.dir[Leads(fs, Entry(j))]

Restored(j) ==
    LET m == members[j] IN
    CASE m.kind = "File" ->
             IsA(fs, Entry(j), "file") /\ fs.node[fs.dir[Entry(j)]].content = j
      [] m.kind = "Dir" -> IsDir(fs, Entry(j))
      [] m.kind = "Symlink" ->
             IsA(fs, Entry(j), "symlink") /\ fs.node[fs.dir[Entry(j)]].to = Dest[m.link]
      [] m.kind = "HardLink" ->
             Exists(fs, Entry(j)) /\ fs.dir[Entry(j)] = fs.dir[Dest[m.link]]
      [] OTHER -> FALSE

(* "tar semantics are that the later entry wins" *)
Superseded(j) == \E i \in DOMAIN members :
    i > j /\ members[i].path = members[j].path /\ members[i].kind # "Special"

(* "Content is guaranteed": what the report counts as written is there, byte
   for byte, unless the archive itself names the path again; a name that the
   file system folds onto an earlier one "never overwrites the first". *)
ContentLands == Finished => \A j \in written : Superseded(j) \/ Restored(j)

(* "nothing is ever left at a declined member's path": an entry there is of
   another member that was written, or the parent of one, or was there before;
   and no file there has lost its content. *)
DeclinedLeavesNothing == Finished => \A d \in declined :
    LET e == Entry(d.member) IN
    Exists(fs, e) =>
        /\ \/ \E j \in written : Entry(j) = e
           \/ Exists(scenario.prior, e)
           \/ \E j \in DOMAIN members : Selected(j) /\ Parent[Entry(j)] = e
        /\ IsA(fs, e, "file") => fs.node[fs.dir[e]].content # Garbage

(* A member whose attributes nothing else of the archive may change. *)
LastOnEntry(j) == \A i \in DOMAIN members : i > j =>
    Entry(i) # Entry(j) \/ members[i].kind = "Special"

(* "metadata is attempted, and the difference is reported" (extract.rs:410):
   what extraction counts as written has every attribute that is not reported
   as lost, whatever was written in a directory or linked there afterwards. *)
MetadataRestored == Finished => \A j \in written :
    LET m == members[j]
        n == fs.node[Inode(j)]
    IN m.kind \in {"File", "Dir"} /\ LastOnEntry(j) =>
          /\ n.xattrs = j \/ Reports(lost, j, "Xattr")
          /\ n.mode = m.mode \/ Reports(lost, j, "Mode")
          /\ RestoreMtime => n.mtime = j \/ Reports(lost, j, "Mtime")

(* "xattrs precede mode because a read-only mode would forbid setting them"
   (extract.rs:425): extraction loses an attribute only where the host has not
   got it, or where the entry was read-only before. *)
LossIsTheHosts == \A l \in lost :
    \/ l.kind \in scenario.host
    \/ \E i \in 1 .. l.member - 1 :
          Entry(i) = Entry(l.member) /\ members[i].mode = "ro"
    \/ LET e == Entry(l.member) IN
       Exists(scenario.prior, e) /\ scenario.prior.node[scenario.prior.dir[e]].mode = "ro"

(* "the filesystem folded this member's name onto one already written by this
   extraction" (extract.rs:90); "The same archive path appearing twice is not
   a collision" (extract.rs:276): a member is declined for its name only when
   one of another name was written to the same entry. *)
CollisionIsReal == \A d \in declined : d.kind = "NameCollision" =>
    \E i \in 1 .. d.member - 1 :
        /\ i \in written
        /\ Entry(i) = Entry(d.member)
        /\ members[i].path # members[d.member].path

(* Extraction comes to an end. *)
ExtractionEnds == <>(phase \in {"ok", "strict", "error"})

(* "A regular file either lands byte-exact or (with `skip_bad_chunks`) is
   removed and declined" (extract.rs:413): the content of a file that was
   written is somewhere, unless a later file or symbolic link has its path. *)
ContentSurvives == Finished => \A j \in written :
    /\ members[j].kind = "File"
    /\ ~\E i \in DOMAIN members : /\ i > j
                                 /\ members[i].path = members[j].path
                                 /\ members[i].kind \in {"File", "Symlink"}
    => \E e \in Entries : IsA(fs, e, "file") /\ fs.node[fs.dir[e]].content = j

(* "The same archive path appearing twice is not a collision; tar semantics are
   that the later entry wins, and we keep that." (extract.rs:276) *)
LaterEntryWins == Finished /\ declined = {} =>
    \A j \in DOMAIN members : Selected(j) /\ ~Superseded(j) => Restored(j)
=============================================================================
