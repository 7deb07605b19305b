----------------------------- MODULE MCExtract -----------------------------
(* Archives of up to three members.  Paths p and P are folded onto one entry
   (or made equal by --strip-components), c is in the directory d, `none`
   loses all its components, `up` leads out of the destination, and `left`, which is
   left out by a filter, would be made equal to q. *)
EXTENDS Extract, SequencesExt

CONSTANTS p, P, q, h, d, c, none, up, left, e1, e2, e3, e4, e5

MCPaths == {p, P, q, h, d, c, none, up, left}
MCExcluded == {left}
MCEntries == {e1, e2, e3, e4, e5}
MCDest == [y \in MCPaths |-> CASE y \in {p, P} -> e1
                               [] y \in {q, left} -> e2
                               [] y = h -> e3
                               [] y = d -> e4
                               [] y = c -> e5
                               [] y = none -> Skipped
                               [] OTHER -> Refused]
MCParent == [e \in MCEntries |-> IF e = e5 THEN e4 ELSE Top]

Make(path, kind, link, good, mode) ==
    [path |-> path, kind |-> kind, link |-> link, good |-> good, mode |-> mode]
File(path) == Make(path, "File", path, TRUE, "rw")
Locked(path) == Make(path, "File", path, TRUE, "ro")
BadFile(path) == Make(path, "File", path, FALSE, "rw")
Symlink(path, to) == Make(path, "Symlink", to, TRUE, "rw")
HardLink(path, to) == Make(path, "HardLink", to, TRUE, "rw")
Dir(path) == Make(path, "Dir", path, TRUE, "rw")
LockedDir(path) == Make(path, "Dir", path, TRUE, "ro")
Special(path) == Make(path, "Special", path, TRUE, "rw")

Nothing == [dir |-> [e \in MCEntries |-> Absent], node |-> [i \in Inodes |-> Unused]]
With(e, i, n) == [dir |-> [Nothing.dir EXCEPT ![e] = i],
                  node |-> [Nothing.node EXCEPT ![i] = n]]
Other == MaxInodes + 1      \* the content of a file that was there before
ReadOnly(n) == [n EXCEPT !.mode = "ro"]
Meets(archives, priors, hosts) == [members: archives, prior: priors, host: hosts]

(* What happens to names. *)
NameMembers ==
    {File(p), BadFile(p), File(P), File(q),
     Symlink(p, q), Symlink(h, none), Dir(p), Dir(P),
     HardLink(h, p), HardLink(q, p), HardLink(h, none), HardLink(h, up), HardLink(h, left),
     Special(P), File(none), File(up), File(left)}

(* No entry is named twice when one of the two is a link: what happens then is
   the subject of runs of its own.  Only a file that cannot be read may come
   where a symbolic link to an entry of no other member is. *)
Tame(a) == \A i, j \in DOMAIN a :
    i # j /\ Goes(a[i].path) = Goes(a[j].path) =>
        /\ a[i].kind # "HardLink"
        /\ a[i].kind = "Symlink" /\ a[j].kind = "File" =>
              /\ a[j] = BadFile(a[j].path)
              /\ \A k \in DOMAIN a : Goes(a[k].path) # Dest[a[i].link]
        /\ a[i].kind = "Symlink" /\ a[j].kind = "Dir" => i < j

NameScenarios == Meets({a \in SeqOf(NameMembers, 3) : Tame(a)}, {Nothing}, {{}})

(* What happens to attributes, in a tree. *)
TreeMembers ==
    {Dir(d), LockedDir(d), File(c), Locked(c), BadFile(c), File(d),
     HardLink(c, p), HardLink(h, c), Symlink(c, p), Special(c), Locked(p)}

(* Nor is a directory locked between a file in it and one that is bad: the
   partial file of the second could not be removed (MCLocks). *)
LocksPartial(a) == /\ Len(a) = 3
                   /\ a[1].path = c /\ a[2] = LockedDir(d) /\ a[3].path = c
                   /\ a[3].kind = "File"

TreeScenarios ==
    Meets({a \in SeqOf(TreeMembers, 3) : Tame(a) /\ ~LocksPartial(a)}, {Nothing},
          {{}, {"Xattr", "Symlink"}, {"Mode", "Mtime", "HardLink"}})

(* A destination that is not empty. *)
FullScenarios ==
    Meets({<<m, n>> : m \in TreeMembers, n \in {File(c), Symlink(p, q), File(q)}},
          {With(e4, 1, DirNode), With(e4, 1, ReadOnly(DirNode)),
           With(e4, 1, FileNode(Other)), With(e1, 1, FileNode(Other)),
           With(e1, 1, ReadOnly(FileNode(Other)))}, {{}})

MCScenarios == NameScenarios \cup TreeScenarios \cup
    {s \in FullScenarios : Tame(s.members)}

Alone(archives) == Meets(archives, {Nothing}, {{}})
MCSelfLink == Alone({<<File(p), HardLink(p, p), m>> : m \in {File(q), Special(h), Dir(q)}})
MCRepeated == Alone({<<File(p), HardLink(q, p), m>> : m \in {File(h), File(q), BadFile(h)}})

MCLocks == Alone({<<File(c), LockedDir(d), BadFile(c)>>})

(* A file that gives way to a symbolic link, and the directory whose inode has
   the number the file had. *)
MCStale == Alone({<<File(p), Symlink(p, h), Dir(q), m>> :
                     m \in {Dir(q), File(h), Special(q)}})
=============================================================================
