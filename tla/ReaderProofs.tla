---------------------------- MODULE ReaderProofs ----------------------------
(***************************************************************************)
(* Theorems about opening an archive: the writer's invariants hold of the  *)
(* archive that is read, an intact archive opens, and a quick verify       *)
(* misses no damage.                                                       *)
(***************************************************************************)
EXTENDS Reader, WrapTocProofs, FiniteSetTheorems, WellFoundedInduction

-----------------------------------------------------------------------------
(* The inductive invariant. *)

(* Where the writer has said that a member lies: its header is in its region,
   the content of a file follows the header, and ends with the region. *)
Placed(ms) == \A i \in DOMAIN ms :
    /\ Before(ms, i) <= ms[i].tarOffset
    /\ ms[i].kind = "File" => ms[i].dataStart = ms[i].tarOffset + Block
    /\ ms[i].dataStart + ms[i].size <= ms[i].entryEnd

(* Where chunk j of member i begins in the tar stream, or the last one ends. *)
ChunkAt(i, j) ==
    IF j = 1 THEN Before(members, i)
    ELSE StartIn(frames, members[i].chunks[j - 1])
            + members[i].chunks[j - 1].uncompressedSize

(* What is known of the archive at each point. *)
Opened ==
    /\ rpc = "closed" => damage = {} /\ badFrames = {}
    /\ rpc # "closed" => pc = "done"
    /\ rpc \notin {"closed", "stored"} => toc \in LoadedTocs
    /\ rpc \in {"idle", "chunk", "verify", "ended"} =>
          IdentityReads /\ FooterReads /\ TocReads
    /\ rpc = "refused" /\ damage = {} => footer.tocJson > MaxTocJson

(* What is known of the operation at each point. *)
Begun ==
    /\ rpc # "ended" => outcome = "none"
    /\ rpc \in {"closed", "stored", "idle", "refused"} => op = "none" /\ verdicts = <<>>
    /\ rpc = "chunk" =>
          /\ op \in {"extract", "verifyAll", "verifyMember"}
          /\ idx \in DOMAIN toc /\ Extractable(idx) /\ k >= 1
          /\ op # "extract" => idx <= until /\ until <= Len(toc)
    /\ rpc = "verify" =>
          /\ op \in {"verifyAll", "verifyMember"}
          /\ idx >= 1 /\ until <= Len(toc)
    /\ op = "quick" /\ outcome = "ok" => HashMatches

Session == Opened /\ Begun

ArchiveInv == /\ TocInv /\ Placed(members) /\ inputLen \in InputLens
              /\ ReaderTypeOK /\ Session

-----------------------------------------------------------------------------
(* Sums. *)

(* g begins with 0 and grows by f[j] at j. *)
Adds(g, f, n) == g[0] = 0 /\ \A j \in 1 .. n : g[j] = g[j - 1] + f[j]

(* The n terms of f are numbers. *)
Counts(f, n) == \A j \in 1 .. n : f[j] \in Nat

(* f is e, but for v more at a. *)
Gains(f, e, a, v, n) == \A j \in 1 .. n : f[j] = IF j = a THEN v + e[j] ELSE e[j]

(* Such a g gives the sums of f. *)
LEMMA SumIs ==
    ASSUME NEW n \in Nat, NEW f, NEW g, Adds(g, f, n)
    PROVE  SumOf(f, n) = g[n]
<1>1. g[0] = 0 /\ \A j \in 1 .. n : g[j] = g[j - 1] + f[j]
    BY DEF Adds
<1> DEFINE Sums(s) == s = [j \in 0 .. n |-> IF j = 0 THEN 0 ELSE s[j - 1] + f[j]]
           s == CHOOSE s : Sums(s)
           h == [j \in 0 .. n |-> g[j]]
           T == {j \in 0 .. n : s[j] # g[j]}
<1>2. SumOf(f, n) = s[n]
    BY DEF SumOf
<1>3. Sums(h)
    <2>1. \A j \in 0 .. n : j # 0 => j \in 1 .. n /\ j - 1 \in 0 .. n
        OBVIOUS
    <2> QED
        BY <1>1, <2>1
<1>4. Sums(s)
    BY <1>3
<1> HIDE DEF s
<1>5. T = {}
    <2> SUFFICES ASSUME T # {} PROVE FALSE
        OBVIOUS
    <2>1. T \subseteq Nat
        OBVIOUS
    <2> HIDE DEF T
    <2>2. PICK x \in T : \A y \in T : ~(<<y, x>> \in OpToRel(<, Nat))
        BY <2>1, WFMin, NatLessThanWellFounded, Zenon
    <2>3. x \in 0 .. n /\ s[x] # g[x]
        BY <2>2 DEF T
    <2>4. CASE x = 0
        BY <1>1, <1>4, <2>3, <2>4
    <2>5. CASE x # 0
        <3>1. x - 1 \in 0 .. n /\ x - 1 \in Nat /\ x \in Nat /\ x - 1 < x /\ x \in 1 .. n
            BY <2>3, <2>5
        <3>2. x - 1 \notin T
            BY <2>2, <3>1 DEF OpToRel
        <3>3. s[x - 1] = g[x - 1]
            BY <3>1, <3>2 DEF T
        <3>4. s[x] = s[x - 1] + f[x]
            BY <1>4, <2>3, <2>5
        <3>5. g[x] = g[x - 1] + f[x]
            BY <1>1, <3>1
        <3> QED
            BY <2>3, <3>3, <3>4, <3>5
    <2> QED
        BY <2>4, <2>5
<1> QED
    <2>1. n \in 0 .. n
        OBVIOUS
    <2> QED
        BY <1>2, <1>5, <2>1

(* Every function of numbers has sums. *)
LEMMA SumExists ==
    ASSUME NEW n \in Nat, NEW f, Counts(f, n)
    PROVE  \E g \in [0 .. n -> Nat] : Adds(g, f, n)
<1> DEFINE T == {m \in 0 .. n : ~\E g \in [0 .. m -> Nat] : Adds(g, f, m)}
<1>1. SUFFICES ASSUME T # {} PROVE FALSE
    <2>1. n \in 0 .. n
        OBVIOUS
    <2> QED
        BY <1>1, <2>1
<1>2. T \subseteq Nat
    OBVIOUS
<1> HIDE DEF T
<1>3. PICK m \in T : \A y \in T : ~(<<y, m>> \in OpToRel(<, Nat))
    BY <1>1, <1>2, WFMin, NatLessThanWellFounded, Zenon
<1>4. m \in 0 .. n /\ ~\E g \in [0 .. m -> Nat] : Adds(g, f, m)
    BY <1>3 DEF T
<1>5. CASE m = 0
    <2> DEFINE g == [j \in 0 .. 0 |-> 0]
    <2>1. g \in [0 .. 0 -> Nat] /\ Adds(g, f, 0)
        BY DEF Adds
    <2> QED
        BY <1>4, <1>5, <2>1
<1>6. CASE m # 0
    <2>1. m - 1 \in 0 .. n /\ m - 1 \in Nat /\ m \in Nat /\ m - 1 < m /\ m \in 1 .. n
        BY <1>4, <1>6
    <2>2. m - 1 \notin T
        BY <1>3, <2>1 DEF OpToRel
    <2>3. PICK g \in [0 .. m - 1 -> Nat] : Adds(g, f, m - 1)
        BY <2>1, <2>2 DEF T
    <2> DEFINE h == [j \in 0 .. m |-> IF j = m THEN g[m - 1] + f[m] ELSE g[j]]
    <2>4. m - 1 \in 0 .. m - 1 /\ g[m - 1] \in Nat /\ f[m] \in Nat
        BY <2>1 DEF Counts
    <2>5. h \in [0 .. m -> Nat]
        <3>1. \A j \in 0 .. m : j # m => j \in 0 .. m - 1
            BY <2>1
        <3> QED
            BY <2>1, <2>3, <2>4, <3>1
    <2>6. h[0] = 0
        BY <1>6, <2>1, <2>3 DEF Adds
    <2>7. ASSUME NEW j \in 1 .. m PROVE h[j] = h[j - 1] + f[j]
        <3>1. j \in 0 .. m /\ j - 1 \in 0 .. m /\ j - 1 # m
            BY <2>1
        <3>2. CASE j = m
            BY <3>1, <3>2
        <3>3. CASE j # m
            <4>1. j \in 1 .. m - 1
                BY <2>1, <3>3
            <4> QED
                BY <2>3, <3>1, <3>3, <4>1 DEF Adds
        <3> QED
            BY <3>2, <3>3
    <2> QED
        BY <1>4, <2>5, <2>6, <2>7 DEF Adds
<1> QED
    BY <1>5, <1>6

(* A sum is a number, and one term that grows makes it grow as much. *)
LEMMA SumType ==
    ASSUME NEW n \in Nat, NEW f, Counts(f, n)
    PROVE  SumOf(f, n) \in Nat
<1>1. PICK g \in [0 .. n -> Nat] : Adds(g, f, n)
    BY SumExists
<1>2. SumOf(f, n) = g[n]
    BY <1>1, SumIs
<1>3. n \in 0 .. n
    OBVIOUS
<1> QED
    BY <1>1, <1>2, <1>3

LEMMA SumGrows ==
    ASSUME NEW n \in Nat, NEW e, NEW f, NEW a \in 1 .. n, NEW v \in Nat,
           Counts(e, n), Gains(f, e, a, v, n)
    PROVE  SumOf(f, n) = v + SumOf(e, n)
<1>1. PICK g \in [0 .. n -> Nat] : Adds(g, e, n)
    BY SumExists
<1>2. SumOf(e, n) = g[n]
    BY <1>1, SumIs
<1> DEFINE h == [j \in 0 .. n |-> IF j < a THEN g[j] ELSE v + g[j]]
<1>3. h[0] = 0
    BY <1>1 DEF Adds
<1>4. ASSUME NEW j \in 1 .. n PROVE h[j] = h[j - 1] + f[j]
    <2>1. j \in 0 .. n /\ j - 1 \in 0 .. n
        OBVIOUS
    <2>2. /\ g[j] \in Nat /\ g[j - 1] \in Nat /\ e[j] \in Nat
          /\ g[j] = g[j - 1] + e[j]
          /\ f[j] = IF j = a THEN v + e[j] ELSE e[j]
        BY <1>1, <2>1 DEF Adds, Counts, Gains
    <2>3. /\ h[j] = IF j < a THEN g[j] ELSE v + g[j]
          /\ h[j - 1] = IF j - 1 < a THEN g[j - 1] ELSE v + g[j - 1]
        BY <2>1
    <2> HIDE DEF h
    <2>4. j \in Nat /\ a \in Nat
        OBVIOUS
    <2>5. CASE j < a
        BY <2>2, <2>3, <2>4, <2>5
    <2>6. CASE j = a
        BY <2>2, <2>3, <2>4, <2>6
    <2>7. CASE j > a
        BY <2>2, <2>3, <2>4, <2>7
    <2> QED
        BY <2>4, <2>5, <2>6, <2>7
<1>5. h[n] = v + g[n]
    <2>1. n \in 0 .. n /\ ~(n < a)
        OBVIOUS
    <2> QED
        BY <2>1
<1> HIDE DEF h
<1>6. SumOf(f, n) = h[n]
    <2>1. Adds(h, f, n)
        BY <1>3, <1>4 DEF Adds
    <2> QED
        BY <2>1, SumIs
<1> QED
    BY <1>2, <1>5, <1>6

(* The sum over a set of frames is the sum over any list of them. *)
LEMMA TotalIs ==
    ASSUME NEW n \in Nat, NEW P, \A i \in 1 .. n : P[i][2] \in Nat,
           \A i, j \in 1 .. n : P[i] = P[j] => i = j
    PROVE  TotalSize({P[i] : i \in 1 .. n}) = SumOf([i \in 1 .. n |-> P[i][2]], n)
<1> DEFINE S == {P[i] : i \in 1 .. n}
           Size(x) == x[2]
           Iter(t) == t = [s \in SUBSET S |->
                             IF s = {} THEN 0
                             ELSE (CHOOSE r \in s : TRUE)[2]
                                     + t[s \ {CHOOSE r \in s : TRUE}]]
           t == CHOOSE t : Iter(t)
           In(s) == [i \in 1 .. n |-> IF P[i] \in s THEN P[i][2] ELSE 0]
           h == [s \in SUBSET S |-> SumOf(In(s), n)]
<1>1. TotalSize(S) = t[S]
    BY DEF TotalSize, MapThenFoldSet
<1>2. ASSUME NEW s \in SUBSET S, NEW r \in s
      PROVE  h[s] = r[2] + h[s \ {r}]
    <2>1. PICK a \in 1 .. n : r = P[a]
        OBVIOUS
    <2>2. Counts(In(s \ {r}), n)
        BY DEF Counts
    <2>3. Gains(In(s), In(s \ {r}), a, r[2], n)
        <3> SUFFICES ASSUME NEW j \in 1 .. n
                     PROVE  In(s)[j] = IF j = a THEN r[2] + In(s \ {r})[j]
                                                ELSE In(s \ {r})[j]
            BY DEF Gains
        <3>1. CASE j = a
            <4>1. P[j] \in s /\ P[j] \notin s \ {r} /\ r[2] \in Nat /\ r = P[j]
                BY <2>1, <3>1
            <4>2. In(s)[j] = r[2] /\ In(s \ {r})[j] = 0
                BY <4>1
            <4> QED
                BY <3>1, <4>1, <4>2
        <3>2. CASE j # a
            <4>1. P[j] # r
                BY <2>1, <3>2
            <4>2. P[j] \in s <=> P[j] \in s \ {r}
                BY <4>1
            <4>3. In(s)[j] = In(s \ {r})[j]
                BY <4>2
            <4> QED
                BY <3>2, <4>3
        <3> QED
            BY <3>1, <3>2
    <2>4. r[2] \in Nat
        BY <2>1
    <2> HIDE DEF In
    <2>5. SumOf(In(s), n) = r[2] + SumOf(In(s \ {r}), n)
        BY <2>2, <2>3, <2>4, SumGrows
    <2>6. s \ {r} \in SUBSET S
        OBVIOUS
    <2> QED
        BY <2>5, <2>6
<1>3. h[{}] = 0
    <2>1. \A j \in 1 .. n : In({})[j] = 0
        OBVIOUS
    <2> DEFINE z == [j \in 0 .. n |-> 0]
    <2>2. z[n] = 0 /\ Adds(z, In({}), n)
        BY <2>1 DEF Adds
    <2> HIDE DEF z, In
    <2>3. SumOf(In({}), n) = z[n]
        BY <2>2, SumIs
    <2> QED
        BY <2>2, <2>3
<1> HIDE DEF In
<1>4. Iter(h)
    <2>1. ASSUME NEW s \in SUBSET S, s # {}
          PROVE  h[s] = (CHOOSE r \in s : TRUE)[2] + h[s \ {CHOOSE r \in s : TRUE}]
        <3>1. (CHOOSE r \in s : TRUE) \in s
            BY <2>1
        <3> QED
            BY <1>2, <3>1
    <2>2. h = [s \in SUBSET S |-> h[s]]
        OBVIOUS
    <2> QED
        BY <1>3, <2>1, <2>2
<1>5. Iter(t)
    BY <1>4
<1> DEFINE T == {s \in SUBSET S : t[s] # h[s]}
           N == {Cardinality(s) : s \in T}
<1>6. IsFiniteSet(S)
    <2>1. IsFiniteSet(1 .. n)
        BY FS_Interval
    <2> DEFINE f == [i \in 1 .. n |-> P[i]]
    <2>2. f \in Surjection(1 .. n, S)
        BY DEF Surjection
    <2> QED
        BY <2>1, <2>2, FS_Surjection
<1>7. T = {}
    <2> HIDE DEF t, h, S
    <2> SUFFICES ASSUME T # {} PROVE FALSE
        OBVIOUS
    <2>1. \A s \in T : IsFiniteSet(s) /\ Cardinality(s) \in Nat
        BY <1>6, FS_Subset, FS_CardinalityType
    <2>2. N \subseteq Nat /\ N # {}
        BY <2>1
    <2> HIDE DEF N
    <2>3. PICK c \in N : \A y \in N : ~(<<y, c>> \in OpToRel(<, Nat))
        BY <2>2, WFMin, NatLessThanWellFounded, Zenon
    <2>4. PICK s \in T : Cardinality(s) = c
        BY <2>3 DEF N
    <2>5. s \in SUBSET S /\ t[s] # h[s]
        BY <2>4
    <2>6. CASE s = {}
        BY <1>3, <1>5, <2>5, <2>6
    <2>7. CASE s # {}
        <3> DEFINE r == CHOOSE r \in s : TRUE
        <3>1. r \in s
            BY <2>7
        <3>2. t[s] = r[2] + t[s \ {r}]
            BY <1>5, <2>5, <2>7
        <3> HIDE DEF r
        <3>3. h[s] = r[2] + h[s \ {r}]
            BY <1>2, <2>5, <3>1
        <3>4. s \ {r} \in T
            BY <2>5, <3>2, <3>3
        <3>5. Cardinality(s \ {r}) = Cardinality(s) - 1
            BY <2>1, <3>1, FS_RemoveElement
        <3>6. Cardinality(s \ {r}) \in N /\ c \in Nat /\ Cardinality(s \ {r}) \in Nat
            BY <2>1, <2>2, <2>3, <3>4 DEF N
        <3>7. Cardinality(s \ {r}) < c
            BY <2>4, <3>5, <3>6
        <3> QED
            BY <2>3, <3>6, <3>7 DEF OpToRel
    <2> QED
        BY <2>6, <2>7
<1>8. t[S] = h[S]
    BY <1>7
<1>9. h[S] = SumOf(In(S), n)
    OBVIOUS
<1>10. In(S) = [i \in 1 .. n |-> P[i][2]]
    BY DEF In
<1> QED
    BY <1>1, <1>8, <1>9, <1>10
-----------------------------------------------------------------------------
(* The archive that the writer has completed. *)

(* All of MemberInv, where it matters to a reader. *)
LEMMA Complete ==
    ASSUME TocInv, pc = "done"
    PROVE  /\ frames \in Seq(FrameRecords) /\ InOrder(frames)
           /\ Tiled /\ Packed
           /\ members \in Seq(MemberRecords) /\ Regions(members)
           /\ Chained(frames, members)
           /\ Covered(frames, members, Len(members))
           /\ Digested(members, Len(members))
           /\ footer \in [tocOffset: Int, tocFrameSize: Int, tocJson: Int]
           /\ footer.tocOffset = PhysicalEnd
<1>1. /\ TypeOK /\ Layout /\ OutputInv /\ MemberInv /\ ReportsInOrder
      /\ TocSound(frames, members, Len(reported), group, nextChunkStart)
      /\ EndInv
    BY DEF TocInv, TypeInv, MemberInv
<1>2. group = <<>> /\ Len(group) = 0
    BY <1>1 DEF Layout
<1>3. reported \in Seq(Nat)
    BY <1>1 DEF TypeOK
<1>4. Len(reported) = Len(members) /\ Len(reported) + Len(group) = Len(members)
    BY <1>1, <1>2, <1>3 DEF ReportsInOrder
<1>5. /\ frames \in Seq(FrameRecords) /\ members \in Seq(MemberRecords)
      /\ footer \in [tocOffset: Int, tocFrameSize: Int, tocJson: Int]
    BY <1>1 DEF TypeOK
<1>6. Tiled /\ Packed /\ pos = PhysicalEnd
    BY <1>1 DEF OutputInv, FramesTileTar, PosIsOutputLength
<1>7. footer.tocOffset = pos
    BY <1>1 DEF EndInv
<1>8. InOrder(frames)
    BY <1>1 DEF MemberInv
<1> QED
    BY <1>1, <1>4, <1>5, <1>6, <1>7, <1>8 DEF TocSound

(* The chunks of a member, one after the other. *)
LEMMA MemberChunks ==
    ASSUME TocInv, pc = "done", NEW i \in DOMAIN members
    PROVE  LET cs == members[i].chunks IN
           /\ members[i] \in MemberRecords
           /\ cs \in Seq(ChunkRecords) /\ cs # <<>> /\ Len(cs) \in Nat
           /\ ChunkAt(i, 1) = Before(members, i) /\ Before(members, i) \in Nat
           /\ ChunkAt(i, Len(cs) + 1) = members[i].entryEnd
           /\ \A j \in 1 .. Len(cs) :
                 /\ \E f \in DOMAIN frames : Leads(frames, cs[j], f)
                 /\ StartIn(frames, cs[j]) = ChunkAt(i, j)
                 /\ ChunkAt(i, j + 1) = ChunkAt(i, j) + cs[j].uncompressedSize
                 /\ ChunkAt(i, j) \in Nat
<1> DEFINE cs == members[i].chunks
<1>1. /\ frames \in Seq(FrameRecords) /\ InOrder(frames)
      /\ members \in Seq(MemberRecords)
      /\ Chained(frames, members) /\ Covered(frames, members, Len(members))
    BY Complete
<1>2. members[i] \in MemberRecords /\ i \in 1 .. Len(members)
      /\ i \in 1 .. Len(members) + 1
    BY <1>1
<1>3. cs \in Seq(ChunkRecords)
    BY <1>2 DEF MemberRecords
<1>4. ChainedIn(frames, cs, Before(members, i))
    BY <1>1 DEF Chained
<1>5. cs # <<>> /\ EndIn(frames, cs, Before(members, i)) = members[i].entryEnd
    BY <1>1, <1>2 DEF Covered
<1>6. Before(members, i) \in Nat
    BY <1>1, <1>2, BeforeType
<1> HIDE DEF cs
<1>7. Len(cs) \in Nat /\ Len(cs) # 0 /\ DOMAIN cs = 1 .. Len(cs)
    BY <1>3, <1>5
<1>8. ChunkAt(i, 1) = Before(members, i)
    BY DEF ChunkAt
<1>9. \A j \in Nat : j # 0 => ChunkAt(i, j + 1) = StartIn(frames, cs[j]) + cs[j].uncompressedSize
    <2> SUFFICES ASSUME NEW j \in Nat, j # 0
                 PROVE  ChunkAt(i, j + 1) = StartIn(frames, cs[j]) + cs[j].uncompressedSize
        OBVIOUS
    <2>1. j + 1 # 1 /\ (j + 1) - 1 = j
        OBVIOUS
    <2> QED
        BY <2>1 DEF ChunkAt, cs
<1>10. ASSUME NEW j \in 1 .. Len(cs)
       PROVE  /\ \E f \in DOMAIN frames : Leads(frames, cs[j], f)
              /\ StartIn(frames, cs[j]) = ChunkAt(i, j)
              /\ ChunkAt(i, j + 1) = ChunkAt(i, j) + cs[j].uncompressedSize
              /\ ChunkAt(i, j) \in Nat
    <2>1. /\ \E f \in DOMAIN frames : Leads(frames, cs[j], f)
          /\ StartIn(frames, cs[j]) = IF j = 1 THEN Before(members, i)
                ELSE StartIn(frames, cs[j - 1]) + cs[j - 1].uncompressedSize
        BY <1>4, <1>7 DEF ChainedIn
    <2>2. StartIn(frames, cs[j]) = ChunkAt(i, j)
        BY <2>1 DEF ChunkAt, cs
    <2>3. PICK f \in DOMAIN frames : Leads(frames, cs[j], f)
        BY <2>1
    <2>4. cs[j] \in ChunkRecords /\ frames[f] \in FrameRecords
        BY <1>1, <1>3
    <2>5. StartIn(frames, cs[j]) = frames[f].start + cs[j].frameOffset
        BY <1>1, <2>3, FoundIn DEF Leads
    <2>6. frames[f].start + cs[j].frameOffset \in Nat
        BY <2>4 DEF ChunkRecords, FrameRecords
    <2>7. j \in Nat /\ j # 0
        OBVIOUS
    <2> QED
        BY <1>9, <2>1, <2>2, <2>5, <2>6, <2>7
<1>11. ChunkAt(i, Len(cs) + 1) = members[i].entryEnd
    BY <1>5, <1>7, <1>9 DEF EndIn
<1> QED
    BY <1>2, <1>3, <1>5, <1>6, <1>7, <1>8, <1>10, <1>11 DEF cs

(* The sizes of a member's chunks add up to its region. *)
LEMMA ChunksFillRegion ==
    ASSUME TocInv, pc = "done", NEW i \in DOMAIN members
    PROVE  TotalChunkSize(members[i]) = members[i].entryEnd - Before(members, i)
<1> DEFINE cs == members[i].chunks
           n == Len(cs)
           f == [j \in DOMAIN cs |-> cs[j].uncompressedSize]
           g == [j \in 0 .. n |-> ChunkAt(i, j + 1) - Before(members, i)]
<1>1. /\ n \in Nat /\ cs \in Seq(ChunkRecords)
      /\ ChunkAt(i, 1) = Before(members, i) /\ Before(members, i) \in Nat
      /\ ChunkAt(i, n + 1) = members[i].entryEnd
      /\ \A j \in 1 .. n :
            /\ ChunkAt(i, j + 1) = ChunkAt(i, j) + cs[j].uncompressedSize
            /\ ChunkAt(i, j) \in Nat
    BY MemberChunks
<1>2. g[0] = 0
    BY <1>1
<1>3. ASSUME NEW j \in 1 .. n PROVE g[j] = g[j - 1] + f[j]
    <2>1. /\ j \in 0 .. n /\ j - 1 \in 0 .. n /\ (j - 1) + 1 = j /\ j \in DOMAIN cs
        BY <1>1
    <2>2. cs[j] \in ChunkRecords
        BY <1>1, <2>1
    <2>3. /\ g[j] = ChunkAt(i, j + 1) - Before(members, i)
          /\ g[j - 1] = ChunkAt(i, j) - Before(members, i)
          /\ f[j] = cs[j].uncompressedSize
        BY <2>1
    <2>4. /\ ChunkAt(i, j + 1) = ChunkAt(i, j) + cs[j].uncompressedSize
          /\ ChunkAt(i, j) \in Nat
        BY <1>1
    <2>5. cs[j].uncompressedSize \in Nat
        BY <2>2 DEF ChunkRecords
    <2> QED
        BY <1>1, <2>3, <2>4, <2>5
<1>4. g[n] = members[i].entryEnd - Before(members, i)
    BY <1>1
<1>5. TotalChunkSize(members[i]) = SumOf(f, n)
    BY DEF TotalChunkSize
<1>6. n \in Nat
    BY <1>1
<1> HIDE DEF f, g, n
<1>7. SumOf(f, n) = g[n]
    BY <1>2, <1>3, <1>6, SumIs DEF Adds
<1> QED
    BY <1>4, <1>5, <1>7
-----------------------------------------------------------------------------
(* The TOC that the reader has loaded. *)

(* A damaged entry is still an entry; only its digest may be none or wrong. *)
LEMMA AlteredType ==
    ASSUME NEW m \in MemberRecords, NEW a \in Altered(m)
    PROVE  a \in MemberRecords /\ a.digest \in {m.digest, NoDigest, WrongDigest}
<1>1. /\ m.kind \in Kinds /\ m.tarOffset \in Nat /\ m.size \in Nat
      /\ m.digest \in SUBSET Int /\ m.chunks \in Seq(ChunkRecords)
      /\ m.dataStart \in Nat /\ m.entryEnd \in Nat
    BY DEF MemberRecords
<1>2. \A n \in Nat : Misread(n) \subseteq Nat
    <2> SUFFICES ASSUME NEW n \in Nat, NEW slip \in Slips PROVE (n + slip) % Word \in Nat
        BY DEF Misread
    <2>1. Word \in Nat /\ Word > 0 /\ n + slip \in Int
        BY WordAssumption
    <2> QED
        BY <2>1
<1>3. NoDigest \in SUBSET Int /\ WrongDigest \in SUBSET Int
    BY DEF NoDigest, WrongDigest, WrongByte
<1>4. CASE a \in {[m EXCEPT !.size = n] : n \in Misread(m.size)}
    BY <1>1, <1>2, <1>4 DEF MemberRecords
<1>5. CASE a \in {[m EXCEPT !.tarOffset = n] : n \in Misread(m.tarOffset)}
    BY <1>1, <1>2, <1>5 DEF MemberRecords
<1>6. CASE a \in {[m EXCEPT !.kind = t] : t \in Kinds}
    BY <1>1, <1>6 DEF MemberRecords
<1>7. CASE a \in {[m EXCEPT !.digest = d] : d \in {NoDigest, WrongDigest}}
    BY <1>1, <1>3, <1>7 DEF MemberRecords
<1>8. CASE a \in UNION {{[m EXCEPT !.chunks = [@ EXCEPT ![j] = c]] :
                          c \in AlteredChunk(m.chunks[j])} : j \in DOMAIN m.chunks}
    <2>1. PICK j \in DOMAIN m.chunks : \E c \in AlteredChunk(m.chunks[j]) :
             a = [m EXCEPT !.chunks = [m.chunks EXCEPT ![j] = c]]
        BY <1>1, <1>8 DEF MemberRecords
    <2>2. PICK c \in AlteredChunk(m.chunks[j]) :
             a = [m EXCEPT !.chunks = [m.chunks EXCEPT ![j] = c]]
        BY <2>1
    <2> DEFINE d == m.chunks[j]
               cs == [m.chunks EXCEPT ![j] = c]
    <2>3. d \in ChunkRecords
        BY <1>1
    <2>4. c \in ChunkRecords
        <3>1. /\ d.compressedOffset \in Nat /\ d.compressedSize \in Nat
              /\ d.uncompressedSize \in Nat /\ d.frameOffset \in Nat
            BY <2>3 DEF ChunkRecords
        <3>2. \A n \in Misread(d.compressedOffset) \cup Misread(d.compressedSize)
                     \cup Misread(d.uncompressedSize) \cup Misread(d.frameOffset) \cup {0} :
                 n \in Nat
            BY <1>2, <3>1
        <3>3. c \in AlteredChunk(d)
            BY <2>2
        <3> HIDE DEF d
        <3> QED
            BY <2>3, <3>2, <3>3 DEF AlteredChunk, ChunkRecords
    <2>5. cs \in Seq(ChunkRecords)
        BY <1>1, <2>4
    <2> HIDE DEF cs
    <2>6. a = [m EXCEPT !.chunks = cs]
        BY <2>2 DEF cs
    <2> QED
        BY <1>1, <2>5, <2>6 DEF MemberRecords
<1> QED
    BY <1>4, <1>5, <1>6, <1>7, <1>8 DEF Altered

(* An undamaged TOC is the writer's; otherwise one entry may be altered. *)
LEMMA LoadedFacts ==
    ASSUME TocInv, pc = "done", NEW t \in LoadedTocs
    PROVE  /\ t \in Seq(MemberRecords) /\ Len(t) = Len(members)
           /\ DOMAIN t = DOMAIN members
           /\ \A i \in DOMAIN members :
                 t[i].digest \in {members[i].digest, NoDigest, WrongDigest}
           /\ <<"toc", "payload">> \notin damage => t = members
<1>1. members \in Seq(MemberRecords) /\ Len(members) \in Nat
      /\ DOMAIN members = 1 .. Len(members)
    BY Complete
<1>2. CASE t = members
    BY <1>1, <1>2
<1>3. CASE \E n \in DOMAIN members : \E m \in Altered(members[n]) :
              t = [members EXCEPT ![n] = m] /\ <<"toc", "payload">> \in damage
    <2>1. PICK n \in DOMAIN members :
              \E m \in Altered(members[n]) : t = [members EXCEPT ![n] = m]
        BY <1>3
    <2>2. PICK m \in Altered(members[n]) : t = [members EXCEPT ![n] = m]
        BY <2>1
    <2>3. members[n] \in MemberRecords
        BY <1>1
    <2>4. m \in MemberRecords /\ m.digest \in {members[n].digest, NoDigest, WrongDigest}
        BY <2>3, AlteredType
    <2>5. t[n] = m /\ \A i \in DOMAIN members : i # n => t[i] = members[i]
        BY <1>1, <2>2
    <2>6. \A i \in DOMAIN members :
             t[i].digest \in {members[i].digest, NoDigest, WrongDigest}
        BY <2>4, <2>5
    <2> QED
        BY <1>1, <1>3, <2>2, <2>4, <2>6
<1> QED
    BY <1>2, <1>3 DEF LoadedTocs

(* chunk_tar_start is a number, whatever is altered. *)
LEMMA ChunkStartType ==
    ASSUME toc \in Seq(MemberRecords), NEW i \in 1 .. Len(toc) + 1
    PROVE  ChunkTarStart(i) \in Nat
<1> DEFINE n == i - 1
           f == [j \in DOMAIN toc |-> TotalChunkSize(toc[j])]
<1>1. n \in Nat /\ 1 .. n \subseteq DOMAIN toc
    BY DEF n
<1>2. ASSUME NEW j \in DOMAIN toc PROVE TotalChunkSize(toc[j]) \in Nat
    <2> DEFINE cs == toc[j].chunks
               g == [x \in DOMAIN cs |-> cs[x].uncompressedSize]
    <2>1. toc[j] \in MemberRecords
        OBVIOUS
    <2>2. cs \in Seq(ChunkRecords)
        BY <2>1 DEF MemberRecords
    <2> HIDE DEF cs
    <2>3. Len(cs) \in Nat /\ DOMAIN cs = 1 .. Len(cs)
        BY <2>2
    <2>4. \A x \in 1 .. Len(cs) : cs[x] \in ChunkRecords
        BY <2>2, <2>3
    <2>5. \A x \in 1 .. Len(cs) : g[x] \in Nat
        BY <2>3, <2>4 DEF ChunkRecords
    <2> HIDE DEF g
    <2>6. SumOf(g, Len(cs)) \in Nat
        BY <2>3, <2>5, SumType DEF Counts
    <2> QED
        BY <2>6 DEF TotalChunkSize, g, cs
<1>3. Counts(f, n)
    BY <1>1, <1>2 DEF Counts
<1>4. ChunkTarStart(i) = SumOf(f, n)
    BY DEF ChunkTarStart
<1> HIDE DEF f, n
<1> QED
    BY <1>1, <1>3, <1>4, SumType

(* In the writer's TOC it is the end of the member before. *)
LEMMA ChunkStart ==
    ASSUME TocInv, pc = "done", toc = members, NEW i \in 1 .. Len(members) + 1
    PROVE  ChunkTarStart(i) = Before(members, i) /\ Before(members, i) \in Nat
<1> DEFINE n == i - 1
           f == [j \in DOMAIN members |-> TotalChunkSize(members[j])]
           g == [j \in 0 .. n |-> Before(members, j + 1)]
<1>1. /\ members \in Seq(MemberRecords) /\ Len(members) \in Nat
      /\ DOMAIN members = 1 .. Len(members)
    BY Complete
<1>2. n \in Nat /\ n <= Len(members) /\ n + 1 = i
    BY <1>1
<1>3. g[0] = 0
    BY <1>2 DEF Before
<1>4. ASSUME NEW j \in 1 .. n PROVE g[j] = g[j - 1] + f[j]
    <2>1. /\ j \in 0 .. n /\ j - 1 \in 0 .. n /\ (j - 1) + 1 = j
          /\ j \in DOMAIN members /\ j \in 1 .. Len(members) + 1
          /\ j + 1 # 1 /\ (j + 1) - 1 = j
        BY <1>1, <1>2
    <2>2. TotalChunkSize(members[j]) = members[j].entryEnd - Before(members, j)
        BY <2>1, ChunksFillRegion
    <2>3. g[j] = members[j].entryEnd /\ g[j - 1] = Before(members, j)
        BY <2>1 DEF Before
    <2>4. Before(members, j) \in Nat
        BY <1>1, <2>1, BeforeType
    <2>5. members[j].entryEnd \in Nat
        <3>1. members[j] \in MemberRecords
            BY <1>1, <2>1
        <3> QED
            BY <3>1 DEF MemberRecords
    <2>6. f[j] = TotalChunkSize(members[j])
        BY <2>1
    <2> HIDE DEF f, g
    <2> QED
        BY <2>2, <2>3, <2>4, <2>5, <2>6
<1>5. g[n] = Before(members, i)
    BY <1>2
<1>6. ChunkTarStart(i) = SumOf(f, n)
    BY DEF ChunkTarStart
<1>7. Before(members, i) \in Nat
    BY <1>1, BeforeType
<1> HIDE DEF f, g, n
<1>8. SumOf(f, n) = g[n]
    BY <1>2, <1>3, <1>4, SumIs DEF Adds
<1> QED
    BY <1>5, <1>6, <1>7, <1>8

(* validate_chunk_layout accepts what the writer has written. *)
LEMMA LayoutAccepted ==
    ASSUME TocInv, pc = "done", toc' = members
    PROVE  ValidChunkLayout
<1>1. /\ frames \in Seq(FrameRecords) /\ InOrder(frames) /\ Packed
      /\ Len(frames) \in Nat /\ DOMAIN frames = 1 .. Len(frames)
      /\ footer.tocOffset = PhysicalEnd
    BY Complete
<1>2. ASSUME NEW r \in Ranges
      PROVE  \E f \in DOMAIN frames : r = <<frames[f].at, frames[f].size>>
    <2>1. PICK i \in DOMAIN members :
            \E j \in DOMAIN members[i].chunks :
               r = <<members[i].chunks[j].compressedOffset,
                     members[i].chunks[j].compressedSize>>
        BY <1>2 DEF Ranges
    <2>2. PICK j \in DOMAIN members[i].chunks :
            r = <<members[i].chunks[j].compressedOffset,
                  members[i].chunks[j].compressedSize>>
        BY <2>1
    <2>3. j \in 1 .. Len(members[i].chunks)
        BY MemberChunks
    <2>4. PICK f \in DOMAIN frames : Leads(frames, members[i].chunks[j], f)
        BY <2>3, MemberChunks
    <2> QED
        BY <2>2, <2>4 DEF Leads
<1>3. ASSUME NEW f \in DOMAIN frames
      PROVE  /\ frames[f].at \in Nat /\ frames[f].size \in Nat /\ frames[f].size > 0
             /\ IdentitySize <= frames[f].at
             /\ frames[f].at + frames[f].size <= footer.tocOffset
    <2>1. /\ frames[f] \in FrameRecords /\ frames[1] \in FrameRecords
          /\ frames[Len(frames)] \in FrameRecords
          /\ 1 \in DOMAIN frames /\ Len(frames) \in DOMAIN frames
          /\ f \in Nat /\ 1 <= f /\ f <= Len(frames)
        BY <1>1
    <2>2. /\ frames[f].at \in Nat /\ frames[f].size \in Nat
          /\ frames[1].at \in Nat /\ frames[1].size \in Nat
          /\ frames[Len(frames)].at \in Nat /\ frames[Len(frames)].size \in Nat
        BY <2>1 DEF FrameRecords
    <2>3. frames[1].at = IdentitySize
        BY <1>1, <2>1 DEF Packed
    <2>4. 1 < f => frames[1].at + frames[1].size <= frames[f].at
        BY <1>1, <2>1 DEF InOrder
    <2>5. f < Len(frames) => frames[f].at + frames[f].size <= frames[Len(frames)].at
        BY <1>1, <2>1 DEF InOrder
    <2>6. PhysicalEnd = frames[Len(frames)].at + frames[Len(frames)].size
        BY <1>1, <2>1 DEF PhysicalEnd
    <2>7. frames[f].size > 0
        BY <1>1 DEF InOrder
    <2>8. f = 1 \/ 1 < f
        BY <2>1
    <2>9. f = Len(frames) \/ f < Len(frames)
        BY <1>1, <2>1
    <2>10. IdentitySize <= frames[f].at
        BY <2>2, <2>3, <2>4, <2>8, IdentityAssumption
    <2>11. frames[f].at + frames[f].size <= PhysicalEnd
        BY <2>2, <2>5, <2>6, <2>9
    <2> QED
        BY <1>1, <2>2, <2>7, <2>10, <2>11
<1>4. ASSUME NEW r \in Ranges
      PROVE  IdentitySize <= r[1] /\ r[1] + r[2] <= footer.tocOffset
    BY <1>2, <1>3
<1>5. ASSUME NEW a \in Ranges, NEW b \in Ranges, Precedes(a, b)
      PROVE  a[1] + a[2] <= b[1]
    <2>1. PICK f \in DOMAIN frames : a = <<frames[f].at, frames[f].size>>
        BY <1>2
    <2>2. PICK g \in DOMAIN frames : b = <<frames[g].at, frames[g].size>>
        BY <1>2
    <2>3. /\ a[1] = frames[f].at /\ a[2] = frames[f].size
          /\ b[1] = frames[g].at /\ b[2] = frames[g].size
        BY <2>1, <2>2
    <2>4. f \in Nat /\ g \in Nat
        BY <1>1
    <2>5. /\ f < g => frames[f].at + frames[f].size <= frames[g].at
          /\ g < f => frames[g].at + frames[g].size <= frames[f].at
        BY <1>1 DEF InOrder
    <2>6. \/ frames[f].at < frames[g].at
          \/ /\ frames[f].at = frames[g].at
             /\ frames[f].size < frames[g].size
        BY <1>5, <2>3 DEF Precedes
    <2>7. f = g \/ f < g \/ g < f
        BY <2>4
    <2>8. /\ frames[f].at \in Nat /\ frames[f].size \in Nat
          /\ frames[g].at \in Nat /\ frames[g].size \in Nat
        BY <1>3
    <2> QED
        BY <2>3, <2>5, <2>6, <2>7, <2>8
<1> QED
    BY <1>4, <1>5 DEF ValidChunkLayout
-----------------------------------------------------------------------------
(* Placed is kept by the writer. *)

(* Chunks and digests do not matter to it. *)
SamePlaces(ms, new) ==
    /\ Len(new) = Len(ms)
    /\ \A i \in 1 .. Len(ms) :
          /\ new[i].kind = ms[i].kind /\ new[i].size = ms[i].size
          /\ new[i].tarOffset = ms[i].tarOffset
          /\ new[i].dataStart = ms[i].dataStart
          /\ new[i].entryEnd = ms[i].entryEnd

LEMMA PlacesKept ==
    ASSUME NEW ms \in Seq(MemberRecords), NEW new \in Seq(MemberRecords),
           SamePlaces(ms, new), Placed(ms)
    PROVE  Placed(new)
<1> SUFFICES ASSUME NEW i \in DOMAIN new
             PROVE  /\ Before(new, i) <= new[i].tarOffset
                    /\ new[i].kind = "File" => new[i].dataStart = new[i].tarOffset + Block
                    /\ new[i].dataStart + new[i].size <= new[i].entryEnd
    BY DEF Placed
<1>1. i \in 1 .. Len(ms) /\ i \in DOMAIN ms /\ Len(ms) \in Nat
    BY DEF SamePlaces
<1>2. Before(new, i) = Before(ms, i)
    <2>1. CASE i = 1
        BY <2>1 DEF Before
    <2>2. CASE i # 1
        <3>1. i - 1 \in 1 .. Len(ms)
            BY <1>1, <2>2
        <3> QED
            BY <2>2, <3>1 DEF Before, SamePlaces
    <2> QED
        BY <2>1, <2>2
<1>3. /\ new[i].kind = ms[i].kind /\ new[i].size = ms[i].size
      /\ new[i].tarOffset = ms[i].tarOffset
      /\ new[i].dataStart = ms[i].dataStart
      /\ new[i].entryEnd = ms[i].entryEnd
    BY <1>1 DEF SamePlaces
<1>4. /\ Before(ms, i) <= ms[i].tarOffset
      /\ ms[i].kind = "File" => ms[i].dataStart = ms[i].tarOffset + Block
      /\ ms[i].dataStart + ms[i].size <= ms[i].entryEnd
    BY <1>1 DEF Placed
<1> QED
    BY <1>2, <1>3, <1>4

(* The entry of the member that has just been parsed. *)
LEMMA MemberPlaced ==
    ASSUME TypeInv, MemberInv, pc = "parse", Placed(members), NEW h \in Headers,
           NEW digest \in SUBSET Int
    PROVE  Placed(WithMember(h, digest))
<1> DEFINE new == WithMember(h, digest)
           n == Len(members)
<1>1. /\ parseStart \in Nat /\ prevEnd \in Nat /\ prevEnd <= parseStart
      /\ members \in Seq(MemberRecords) /\ n \in Nat
      /\ DOMAIN members = 1 .. n
    BY DEF TypeInv, TypeOK, Layout
<1>2. /\ new \in Seq(MemberRecords) /\ Len(new) = n + 1
      /\ new[n + 1] = TocMember(h, digest)
      /\ \A i \in 1 .. n : new[i] = members[i]
      /\ Before(new, n + 1) = prevEnd
    BY MemberAdded
<1> HIDE DEF new
<1>3. DOMAIN new = 1 .. n + 1
    BY <1>1, <1>2
<1>4. ASSUME NEW i \in DOMAIN new
      PROVE  /\ Before(new, i) <= new[i].tarOffset
             /\ new[i].kind = "File" => new[i].dataStart = new[i].tarOffset + Block
             /\ new[i].dataStart + new[i].size <= new[i].entryEnd
    <2>1. CASE i = n + 1
        <3>1. /\ parseStart <= TarOffset(h) /\ TarOffset(h) \in Nat
              /\ DataStart(h) + h.size <= EntryEnd(h)
            BY <1>1, HeaderFacts
        <3>2. h.kind = "File" => h.map = 0
            BY HeadersAssumption DEF HeaderRecords
        <3>3. h.kind = "File" => DataStart(h) = TarOffset(h) + Block
            BY <3>1, <3>2, BlockAssumption DEF DataStart
        <3>4. /\ new[i].kind = h.kind /\ new[i].size = h.size
              /\ new[i].tarOffset = TarOffset(h) /\ new[i].dataStart = DataStart(h)
              /\ new[i].entryEnd = EntryEnd(h)
            BY <1>2, <2>1 DEF TocMember
        <3>5. Before(new, i) <= TarOffset(h)
            BY <1>1, <1>2, <2>1, <3>1
        <3> QED
            BY <3>1, <3>3, <3>4, <3>5
    <2>2. CASE i # n + 1
        <3>1. i \in 1 .. n /\ i \in DOMAIN members
            BY <1>1, <1>3, <2>2
        <3>2. Before(new, i) = Before(members, i)
            <4>1. CASE i = 1
                BY <4>1 DEF Before
            <4>2. CASE i # 1
                <5>1. i - 1 \in 1 .. n
                    BY <1>1, <3>1, <4>2
                <5> QED
                    BY <1>2, <4>2, <5>1 DEF Before
            <4> QED
                BY <4>1, <4>2
        <3>3. new[i] = members[i]
            BY <1>2, <3>1
        <3> QED
            BY <3>1, <3>2, <3>3 DEF Placed
    <2> QED
        BY <2>1, <2>2
<1>5. Placed(new)
    BY <1>4 DEF Placed
<1> QED
    BY <1>5 DEF new

LEMMA FlushPlaces ==
    ASSUME NEW ms \in Seq(MemberRecords), NEW g, NEW size, Flush(ms, g, size)
    PROVE  SamePlaces(ms, members')
<1>1. PICK z \in FrameSizes : members' = WithGroupChunks(ms, g, z)
    BY DEF Flush
<1>2. DOMAIN members' = DOMAIN ms /\ Len(members') = Len(ms)
    BY <1>1 DEF WithGroupChunks
<1>3. ASSUME NEW i \in 1 .. Len(ms)
      PROVE  /\ members'[i].kind = ms[i].kind /\ members'[i].size = ms[i].size
             /\ members'[i].tarOffset = ms[i].tarOffset
             /\ members'[i].dataStart = ms[i].dataStart
             /\ members'[i].entryEnd = ms[i].entryEnd
    <2>1. ms[i] \in MemberRecords /\ i \in DOMAIN ms
        OBVIOUS
    <2>2. members'[i] = ms[i] \/ \E c : members'[i] = WithChunk(ms[i], c)
        BY <1>1, <2>1 DEF WithGroupChunks
    <2> QED
        BY <2>1, <2>2 DEF WithChunk, MemberRecords
<1> QED
    BY <1>2, <1>3 DEF SamePlaces

LEMMA FlushGroupPlaces ==
    ASSUME NEW ms \in Seq(MemberRecords), FlushGroup(ms)
    PROVE  SamePlaces(ms, members')
<1>1. CASE members' = ms
    BY <1>1 DEF SamePlaces
<1>2. CASE Flush(ms, group, groupSize)
    BY <1>2, FlushPlaces
<1> QED
    BY <1>1, <1>2 DEF FlushGroup

(* The steps of a large member only touch its chunks and its digest. *)
LEMMA LastPlaces ==
    ASSUME members \in Seq(MemberRecords), members # <<>>, PushFullChunk \/ FinishLarge
    PROVE  SamePlaces(members, members')
<1> DEFINE n == Len(members)
           m == members[n]
           Same(a) == /\ a.kind = m.kind /\ a.size = m.size
                      /\ a.tarOffset = m.tarOffset
                      /\ a.dataStart = m.dataStart /\ a.entryEnd = m.entryEnd
           b(d) == [m EXCEPT !.digest = d]
<1>1. m \in MemberRecords /\ n \in Nat /\ n \in 1 .. n /\ DOMAIN members = 1 .. n
    OBVIOUS
<1>2. \A c : Same(WithChunk(m, c))
    BY <1>1 DEF WithChunk, MemberRecords
<1>3. \A d : Same(b(d)) /\ \A c : Same(WithChunk(b(d), c))
    BY <1>1 DEF WithChunk, MemberRecords
<1>4. \E a : members' = [members EXCEPT ![n] = a] /\ Same(a)
    <2> HIDE DEF Same, b
    <2>1. CASE PushFullChunk
        <3>1. PICK c : members' = [members EXCEPT ![n] = WithChunk(m, c)]
            BY <2>1, <1>1 DEF PushFullChunk
        <3> QED
            BY <3>1, <1>2
    <2>2. CASE FinishLarge
        <3>1. PICK d : PushRemainder(b(d))
            BY <2>2 DEF FinishLarge, b
        <3>2. \/ members' = [members EXCEPT ![n] = b(d)]
              \/ \E c : members' = [members EXCEPT ![n] = WithChunk(b(d), c)]
            BY <3>1 DEF PushRemainder
        <3> QED
            BY <3>2, <1>3
    <2> QED
        BY <2>1, <2>2
<1>5. PICK a : members' = [members EXCEPT ![n] = a] /\ Same(a)
    BY <1>4
<1>6. Len(members') = n
    <2>1. DOMAIN members' = 1 .. n
        BY <1>1, <1>5
    <2>2. Len(members) = n
        OBVIOUS
    <2> QED
        BY <2>1, <1>1, <1>5
<1>7. members'[n] = a /\ \A i \in 1 .. n : i # n => members'[i] = members[i]
    BY <1>1, <1>5
<1>8. Same(a)
    BY <1>5
<1> QED
    BY <1>1, <1>6, <1>7, <1>8 DEF SamePlaces

LEMMA PlacedNext ==
    TypeInv /\ MemberInv /\ Placed(members) /\ [Next]_vars => Placed(members')
<1> SUFFICES ASSUME TypeInv, MemberInv, Placed(members), [Next]_vars
             PROVE  Placed(members')
    OBVIOUS
<1>1. members \in Seq(MemberRecords) /\ TypeOK /\ Layout
    BY DEF TypeInv, TypeOK
<1>2. members' \in Seq(MemberRecords)
    BY TypeNext DEF TypeInv, TypeOK
<1>3. ASSUME NEW h \in Headers, pc = "parse", NEW digest \in SUBSET Int
      PROVE  /\ Placed(WithMember(h, digest))
             /\ WithMember(h, digest) \in Seq(MemberRecords)
    BY <1>1, <1>3, MemberPlaced, WithMemberType
<1>4. CASE JoinGroup
    <2>1. PICK h \in Headers : pc = "parse" /\ members' = WithMember(h, GroupDigest(h))
        BY <1>4 DEF JoinGroup, SmallMember, ParseMember
    <2> QED
        BY <1>3, <2>1, GroupDigestType
<1>5. CASE JoinAndFlush
    <2>1. PICK h \in Headers :
            /\ pc = "parse"
            /\ Flush(WithMember(h, GroupDigest(h)),
                     Append(group, GroupEntry(h, groupSize)),
                     groupSize + RegionSize(h))
        BY <1>5 DEF JoinAndFlush, SmallMember, ParseMember
    <2>2. /\ Placed(WithMember(h, GroupDigest(h)))
          /\ WithMember(h, GroupDigest(h)) \in Seq(MemberRecords)
        BY <1>3, <2>1, GroupDigestType
    <2> QED
        BY <1>2, <2>1, <2>2, FlushPlaces, PlacesKept
<1>6. CASE FlushThenJoin
    <2>1. PICK h \in Headers :
            /\ pc = "parse"
            /\ Flush(WithMember(h, GroupDigest(h)), group, groupSize)
        BY <1>6 DEF FlushThenJoin, SmallMember, ParseMember
    <2>2. /\ Placed(WithMember(h, GroupDigest(h)))
          /\ WithMember(h, GroupDigest(h)) \in Seq(MemberRecords)
        BY <1>3, <2>1, GroupDigestType
    <2> QED
        BY <1>2, <2>1, <2>2, FlushPlaces, PlacesKept
<1>7. CASE BeginLarge
    <2>1. PICK h \in Headers : pc = "parse" /\ FlushGroup(WithMember(h, NoDigest))
        BY <1>7 DEF BeginLarge, ParseMember
    <2>2. NoDigest \in SUBSET Int
        BY DEF NoDigest
    <2>3. /\ Placed(WithMember(h, NoDigest))
          /\ WithMember(h, NoDigest) \in Seq(MemberRecords)
        BY <1>3, <2>1, <2>2
    <2> QED
        BY <1>2, <2>1, <2>3, FlushGroupPlaces, PlacesKept
<1>8. CASE FlushLast
    <2>1. FlushGroup(members)
        BY <1>8 DEF FlushLast
    <2> QED
        BY <1>1, <1>2, <2>1, FlushGroupPlaces, PlacesKept
<1>9. CASE PushFullChunk \/ FinishLarge
    <2>1. members # <<>>
        BY <1>1, <1>9 DEF PushFullChunk, FinishLarge, Layout
    <2> QED
        BY <1>1, <1>2, <1>9, <2>1, LastPlaces, PlacesKept
<1>10. CASE UNCHANGED members
    BY <1>10
<1> QED
    BY <1>4, <1>5, <1>6, <1>7, <1>8, <1>9, <1>10
    DEF Next, Progress, ParseGlobal, ReadData, CapturePadding, ParseEnd,
        DrainTrailing, WriteTrailer, WriteToc, EntryRefused, StreamEnds,
        MarkerMissing, TocTooLarge, IoFails, GiveUp, Stopped, vars
-----------------------------------------------------------------------------
(* The steps of the reader. *)

(* The sum over a finite set of frames is a number. *)
LEMMA TotalType ==
    ASSUME NEW S, IsFiniteSet(S), \A r \in S : r[2] \in Nat
    PROVE  TotalSize(S) \in Nat
<1> DEFINE n == Cardinality(S)
<1>1. n \in Nat /\ ExistsBijection(1 .. n, S)
    BY FS_CardinalityType
<1> HIDE DEF n
<1>2. PICK P \in [1 .. n -> S] :
        /\ \A i, j \in 1 .. n : P[i] = P[j] => i = j
        /\ \A r \in S : \E i \in 1 .. n : P[i] = r
    <2>1. PICK P : P \in Bijection(1 .. n, S)
        BY <1>1 DEF ExistsBijection
    <2>2. P \in [1 .. n -> S]
        BY <2>1 DEF Bijection, Injection
    <2>3. \A i, j \in 1 .. n : P[i] = P[j] => i = j
        BY <2>1 DEF Bijection, Injection, IsInjective
    <2>4. \A r \in S : \E i \in 1 .. n : P[i] = r
        BY <2>1 DEF Bijection, Surjection
    <2> QED
        BY <2>2, <2>3, <2>4
<1>3. {P[i] : i \in 1 .. n} = S
    BY <1>2
<1>4. \A i \in 1 .. n : P[i][2] \in Nat
    BY <1>2
<1> DEFINE f == [i \in 1 .. n |-> P[i][2]]
<1>5. Counts(f, n)
    BY <1>4 DEF Counts
<1>6. TotalSize(S) = SumOf(f, n)
    BY <1>1, <1>2, <1>3, <1>4, TotalIs
<1> HIDE DEF f
<1> QED
    BY <1>1, <1>5, <1>6, SumType

(* What info prints is made of numbers. *)
LEMMA InfoType ==
    ASSUME toc \in Seq(MemberRecords)
    PROVE  /\ IsFiniteSet(InfoFrames)
           /\ Cardinality(InfoFrames) \in Nat /\ TotalSize(InfoFrames) \in Nat
<1> DEFINE Places(i) == {i} \X (DOMAIN toc[i].chunks)
           All == {Places(i) : i \in DOMAIN toc}
           f == [i \in DOMAIN toc |-> Places(i)]
<1>1. ASSUME NEW i \in DOMAIN toc PROVE toc[i].chunks \in Seq(ChunkRecords)
    <2>1. toc[i] \in MemberRecords
        OBVIOUS
    <2> QED
        BY <2>1 DEF MemberRecords
<1>2. ASSUME NEW i \in DOMAIN toc PROVE IsFiniteSet(Places(i))
    <2> DEFINE n == Len(toc[i].chunks)
    <2>1. n \in Nat /\ DOMAIN toc[i].chunks = 1 .. n
        BY <1>1
    <2> HIDE DEF n
    <2>2. IsFiniteSet(1 .. n)
        BY <2>1, FS_Interval
    <2>3. IsFiniteSet({i})
        BY FS_Singleton
    <2> QED
        BY <2>1, <2>2, <2>3, FS_Product
<1>3. IsFiniteSet(All)
    <2>1. IsFiniteSet(DOMAIN toc)
        <3>1. Len(toc) \in Nat /\ DOMAIN toc = 1 .. Len(toc)
            OBVIOUS
        <3> QED
            BY <3>1, FS_Interval
    <2> HIDE DEF Places
    <2>2. f \in Surjection(DOMAIN toc, All)
        BY DEF Surjection
    <2> QED
        BY <2>1, <2>2, FS_Surjection
<1>4. IsFiniteSet(ChunkPlaces)
    <2>1. ChunkPlaces = UNION All
        BY DEF ChunkPlaces
    <2>2. \A T \in All : IsFiniteSet(T)
        BY <1>2
    <2> HIDE DEF All
    <2> QED
        BY <1>3, <2>1, <2>2, FS_UNION
<1>5. IsFiniteSet(FirstPlaces)
    BY <1>4, FS_Subset DEF FirstPlaces
<1> DEFINE g == [p \in FirstPlaces |-> <<ChunkIn(p).compressedOffset,
                                         ChunkIn(p).compressedSize>>]
<1>6. IsFiniteSet(InfoFrames)
    <2>1. g \in Surjection(FirstPlaces, InfoFrames)
        BY DEF Surjection, InfoFrames
    <2> QED
        BY <1>5, <2>1, FS_Surjection
<1>7. ASSUME NEW p \in FirstPlaces PROVE ChunkIn(p).compressedSize \in Nat
    <2>1. PICK i \in DOMAIN toc : p \in Places(i)
        BY DEF FirstPlaces, ChunkPlaces
    <2>2. p[1] = i /\ p[2] \in DOMAIN toc[i].chunks
        BY <2>1
    <2>3. ChunkIn(p) \in ChunkRecords
        BY <1>1, <2>2 DEF ChunkIn
    <2> QED
        BY <2>3 DEF ChunkRecords
<1>8. \A r \in InfoFrames : r[2] \in Nat
    BY <1>7 DEF InfoFrames
<1> QED
    BY <1>6, <1>8, FS_CardinalityType, TotalType

(* What follows from Tiled for frames that are not neighbours. *)
LEMMA FramesApart ==
    ASSUME frames \in Seq(FrameRecords), Tiled, NEW f \in DOMAIN frames,
           NEW g \in DOMAIN frames, f < g
    PROVE  frames[f].end <= frames[g].start
<1> DEFINE T == {j \in DOMAIN frames : f < j /\ ~(frames[f].end <= frames[j].start)}
<1>1. SUFFICES ASSUME T # {} PROVE FALSE
    BY <1>1
<1>2. T \subseteq Nat
    OBVIOUS
<1> HIDE DEF T
<1>3. PICK x \in T : \A y \in T : ~(<<y, x>> \in OpToRel(<, Nat))
    BY <1>1, <1>2, WFMin, NatLessThanWellFounded, Zenon
<1>4. /\ x \in DOMAIN frames /\ f < x /\ ~(frames[f].end <= frames[x].start)
      /\ x \in Nat /\ f \in Nat /\ f >= 1
    <2>1. x \in DOMAIN frames /\ f < x /\ ~(frames[f].end <= frames[x].start)
        BY <1>3 DEF T
    <2> QED
        BY <2>1
<1>5. x - 1 \in DOMAIN frames /\ x - 1 \in Nat /\ x - 1 < x /\ x # 1
    BY <1>4
<1>6. frames[x].start = frames[x - 1].end
    BY <1>4, <1>5 DEF Tiled
<1>7. /\ frames[f].end \in Nat /\ frames[x - 1].end \in Nat
      /\ frames[x - 1].start \in Nat /\ frames[x - 1].start < frames[x - 1].end
    <2>1. frames[f] \in FrameRecords /\ frames[x - 1] \in FrameRecords
        BY <1>4, <1>5
    <2> QED
        BY <1>5, <2>1 DEF Tiled, FrameRecords
<1>8. CASE x - 1 = f
    BY <1>4, <1>6, <1>7, <1>8
<1>9. CASE x - 1 # f
    <2>1. f < x - 1
        BY <1>4, <1>5, <1>9
    <2>2. x - 1 \notin T
        BY <1>3, <1>4, <1>5 DEF OpToRel
    <2>3. frames[f].end <= frames[x - 1].start
        BY <1>5, <2>1, <2>2 DEF T
    <2> QED
        BY <1>4, <1>6, <1>7, <2>3
<1> QED
    BY <1>8, <1>9

(* No offset of the tar stream is beyond a u64. *)
LEMMA OffsetsFit ==
    ASSUME TocInv, pc = "done", inputLen \in InputLens
    PROVE  /\ \A f \in DOMAIN frames : frames[f].end < Word
           /\ \A i \in DOMAIN members : members[i].entryEnd < Word
           /\ Before(members, Len(members) + 1) < Word
<1>1. /\ TypeOK /\ Layout /\ OutputInv /\ MemberInv
    BY DEF TocInv, TypeInv
<1>2. /\ frames \in Seq(FrameRecords) /\ Tiled /\ members \in Seq(MemberRecords)
      /\ Regions(members)
    BY Complete
<1>3. inputLen \in Nat /\ inputLen < Word /\ Word \in Nat
    BY <1>1, WordAssumption DEF TypeOK
<1>4. RawEnd = inputLen
    BY <1>1 DEF OutputInv, FramesTileTar
<1>5. ASSUME NEW f \in DOMAIN frames PROVE frames[f].end < Word
    <2> DEFINE n == Len(frames)
    <2>1. n \in Nat /\ n \in DOMAIN frames /\ f \in Nat /\ f <= n /\ frames # <<>>
        BY <1>2
    <2>2. frames[f] \in FrameRecords /\ frames[n] \in FrameRecords
        BY <1>2, <2>1
    <2>3. /\ frames[f].end \in Nat /\ frames[n].start \in Nat /\ frames[n].end \in Nat
          /\ frames[n].start < frames[n].end
        BY <1>2, <2>1, <2>2 DEF FrameRecords, Tiled
    <2>4. frames[n].end = inputLen
        BY <1>4, <2>1 DEF RawEnd
    <2>5. f < n => frames[f].end <= frames[n].start
        BY <1>2, <2>1, FramesApart
    <2> HIDE DEF n
    <2> QED
        BY <1>3, <2>1, <2>3, <2>4, <2>5
<1>6. /\ Before(members, Len(members) + 1) \in Nat
      /\ Before(members, Len(members) + 1) < Word
    <2>1. /\ Before(members, Len(members) + 1) = prevEnd
          /\ parseStart + 2 * Block <= inputLen
        BY <1>1 DEF MemberInv, EndInv
    <2>2. prevEnd \in Nat /\ parseStart \in Nat /\ prevEnd <= parseStart
        BY <1>1 DEF TypeOK, Layout
    <2> QED
        BY <1>3, <2>1, <2>2, BlockAssumption
<1>7. ASSUME NEW i \in DOMAIN members PROVE members[i].entryEnd < Word
    <2>1. members[i] \in MemberRecords
        BY <1>2
    <2>2. members[i].entryEnd \in Nat
        BY <2>1 DEF MemberRecords
    <2>3. members[i].entryEnd <= Before(members, Len(members) + 1)
        BY <1>2 DEF Regions
    <2> QED
        BY <1>3, <1>6, <2>2, <2>3
<1> QED
    BY <1>5, <1>6, <1>7

(* The sums of extract_by_index fit when the TOC is the writer's. *)
LEMMA NoOverflow ==
    ASSUME TocInv, pc = "done", Placed(members), inputLen \in InputLens, toc = members,
           NEW i \in DOMAIN toc, Extractable(i)
    PROVE  ~Overflows(i)
<1> DEFINE m == members[i]
<1>1. /\ members \in Seq(MemberRecords) /\ i \in DOMAIN members
      /\ i \in 1 .. Len(members) + 1
    BY Complete
<1>2. ChunkTarStart(i) = Before(members, i) /\ Before(members, i) \in Nat
    BY <1>1, ChunkStart
<1>3. m \in MemberRecords /\ m.kind = "File"
    BY <1>1 DEF Extractable
<1>4. /\ m.tarOffset \in Nat /\ m.size \in Nat /\ m.dataStart \in Nat
      /\ m.entryEnd \in Nat
    BY <1>3 DEF MemberRecords
<1>5. /\ Before(members, i) <= m.tarOffset /\ m.dataStart = m.tarOffset + Block
      /\ m.dataStart + m.size <= m.entryEnd
    BY <1>1, <1>3 DEF Placed
<1>6. m.entryEnd < Word
    BY <1>1, OffsetsFit
<1>7. toc[i].tarOffset = m.tarOffset
    OBVIOUS
<1> HIDE DEF m
<1> QED
    BY <1>2, <1>4, <1>5, <1>6, <1>7, BlockAssumption, WordAssumption DEF Overflows

(* What an operation may rely on. *)
LEMMA Known ==
    ASSUME ArchiveInv, rpc \in {"idle", "chunk", "verify"}
    PROVE  /\ TocInv /\ Placed(members) /\ inputLen \in InputLens
           /\ pc = "done" /\ toc \in LoadedTocs
           /\ toc \in Seq(MemberRecords) /\ Len(toc) \in Nat
           /\ DOMAIN toc = 1 .. Len(toc)
           /\ frames \in Seq(FrameRecords)
           /\ outcome = "none" /\ ReaderTypeOK /\ Opened /\ Begun
<1>1. /\ TocInv /\ Placed(members) /\ inputLen \in InputLens
      /\ pc = "done" /\ toc \in LoadedTocs
      /\ outcome = "none" /\ ReaderTypeOK /\ Opened /\ Begun
    BY DEF ArchiveInv, Session, Opened, Begun
<1>2. toc \in Seq(MemberRecords)
    BY <1>1 DEF ReaderTypeOK
<1>3. frames \in Seq(FrameRecords)
    BY <1>1, Complete
<1> QED
    BY <1>1, <1>2, <1>3

(* An undamaged TOC is read as it was written. *)
LEMMA TocTrue ==
    ASSUME ArchiveInv, rpc \in {"idle", "chunk", "verify"}, Hit("toc") = {}
    PROVE  toc = members
<1>1. TocInv /\ pc = "done" /\ toc \in LoadedTocs
    BY Known
<1>2. <<"toc", "payload">> \notin damage
    BY DEF Hit, Fields
<1> QED
    BY <1>1, <1>2, LoadedFacts

(* extract_by_index begins at a u64, and in the writer's TOC at the content. *)
LEMMA Located ==
    ASSUME TocInv, pc = "done", Placed(members), inputLen \in InputLens,
           toc \in Seq(MemberRecords), NEW i \in DOMAIN toc, Locate(i)
    PROVE  /\ skip' \in Nat /\ remaining' \in Nat
           /\ toc = members => skip' = toc[i].tarOffset + Block - Before(members, i)
<1>1. /\ toc[i].tarOffset \in Nat /\ toc[i].size \in Nat
    <2>1. toc[i] \in MemberRecords
        OBVIOUS
    <2> QED
        BY <2>1 DEF MemberRecords
<1>2. i \in 1 .. Len(toc) + 1
    OBVIOUS
<1>3. ChunkTarStart(i) \in Nat
    BY <1>2, ChunkStartType
<1>4. /\ skip' = (toc[i].tarOffset - ChunkTarStart(i) + Block) % Word
      /\ remaining' = toc[i].size
    BY DEF Locate
<1>5. Word \in Nat /\ Word > 0 /\ Block \in Nat
    BY WordAssumption, BlockAssumption
<1>6. skip' \in Nat
    BY <1>1, <1>3, <1>4, <1>5
<1>7. ASSUME toc = members PROVE skip' = toc[i].tarOffset + Block - Before(members, i)
    <2>1. ~Overflows(i)
        BY <1>7, NoOverflow DEF Locate
    <2>2. ChunkTarStart(i) = Before(members, i)
        BY <1>2, <1>7, ChunkStart
    <2>3. /\ toc[i].tarOffset >= ChunkTarStart(i)
          /\ toc[i].tarOffset - ChunkTarStart(i) + Block < Word
        BY <1>1, <1>3, <1>5, <2>1 DEF Overflows
    <2> DEFINE d == toc[i].tarOffset - ChunkTarStart(i) + Block
    <2>4. d \in Nat /\ d < Word
        BY <1>1, <1>3, <1>5, <2>3
    <2> HIDE DEF d
    <2>5. d % Word = d
        BY <1>5, <2>4
    <2>6. skip' = d
        BY <1>4, <2>5 DEF d
    <2> QED
        BY <1>1, <1>3, <1>5, <2>2, <2>6 DEF d
<1> QED
    BY <1>1, <1>4, <1>6, <1>7

(* The sums that info prints fit as well, and so do the offsets inside the
   frames: without damage to the TOC nothing overflows. *)
LEMMA PanicExplained ==
    ASSUME ArchiveInv,
           ExtractPanics \/ VerifyPanics \/ ChunkPanics \/ InfoPanics
    PROVE  Hit("toc") # {}
<1>1. rpc \in {"idle", "chunk", "verify"}
    BY DEF ExtractPanics, VerifyPanics, ChunkPanics, InfoPanics, AtMember, InLoop
<1>2. /\ TocInv /\ Placed(members) /\ inputLen \in InputLens
      /\ pc = "done" /\ toc \in Seq(MemberRecords)
      /\ Len(toc) \in Nat /\ DOMAIN toc = 1 .. Len(toc) /\ ReaderTypeOK /\ Begun
      /\ frames \in Seq(FrameRecords)
    BY <1>1, Known
<1> SUFFICES ASSUME Hit("toc") = {} PROVE FALSE
    OBVIOUS
<1>3. toc = members
    BY <1>1, TocTrue
<1>4. CASE ExtractPanics
    BY <1>2, <1>3, <1>4, NoOverflow DEF ExtractPanics
<1>5. CASE VerifyPanics
    <2>1. /\ rpc = "verify" /\ idx <= until /\ Extractable(idx) /\ Overflows(idx)
        BY <1>5 DEF VerifyPanics, AtMember
    <2>2. idx \in DOMAIN toc
        BY <1>2, <2>1 DEF Begun, ReaderTypeOK
    <2> QED
        BY <1>2, <1>3, <2>1, <2>2, NoOverflow
<1>6. CASE InfoPanics
    <2>1. ChunkTarStart(Len(toc) + 1) >= Word
        BY <1>6 DEF InfoPanics
    <2>2. Len(members) + 1 \in 1 .. Len(members) + 1
        BY <1>2, <1>3
    <2>3. /\ ChunkTarStart(Len(toc) + 1) = Before(members, Len(members) + 1)
          /\ Before(members, Len(members) + 1) \in Nat
        BY <1>2, <1>3, <2>2, ChunkStart
    <2>4. Before(members, Len(members) + 1) < Word
        BY <1>2, OffsetsFit
    <2> QED
        BY <2>1, <2>3, <2>4, WordAssumption
<1>7. CASE ChunkPanics
    <2> DEFINE c == members[idx].chunks[k]
    <2>1. /\ rpc = "chunk" /\ k <= Len(members[idx].chunks) /\ CurrentChunk = c
          /\ skip < CurrentChunk.uncompressedSize
          /\ CurrentChunk.frameOffset + skip >= Word
        BY <1>3, <1>7 DEF ChunkPanics, InLoop, CurrentChunk
    <2>2. idx \in DOMAIN members /\ k >= 1 /\ k \in Nat /\ skip \in Nat
        BY <1>2, <1>3, <2>1 DEF Begun, ReaderTypeOK
    <2>3. /\ members[idx].chunks \in Seq(ChunkRecords)
          /\ Len(members[idx].chunks) \in Nat
          /\ \A j \in 1 .. Len(members[idx].chunks) :
                \E f \in DOMAIN frames : Leads(frames, members[idx].chunks[j], f)
        BY <1>2, <2>2, MemberChunks
    <2>4. k \in 1 .. Len(members[idx].chunks)
        BY <2>1, <2>2, <2>3
    <2>5. c \in ChunkRecords /\ \E f \in DOMAIN frames : Leads(frames, c, f)
        BY <2>3, <2>4
    <2> HIDE DEF c
    <2>6. PICK f \in DOMAIN frames : Leads(frames, c, f)
        BY <2>5
    <2>7. frames[f].start + c.frameOffset + c.uncompressedSize <= frames[f].end
        BY <2>6 DEF Leads
    <2>8. frames[f].start \in Nat /\ frames[f].end \in Nat /\ frames[f].end < Word
        <3>1. frames[f] \in FrameRecords
            BY <1>2
        <3> QED
            BY <1>2, <3>1, OffsetsFit DEF FrameRecords
    <2>9. c.frameOffset \in Nat /\ c.uncompressedSize \in Nat
        BY <2>5 DEF ChunkRecords
    <2> DEFINE o == c.frameOffset
               u == c.uncompressedSize
               start == frames[f].start
               end == frames[f].end
    <2>10. /\ o \in Nat /\ u \in Nat /\ start \in Nat /\ end \in Nat
           /\ start + o + u <= end /\ end < Word /\ skip < u /\ o + skip >= Word
        BY <2>1, <2>7, <2>8, <2>9
    <2> HIDE DEF o, u, start, end
    <2> QED
        BY <2>2, <2>10, WordAssumption
<1> QED
    BY <1>4, <1>5, <1>6, <1>7

(* Neither the archive nor its TOC changes during an operation. *)
LEMMA ArchiveSame ==
    ASSUME UNCHANGED <<vars, damage, badFrames>>
    PROVE  /\ IdentityReads' <=> IdentityReads
           /\ FooterReads' <=> FooterReads
           /\ TocReads' <=> TocReads
           /\ HashMatches' <=> HashMatches
           /\ LoadedTocs' = LoadedTocs
           /\ pc' = pc /\ footer' = footer /\ damage' = damage
           /\ badFrames' = badFrames /\ frames' = frames /\ members' = members
BY DEF vars, IdentityReads, FooterReads, TocReads, HashMatches, LoadedTocs, Hit

LEMMA HitSame ==
    ASSUME UNCHANGED damage
    PROVE  Hit("toc")' = Hit("toc")
BY DEF Hit

LEMMA OpenedStays ==
    ASSUME Opened, rpc \in {"idle", "chunk", "verify"},
           rpc' \in {"chunk", "verify", "ended"},
           UNCHANGED <<vars, damage, badFrames, toc>>
    PROVE  Opened'
<1>1. /\ IdentityReads' <=> IdentityReads
      /\ FooterReads' <=> FooterReads
      /\ TocReads' <=> TocReads
      /\ LoadedTocs' = LoadedTocs /\ pc' = pc /\ toc' = toc
    BY ArchiveSame
<1>2. pc = "done" /\ toc \in LoadedTocs /\ IdentityReads /\ FooterReads /\ TocReads
    BY DEF Opened
<1> QED
    BY <1>1, <1>2 DEF Opened
-----------------------------------------------------------------------------
(* ArchiveInv over the steps of the writer and of the reader. *)

(* The input is what it is. *)
LEMMA InputSame == [Next]_vars => UNCHANGED inputLen
<1> SUFFICES ASSUME [Next]_vars PROVE UNCHANGED inputLen
    OBVIOUS
<1> USE DEF inVars
<1>1. CASE ParseGlobal
    BY <1>1 DEF ParseGlobal
<1>2. CASE JoinGroup \/ JoinAndFlush \/ FlushThenJoin
    BY <1>2 DEF JoinGroup, JoinAndFlush, FlushThenJoin, SmallMember, ParseMember
<1>3. CASE BeginLarge \/ PushFullChunk \/ ReadData \/ CapturePadding \/ FinishLarge
    BY <1>3 DEF BeginLarge, ParseMember, PushFullChunk, ReadData, CapturePadding, FinishLarge
<1>4. CASE ParseEnd \/ DrainTrailing \/ FlushLast \/ WriteTrailer \/ WriteToc
    BY <1>4 DEF ParseEnd, DrainTrailing, FlushLast, WriteTrailer, WriteToc
<1>5. CASE EntryRefused \/ StreamEnds \/ MarkerMissing \/ TocTooLarge \/ IoFails
    BY <1>5 DEF EntryRefused, StreamEnds, MarkerMissing, TocTooLarge, IoFails, GiveUp
<1>6. CASE UNCHANGED vars
    BY <1>6 DEF vars
<1> QED
    BY <1>1, <1>2, <1>3, <1>4, <1>5, <1>6 DEF Next, Progress, Stopped

LEMMA TocNext == TocInv /\ [Next]_vars => TocInv'
BY TypeNext, OutputNext, FooterNext, MemberNext DEF TocInv

LEMMA ArchiveStart == ArchiveInit => ArchiveInv
<1> SUFFICES ASSUME ArchiveInit PROVE ArchiveInv
    OBVIOUS
<1>1. TocInv
    BY WriterInit, MemberInit DEF ArchiveInit, TocInv, WriterInv
<1>2. Placed(members) /\ inputLen \in InputLens
    BY DEF ArchiveInit, Init, Placed
<1>3. ReaderTypeOK
    <2>1. toc \in Seq(MemberRecords) /\ toc = <<>>
        BY DEF ArchiveInit, ReaderInit
    <2>2. out \in Seq(Nat \cup {WrongByte})
        BY DEF ArchiveInit, ReaderInit
    <2>3. verdicts \in Seq({"ok", "mismatch", "none"})
        BY DEF ArchiveInit, ReaderInit
    <2> QED
        BY <2>1, <2>2, <2>3 DEF ArchiveInit, ReaderInit, ReaderTypeOK
<1>4. Session
    BY DEF ArchiveInit, ReaderInit, Session, Opened, Begun
<1> QED
    BY <1>1, <1>2, <1>3, <1>4 DEF ArchiveInv

(* Once the archive is complete the writer has stopped. *)
LEMMA WriterStops ==
    ASSUME pc = "done", Next
    PROVE  UNCHANGED vars
<1>1. ~Progress
    BY DEF Progress, ParseGlobal, JoinGroup, JoinAndFlush, FlushThenJoin, SmallMember,
           ParseMember, BeginLarge, PushFullChunk, ReadData, CapturePadding,
           FinishLarge, ParseEnd, DrainTrailing, FlushLast, WriteTrailer, WriteToc,
           EntryRefused, StreamEnds, MarkerMissing, TocTooLarge
<1>2. ~IoFails
    BY DEF IoFails
<1> QED
    BY <1>1, <1>2 DEF Next, Stopped

LEMMA ArchiveIdle ==
    ASSUME ArchiveInv, UNCHANGED allVars
    PROVE  ArchiveInv'
<1>1. UNCHANGED vars /\ UNCHANGED readVars
    BY DEF allVars
<1>2. TocInv'
    BY <1>1, TocNext DEF ArchiveInv
<1>3. Placed(members') /\ inputLen' \in InputLens
    BY <1>1 DEF ArchiveInv, vars
<1>4. ReaderTypeOK'
    BY <1>1, HitSame DEF ArchiveInv, ReaderTypeOK, vars, readVars
<1>5. Session'
    <2>1. /\ IdentityReads' <=> IdentityReads
          /\ FooterReads' <=> FooterReads
          /\ TocReads' <=> TocReads
          /\ HashMatches' <=> HashMatches
          /\ LoadedTocs' = LoadedTocs /\ pc' = pc /\ footer' = footer
        BY <1>1, ArchiveSame DEF readVars
    <2>2. Opened'
        BY <1>1, <2>1 DEF ArchiveInv, Session, Opened, readVars
    <2>3. Begun'
        BY <1>1, <2>1 DEF ArchiveInv, Session, Begun, Extractable, readVars
    <2> QED
        BY <2>2, <2>3 DEF Session
<1> QED
    BY <1>2, <1>3, <1>4, <1>5 DEF ArchiveInv

LEMMA WriterStep ==
    ASSUME ArchiveInv, Next, UNCHANGED readVars
    PROVE  ArchiveInv'
<1>1. CASE rpc # "closed"
    <2>1. pc = "done"
        BY <1>1 DEF ArchiveInv, Session, Opened
    <2> QED
        BY <2>1, WriterStops, ArchiveIdle DEF allVars
<1>2. CASE rpc = "closed"
    <2>1. TocInv'
        BY TocNext DEF ArchiveInv
    <2>2. Placed(members') /\ inputLen' \in InputLens
        BY PlacedNext, InputSame DEF ArchiveInv, TocInv
    <2>3. damage = {} /\ badFrames = {} /\ rpc' = "closed" /\ outcome = "none"
          /\ op = "none" /\ verdicts = <<>>
        BY <1>2 DEF ArchiveInv, Session, Opened, Begun, readVars
    <2>4. ReaderTypeOK'
        BY <2>3 DEF ArchiveInv, ReaderTypeOK, readVars
    <2>5. Opened' /\ Begun'
        BY <2>3 DEF Opened, Begun, readVars
    <2> QED
        BY <2>1, <2>2, <2>4, <2>5 DEF ArchiveInv, Session
<1> QED
    BY <1>1, <1>2

(* Damage and opening. *)
LEMMA DamageStep ==
    ASSUME ArchiveInv, Damage, UNCHANGED vars
    PROVE  ReaderTypeOK' /\ Session'
<1>1. /\ rpc' = "stored" /\ pc' = "done" /\ frames' = frames
      /\ damage' \in MetaDamages /\ badFrames' \subseteq DOMAIN frames
      /\ outcome' = outcome /\ op' = op /\ verdicts' = verdicts
      /\ UNCHANGED <<toc, idx, until, k, skip, remaining, out>>
      /\ rpc = "closed"
    BY DEF Damage, vars
<1>2. damage' \subseteq DamageKinds
    BY <1>1, DamageAssumption
<1>3. ReaderTypeOK'
    <2>1. outcome' = "none" /\ ReaderTypeOK
        BY <1>1 DEF ArchiveInv, Session, Begun
    <2> QED
        BY <1>1, <1>2, <2>1 DEF ReaderTypeOK
<1>4. Opened'
    BY <1>1 DEF Opened
<1>5. Begun'
    BY <1>1 DEF ArchiveInv, Session, Begun
<1> QED
    BY <1>3, <1>4, <1>5 DEF Session

LEMMA OpenStep ==
    ASSUME ArchiveInv, OpenArchive, UNCHANGED vars
    PROVE  ReaderTypeOK' /\ Session'
<1>1. /\ rpc = "stored" /\ rpc' = "idle" /\ toc' \in LoadedTocs
      /\ IdentityReads /\ FooterReads /\ TocReads
      /\ UNCHANGED <<damage, badFrames, op, idx, until, k, skip, remaining, out,
                     verdicts, outcome>>
    BY DEF OpenArchive
<1>2. pc = "done" /\ TocInv
    BY <1>1 DEF ArchiveInv, Session, Opened
<1>3. toc' \in Seq(MemberRecords)
    BY <1>1, <1>2, LoadedFacts
<1>4. ReaderTypeOK'
    <2>1. outcome' = "none" /\ ReaderTypeOK
        BY <1>1 DEF ArchiveInv, Session, Begun
    <2> QED
        BY <1>1, <1>3, <2>1 DEF ReaderTypeOK, vars
<1>5. /\ IdentityReads' /\ FooterReads' /\ TocReads'
      /\ LoadedTocs' = LoadedTocs /\ pc' = "done"
    BY <1>1, <1>2, ArchiveSame
<1>6. Opened'
    BY <1>1, <1>5 DEF Opened
<1>7. Begun'
    BY <1>1 DEF ArchiveInv, Session, Begun
<1> QED
    BY <1>4, <1>6, <1>7 DEF Session

(* from_seekable refuses an undamaged archive for the size of its TOC only. *)
LEMMA RefuseStep ==
    ASSUME ArchiveInv, RefuseArchive, UNCHANGED vars
    PROVE  ReaderTypeOK' /\ Session'
<1>1. /\ rpc = "stored" /\ rpc' = "refused" /\ toc' \in LoadedTocs
      /\ UNCHANGED <<damage, badFrames, op, idx, until, k, skip, remaining, out,
                     verdicts, outcome>>
    BY DEF RefuseArchive
<1>2. pc = "done" /\ TocInv
    BY <1>1 DEF ArchiveInv, Session, Opened
<1>3. toc' \in Seq(MemberRecords)
    BY <1>1, <1>2, LoadedFacts
<1>4. ReaderTypeOK'
    <2>1. outcome' = "none" /\ ReaderTypeOK
        BY <1>1 DEF ArchiveInv, Session, Begun
    <2> QED
        BY <1>1, <1>3, <2>1 DEF ReaderTypeOK, vars
<1>5. LoadedTocs' = LoadedTocs /\ pc' = "done" /\ footer' = footer
    BY <1>1, <1>2, ArchiveSame
<1>6. ASSUME damage = {} PROVE footer.tocJson > MaxTocJson
    <2>1. \A x \in {"identity", "footer", "file", "toc"} : Hit(x) = {}
        BY <1>6 DEF Hit
    <2>2. IdentityReads /\ FooterReads
        BY <2>1 DEF IdentityReads, FooterReads
    <2>3. toc' = members
        BY <1>1, <1>2, <1>6, LoadedFacts
    <2>4. ValidChunkLayout
        BY <1>2, <2>3, LayoutAccepted
    <2>5. ~TocReads
        BY <1>6, <2>2, <2>4 DEF RefuseArchive
    <2>6. ~(footer.tocJson <= MaxTocJson)
        BY <2>1, <2>5 DEF TocReads
    <2>7. footer.tocJson \in Int
        BY <1>2, Complete
    <2> QED
        BY <2>6, <2>7, CapAssumption
<1>7. Opened'
    BY <1>1, <1>5, <1>6 DEF Opened
<1>8. Begun'
    BY <1>1 DEF ArchiveInv, Session, Begun
<1> QED
    BY <1>4, <1>7, <1>8 DEF Session

(* The types that no operation disturbs. *)
LEMMA TypeSame ==
    ASSUME ReaderTypeOK, UNCHANGED <<vars, damage, badFrames, toc>>,
           rpc' \in {"chunk", "verify", "ended"},
           op' \in {"none", "extract", "verifyAll", "verifyMember", "quick", "info"},
           idx' \in Nat, until' \in Nat, k' \in Nat, skip' \in Nat,
           remaining' \in Nat, out' \in Seq(Nat \cup {WrongByte}),
           verdicts' \in Seq({"ok", "mismatch", "none"}),
           outcome' \in {"none", "ok", "error", "panic"},
           outcome' = "panic" => Hit("toc") # {}
    PROVE  ReaderTypeOK'
BY HitSame DEF ReaderTypeOK, vars

LEMMA BeginSteps ==
    ASSUME ArchiveInv, UNCHANGED vars,
           \/ BeginExtract \/ DeclineMember \/ ExtractPanics
           \/ BeginVerify \/ QuickVerify \/ Info \/ InfoPanics
    PROVE  ReaderTypeOK' /\ Session'
<1>1. rpc = "idle" /\ UNCHANGED <<damage, badFrames, toc>>
    BY DEF BeginExtract, DeclineMember, ExtractPanics, BeginVerify, QuickVerify,
           Info, InfoPanics
<1>2. /\ TocInv /\ Placed(members) /\ inputLen \in InputLens
      /\ pc = "done" /\ toc \in LoadedTocs
      /\ toc \in Seq(MemberRecords) /\ Len(toc) \in Nat
      /\ DOMAIN toc = 1 .. Len(toc)
      /\ outcome = "none" /\ op = "none" /\ verdicts = <<>>
      /\ ReaderTypeOK /\ Opened
    BY <1>1, Known DEF Begun
<1>3. /\ idx \in Nat /\ until \in Nat /\ k \in Nat /\ skip \in Nat
      /\ remaining \in Nat /\ out \in Seq(Nat \cup {WrongByte})
      /\ verdicts \in Seq({"ok", "mismatch", "none"})
    BY <1>2 DEF ReaderTypeOK
<1>4. CASE BeginExtract
    <2>1. PICK i \in DOMAIN toc :
            /\ Locate(i) /\ op' = "extract" /\ idx' = i /\ until' = i
            /\ UNCHANGED <<verdicts, outcome>>
        BY <1>4 DEF BeginExtract
    <2>2. /\ Extractable(i) /\ k' = 1 /\ out' = <<>> /\ rpc' = "chunk"
        BY <2>1 DEF Locate
    <2>3. skip' \in Nat /\ remaining' \in Nat
        BY <1>2, <2>1, Located
    <2>4. out' \in Seq(Nat \cup {WrongByte}) /\ i \in Nat
        BY <1>2, <2>2
    <2>5. ReaderTypeOK'
        BY <1>1, <1>2, <1>3, <2>1, <2>2, <2>3, <2>4, TypeSame
    <2>6. Opened'
        BY <1>1, <1>2, <2>2, OpenedStays
    <2>7. Begun'
        BY <1>1, <1>2, <2>1, <2>2 DEF Begun, Extractable
    <2> QED
        BY <2>5, <2>6, <2>7 DEF Session
<1>5. CASE DeclineMember
    <2>1. PICK i \in DOMAIN toc :
            /\ op' = "extract" /\ idx' = i /\ until' = i
            /\ rpc' = "ended" /\ outcome' = "error"
            /\ UNCHANGED <<k, skip, remaining, out, verdicts>>
        BY <1>5 DEF DeclineMember, End
    <2>2. i \in Nat
        BY <1>2
    <2>3. ReaderTypeOK'
        BY <1>1, <1>2, <1>3, <2>1, <2>2, TypeSame
    <2>4. Opened'
        BY <1>1, <1>2, <2>1, OpenedStays
    <2>5. Begun'
        BY <2>1 DEF Begun
    <2> QED
        BY <2>3, <2>4, <2>5 DEF Session
<1>6. CASE BeginVerify
    <2>1. /\ rpc' = "verify" /\ op' \in {"verifyAll", "verifyMember"}
          /\ UNCHANGED <<k, skip, remaining, out, verdicts, outcome>>
        BY <1>6 DEF BeginVerify
    <2>2. idx' \in Nat /\ idx' >= 1 /\ until' \in Nat /\ until' <= Len(toc)
        <3>1. CASE idx' = 1 /\ until' = Len(toc)
            BY <1>2, <3>1
        <3>2. CASE \E i \in DOMAIN toc : idx' = i /\ until' = i
            BY <1>2, <3>2
        <3> QED
            BY <1>6, <3>1, <3>2 DEF BeginVerify
    <2>3. ReaderTypeOK'
        BY <1>1, <1>2, <1>3, <2>1, <2>2, TypeSame
    <2>4. Opened'
        BY <1>1, <1>2, <2>1, OpenedStays
    <2>5. Begun'
        BY <1>1, <1>2, <2>1, <2>2 DEF Begun
    <2> QED
        BY <2>3, <2>4, <2>5 DEF Session
<1>7. CASE QuickVerify
    <2>1. /\ op' = "quick" /\ rpc' = "ended"
          /\ outcome' = IF HashMatches THEN "ok" ELSE "error"
          /\ UNCHANGED <<idx, until, k, skip, remaining, out, verdicts>>
        BY <1>7 DEF QuickVerify, End
    <2>2. ReaderTypeOK'
        BY <1>1, <1>2, <1>3, <2>1, TypeSame
    <2>3. Opened'
        BY <1>1, <1>2, <2>1, OpenedStays
    <2>4. HashMatches' <=> HashMatches
        BY <1>1, ArchiveSame
    <2>5. Begun'
        BY <2>1, <2>4 DEF Begun
    <2> QED
        BY <2>2, <2>3, <2>5 DEF Session
<1>8. CASE Info
    <2>1. /\ op' = "info" /\ rpc' = "ended" /\ outcome' = "ok"
          /\ out' = <<Cardinality(InfoFrames), TotalSize(InfoFrames),
                       ChunkTarStart(Len(toc) + 1) % Word>>
          /\ UNCHANGED <<idx, until, k, skip, remaining, verdicts>>
        BY <1>8 DEF Info, End
    <2>2. Cardinality(InfoFrames) \in Nat /\ TotalSize(InfoFrames) \in Nat
        BY <1>2, InfoType
    <2>3. ChunkTarStart(Len(toc) + 1) % Word \in Nat
        <3>1. Len(toc) + 1 \in 1 .. Len(toc) + 1
            BY <1>2
        <3>2. ChunkTarStart(Len(toc) + 1) \in Nat
            BY <1>2, <3>1, ChunkStartType
        <3> QED
            BY <3>2, WordAssumption
    <2>4. out' \in Seq(Nat \cup {WrongByte})
        BY <2>1, <2>2, <2>3
    <2>5. ReaderTypeOK'
        BY <1>1, <1>2, <1>3, <2>1, <2>4, TypeSame
    <2>6. Opened'
        BY <1>1, <1>2, <2>1, OpenedStays
    <2>7. Begun'
        BY <2>1 DEF Begun
    <2> QED
        BY <2>5, <2>6, <2>7 DEF Session
<1>9. CASE ExtractPanics \/ InfoPanics
    <2>1. /\ rpc' = "ended" /\ outcome' = "panic" /\ op' \in {"extract", "info"}
          /\ idx' \in Nat /\ until' \in Nat
          /\ UNCHANGED <<k, skip, remaining, out, verdicts>>
        BY <1>2, <1>3, <1>9 DEF ExtractPanics, InfoPanics, End
    <2>2. Hit("toc") # {}
        BY <1>9, PanicExplained
    <2>3. ReaderTypeOK'
        BY <1>1, <1>2, <1>3, <2>1, <2>2, TypeSame
    <2>4. Opened'
        BY <1>1, <1>2, <2>1, OpenedStays
    <2>5. Begun'
        BY <2>1 DEF Begun
    <2> QED
        BY <2>3, <2>4, <2>5 DEF Session
<1> QED
    BY <1>4, <1>5, <1>6, <1>7, <1>8, <1>9

(* The loop over the chunks of a member. *)
LEMMA LoopSteps ==
    ASSUME ArchiveInv, UNCHANGED vars,
           \/ SkipChunk \/ CopyChunk \/ ChunkFails \/ ChunkPanics
           \/ FinishExtract \/ DataMissing
    PROVE  ReaderTypeOK' /\ Session'
<1>1. rpc = "chunk" /\ UNCHANGED <<damage, badFrames, toc, op, idx, until, verdicts>>
    BY DEF SkipChunk, CopyChunk, ChunkFails, ChunkPanics, FinishExtract, DataMissing,
           InLoop, LoopDone
<1>2. /\ toc \in Seq(MemberRecords) /\ frames \in Seq(FrameRecords)
      /\ outcome = "none" /\ ReaderTypeOK /\ Opened /\ Begun
    BY <1>1, Known
<1>3. /\ idx \in Nat /\ until \in Nat /\ k \in Nat /\ skip \in Nat
      /\ remaining \in Nat /\ out \in Seq(Nat \cup {WrongByte})
      /\ verdicts \in Seq({"ok", "mismatch", "none"})
      /\ op \in {"extract", "verifyAll", "verifyMember"}
      /\ idx \in DOMAIN toc /\ Extractable(idx) /\ k >= 1
    BY <1>1, <1>2 DEF ReaderTypeOK, Begun
<1>4. toc[idx].chunks \in Seq(ChunkRecords)
    <2>1. toc[idx] \in MemberRecords
        BY <1>2, <1>3
    <2> QED
        BY <2>1 DEF MemberRecords
<1>5. InLoop => /\ CurrentChunk \in ChunkRecords
                /\ CurrentChunk.uncompressedSize \in Nat
                /\ CurrentChunk.frameOffset \in Nat
    <2> SUFFICES ASSUME InLoop PROVE CurrentChunk \in ChunkRecords
        BY DEF ChunkRecords
    <2>1. k <= Len(toc[idx].chunks)
        BY DEF InLoop
    <2>2. k \in 1 .. Len(toc[idx].chunks)
        BY <1>3, <1>4, <2>1
    <2> QED
        BY <1>4, <2>2 DEF CurrentChunk
<1>6. ASSUME rpc' \in {"chunk", "ended"}, rpc' = "chunk" => outcome' = outcome,
             k' \in Nat, k' >= 1, skip' \in Nat, remaining' \in Nat,
             out' \in Seq(Nat \cup {WrongByte}),
             outcome' \in {"none", "ok", "error", "panic"},
             outcome' = "panic" => Hit("toc") # {}
      PROVE  ReaderTypeOK' /\ Session'
    <2>1. ReaderTypeOK'
        BY <1>1, <1>2, <1>3, <1>6, TypeSame
    <2>2. Opened'
        BY <1>1, <1>2, <1>6, OpenedStays
    <2>3. Begun'
        BY <1>1, <1>2, <1>3, <1>6 DEF Begun, Extractable
    <2> QED
        BY <2>1, <2>2, <2>3 DEF Session
<1>7. CASE SkipChunk
    <2>1. /\ InLoop /\ skip >= CurrentChunk.uncompressedSize
          /\ skip' = skip - CurrentChunk.uncompressedSize /\ k' = k + 1
          /\ UNCHANGED <<rpc, remaining, out, outcome>>
        BY <1>7 DEF SkipChunk
    <2>2. skip' \in Nat /\ k' \in Nat /\ k' >= 1
        BY <1>3, <1>5, <2>1
    <2> QED
        BY <1>1, <1>2, <1>3, <1>6, <2>1, <2>2
<1>8. CASE CopyChunk
    <2>1. /\ InLoop /\ skip < CurrentChunk.uncompressedSize
          /\ remaining' = remaining - Take /\ skip' = 0 /\ k' = k + 1
          /\ UNCHANGED <<rpc, outcome>>
        BY <1>8 DEF CopyChunk
    <2>2. PICK r \in FrameRuns(CurrentChunk) :
            out' = out \o [j \in 1 .. Take |-> ContentFrom(r) + j - 1]
        BY <1>8 DEF CopyChunk
    <2>3. Take \in Nat /\ Take <= remaining
        BY <1>3, <1>5, <2>1 DEF Take, Lesser
    <2>4. ContentFrom(r) \in Nat
        <3>1. frames[r[1]] \in FrameRecords
            BY <1>2 DEF FrameRuns
        <3>2. frames[r[1]].start \in Nat
            BY <3>1 DEF FrameRecords
        <3>3. (CurrentChunk.frameOffset + skip) % Word \in Nat
            BY <1>3, <1>5, <2>1, WordAssumption
        <3> QED
            BY <3>2, <3>3 DEF ContentFrom
    <2>5. out' \in Seq(Nat \cup {WrongByte})
        <3> DEFINE b == [j \in 1 .. Take |-> ContentFrom(r) + j - 1]
        <3>1. \A j \in 1 .. Take : ContentFrom(r) + j - 1 \in Nat
            BY <2>3, <2>4
        <3>2. b \in Seq(Nat \cup {WrongByte})
            BY <2>3, <3>1
        <3> HIDE DEF b
        <3>3. out' = out \o b
            BY <2>2 DEF b
        <3> QED
            BY <1>3, <3>2, <3>3
    <2>6. remaining' \in Nat /\ k' \in Nat /\ k' >= 1
        BY <1>3, <2>1, <2>3
    <2> QED
        BY <1>1, <1>2, <1>6, <2>1, <2>5, <2>6
<1>9. CASE ChunkFails
    <2>1. /\ rpc' = "ended" /\ outcome' = "error"
          /\ out' = out \/ out' = Append(out, WrongByte)
          /\ UNCHANGED <<k, skip, remaining>>
        BY <1>9 DEF ChunkFails, End
    <2>2. out' \in Seq(Nat \cup {WrongByte})
        BY <1>3, <2>1
    <2>3. k >= 1
        BY <1>1, <1>2 DEF Begun
    <2> QED
        BY <1>3, <1>6, <2>1, <2>2, <2>3
<1>10. CASE FinishExtract \/ DataMissing
    <2>1. /\ rpc' = "ended" /\ outcome' \in {"ok", "error"}
          /\ UNCHANGED <<k, skip, remaining, out>>
        BY <1>10 DEF FinishExtract, DataMissing, End
    <2>2. k >= 1
        BY <1>1, <1>2 DEF Begun
    <2> QED
        BY <1>3, <1>6, <2>1, <2>2
<1>11. CASE ChunkPanics
    <2>1. /\ rpc' = "ended" /\ outcome' = "panic"
          /\ UNCHANGED <<k, skip, remaining, out>>
        BY <1>11 DEF ChunkPanics, End
    <2>2. Hit("toc") # {}
        BY <1>11, PanicExplained
    <2> QED
        BY <1>3, <1>6, <2>1, <2>2
<1> QED
    BY <1>7, <1>8, <1>9, <1>10, <1>11

(* The loop over the members that a verify looks at. *)
LEMMA VerifySteps ==
    ASSUME ArchiveInv, UNCHANGED vars,
           VerifySkips \/ VerifyReads \/ VerifyPanics \/ VerifyCompares \/ VerifyEnds
    PROVE  ReaderTypeOK' /\ Session'
<1>1. /\ rpc \in {"verify", "chunk"}
      /\ UNCHANGED <<damage, badFrames, toc, op, until>>
    BY DEF VerifySkips, VerifyReads, VerifyPanics, VerifyCompares, VerifyEnds,
           AtMember, LoopDone
<1>2. /\ TocInv /\ Placed(members) /\ inputLen \in InputLens
      /\ pc = "done" /\ toc \in LoadedTocs
      /\ toc \in Seq(MemberRecords) /\ Len(toc) \in Nat /\ DOMAIN toc = 1 .. Len(toc)
      /\ outcome = "none" /\ ReaderTypeOK /\ Opened /\ Begun
    BY <1>1, Known
<1>3. /\ idx \in Nat /\ until \in Nat /\ k \in Nat /\ skip \in Nat
      /\ remaining \in Nat /\ out \in Seq(Nat \cup {WrongByte})
      /\ verdicts \in Seq({"ok", "mismatch", "none"})
    BY <1>2 DEF ReaderTypeOK
<1>4. CASE VerifySkips
    <2>1. /\ AtMember /\ idx' = idx + 1
          /\ verdicts' = verdicts \/ verdicts' = Append(verdicts, "none")
          /\ UNCHANGED <<rpc, k, skip, remaining, out, outcome>>
        BY <1>4 DEF VerifySkips
    <2>2. rpc = "verify" /\ op \in {"verifyAll", "verifyMember"} /\ idx >= 1
          /\ until <= Len(toc)
        BY <1>2, <2>1 DEF AtMember, Begun
    <2>3. idx' \in Nat /\ idx' >= 1 /\ verdicts' \in Seq({"ok", "mismatch", "none"})
        BY <1>3, <2>1, <2>2
    <2>4. ReaderTypeOK'
        BY <1>1, <1>2, <1>3, <2>1, <2>2, <2>3, TypeSame
    <2>5. Opened'
        BY <1>1, <1>2, <2>1, <2>2, OpenedStays
    <2>6. Begun'
        BY <1>1, <1>2, <2>1, <2>2, <2>3 DEF Begun
    <2> QED
        BY <2>4, <2>5, <2>6 DEF Session
<1>5. CASE VerifyReads
    <2>1. /\ AtMember /\ Locate(idx) /\ UNCHANGED <<idx, verdicts, outcome>>
        BY <1>5 DEF VerifyReads
    <2>2. /\ rpc = "verify" /\ op \in {"verifyAll", "verifyMember"} /\ idx >= 1
          /\ until <= Len(toc) /\ idx <= until
        BY <1>2, <2>1 DEF AtMember, Begun
    <2>3. idx \in DOMAIN toc
        BY <1>2, <1>3, <2>2
    <2>4. /\ Extractable(idx) /\ k' = 1 /\ out' = <<>> /\ rpc' = "chunk"
        BY <2>1 DEF Locate
    <2>5. skip' \in Nat /\ remaining' \in Nat
        BY <1>2, <2>1, <2>3, Located
    <2>6. out' \in Seq(Nat \cup {WrongByte})
        BY <2>4
    <2>7. ReaderTypeOK'
        BY <1>1, <1>2, <1>3, <2>1, <2>2, <2>4, <2>5, <2>6, TypeSame
    <2>8. Opened'
        BY <1>1, <1>2, <2>2, <2>4, OpenedStays
    <2>9. Begun'
        BY <1>1, <1>2, <2>1, <2>2, <2>3, <2>4 DEF Begun, Extractable
    <2> QED
        BY <2>7, <2>8, <2>9 DEF Session
<1>6. CASE VerifyCompares
    <2>1. /\ rpc = "chunk" /\ op # "extract" /\ rpc' = "verify" /\ idx' = idx + 1
          /\ \E v \in {"ok", "mismatch"} : verdicts' = Append(verdicts, v)
          /\ UNCHANGED <<k, skip, remaining, out, outcome>>
        BY <1>6 DEF VerifyCompares, LoopDone
    <2>2. /\ op \in {"verifyAll", "verifyMember"} /\ until <= Len(toc)
        BY <1>2, <2>1 DEF Begun
    <2>3. idx' \in Nat /\ idx' >= 1 /\ verdicts' \in Seq({"ok", "mismatch", "none"})
        BY <1>3, <2>1, <2>2
    <2>4. ReaderTypeOK'
        BY <1>1, <1>2, <1>3, <2>1, <2>2, <2>3, TypeSame
    <2>5. Opened'
        BY <1>1, <1>2, <2>1, <2>2, OpenedStays
    <2>6. Begun'
        BY <1>1, <1>2, <2>1, <2>2, <2>3 DEF Begun
    <2> QED
        BY <2>4, <2>5, <2>6 DEF Session
<1>7. CASE VerifyEnds
    <2>1. /\ rpc = "verify" /\ rpc' = "ended" /\ outcome' \in {"ok", "error"}
          /\ UNCHANGED <<idx, k, skip, remaining, out, verdicts>>
        BY <1>7 DEF VerifyEnds, End
    <2>2. op \in {"verifyAll", "verifyMember"}
        BY <1>2, <2>1 DEF Begun
    <2>3. ReaderTypeOK'
        BY <1>1, <1>2, <1>3, <2>1, <2>2, TypeSame
    <2>4. Opened'
        BY <1>1, <1>2, <2>1, OpenedStays
    <2>5. Begun'
        BY <1>1, <2>1, <2>2 DEF Begun
    <2> QED
        BY <2>3, <2>4, <2>5 DEF Session
<1>8. CASE VerifyPanics
    <2>1. /\ rpc = "verify" /\ rpc' = "ended" /\ outcome' = "panic"
          /\ UNCHANGED <<idx, k, skip, remaining, out, verdicts>>
        BY <1>8 DEF VerifyPanics, AtMember, End
    <2>2. op \in {"verifyAll", "verifyMember"} /\ Hit("toc") # {}
        BY <1>2, <1>8, <2>1, PanicExplained DEF Begun
    <2>3. ReaderTypeOK'
        BY <1>1, <1>2, <1>3, <2>1, <2>2, TypeSame
    <2>4. Opened'
        BY <1>1, <1>2, <2>1, OpenedStays
    <2>5. Begun'
        BY <1>1, <2>1, <2>2 DEF Begun
    <2> QED
        BY <2>3, <2>4, <2>5 DEF Session
<1> QED
    BY <1>4, <1>5, <1>6, <1>7, <1>8

LEMMA ReaderStep ==
    ASSUME ArchiveInv, ReaderNext, UNCHANGED vars
    PROVE  ArchiveInv'
<1>1. ReaderTypeOK' /\ Session'
    BY DamageStep, OpenStep, RefuseStep, BeginSteps, LoopSteps, VerifySteps
    DEF ReaderNext, Stepping
<1>2. TocInv'
    BY TocNext DEF ArchiveInv
<1>3. Placed(members') /\ inputLen' \in InputLens
    BY DEF ArchiveInv, vars
<1> QED
    BY <1>1, <1>2, <1>3 DEF ArchiveInv

LEMMA ArchiveStep == ArchiveInv /\ [ArchiveNext]_allVars => ArchiveInv'
<1> SUFFICES ASSUME ArchiveInv, [ArchiveNext]_allVars PROVE ArchiveInv'
    OBVIOUS
<1>1. CASE Next /\ UNCHANGED readVars
    BY <1>1, WriterStep
<1>2. CASE ReaderNext /\ UNCHANGED vars
    BY <1>2, ReaderStep
<1>3. CASE UNCHANGED allVars
    BY <1>3, ArchiveIdle
<1> QED
    BY <1>1, <1>2, <1>3 DEF ArchiveNext, Finished
-----------------------------------------------------------------------------
(* The theorems. *)

(* The writer and the reader together keep ArchiveInv. *)
THEOREM ArchiveInvariant == ArchiveSpec => []ArchiveInv
BY ArchiveStart, ArchiveStep, PTL DEF ArchiveSpec

(* The reader's variables keep their types, and none of the u64 sums and
   differences of extract_by_index and of info overflows unless a damaged TOC
   has been read: over the chunks the writer made they all fit, whatever data
   frames are damaged. *)
THEOREM ReaderTypeTheorem == ArchiveSpec => []ReaderTypeOK
<1>1. ArchiveInv => ReaderTypeOK
    BY DEF ArchiveInv
<1> QED
    BY <1>1, ArchiveInvariant, PTL

(* An archive that opens and passes verify --quick is as it was written. *)
THEOREM QuickTheorem == ArchiveSpec => []QuickCatchesDamage
<1>1. ArchiveInv => QuickCatchesDamage
    <2> SUFFICES ASSUME ArchiveInv, op = "quick", outcome = "ok"
                 PROVE  damage = {} /\ badFrames = {}
        BY DEF QuickCatchesDamage
    <2>1. rpc = "ended" /\ HashMatches
        BY DEF ArchiveInv, Session, Begun
    <2>2. IdentityReads /\ FooterReads /\ TocReads
        BY <2>1 DEF ArchiveInv, Session, Opened
    <2>3. damage \subseteq DamageKinds
        BY DEF ArchiveInv, ReaderTypeOK
    <2>4. /\ Hit("identity") = {} /\ Hit("toc") = {} /\ Hit("file") = {}
          /\ "hash" \notin Hit("footer") /\ badFrames = {}
        BY <2>1, <2>2 DEF HashMatches, FooterReads
    <2>5. Hit("footer") = {}
        <3>1. Fields["footer"] = FrameHead \cup {"tocOffset", "tocSize", "hash"}
            BY DEF Fields
        <3>2. Hit("footer") \subseteq FrameHead \cup {"tocOffset", "tocSize", "hash"}
            BY <3>1 DEF Hit
        <3>3. /\ Hit("footer") \cap FrameHead = {}
              /\ Hit("footer") \cap {"tocOffset", "tocSize"} = {}
            BY <2>2 DEF FooterReads, TocReads
        <3> QED
            BY <2>4, <3>2, <3>3
    <2>6. ASSUME NEW d \in damage PROVE FALSE
        <3>1. PICK f \in DOMAIN Fields : \E x \in Fields[f] : d = <<f, x>>
            BY <2>3, <2>6 DEF DamageKinds
        <3>2. PICK x \in Fields[f] : d = <<f, x>>
            BY <3>1
        <3>3. x \in Hit(f)
            BY <2>6, <3>2 DEF Hit
        <3>4. f \in {"identity", "toc", "footer", "file"}
            BY DEF Fields
        <3> QED
            BY <2>4, <2>5, <3>3, <3>4
    <2> QED
        BY <2>4, <2>6
<1> QED
    BY <1>1, ArchiveInvariant, PTL

(* An undamaged archive opens unless its TOC is above the cap: in particular
   its chunk layout is accepted, whatever members share frames. *)
THEOREM OpenTheorem == ArchiveSpec => []IntactOpens
<1>1. ArchiveInv => IntactOpens
    BY DEF ArchiveInv, Session, Opened, IntactOpens
<1> QED
    BY <1>1, ArchiveInvariant, PTL
=============================================================================
