-------------------------- MODULE OutputFileProofs --------------------------
(***************************************************************************)
(* Theorems about OutputFile, for any number of runs and losses of power:  *)
(* a temporary file belongs to the run that created it, what is at the     *)
(* output path is complete, its name is never durable before its bytes,    *)
(* and the output path behaves as AtomicPublish says.                      *)
(***************************************************************************)
EXTENDS OutputFile, TLAPS, WellFoundedInduction

(* The runs that have a temporary file. *)
Holding == {"writing", "wrapped", "flushed", "renaming", "failing"}

(* Those, and the runs that could not remove it. *)
Keeping == Holding \cup {"littered"}

(* Without a loss of power, a name other than the output path leads to a run
   that works on it or could not remove it, or that was killed. *)
NoneForgotten == powerLosses = 0 =>
    \A w \in Writers, n \in Names \ {Output} :
       dir[n] = w => \/ pc[w] = "killed"
                     \/ pc[w] \in Keeping /\ n = TempPath(w)

(* `past` ends with what is at the output path, names each state once and knows
   every state that a loss of power may bring back. *)
PastTrue ==
    /\ past # <<>>
    /\ dir[Output] = past[Len(past)]
    /\ \A i, j \in DOMAIN past : past[i] = past[j] => i = j
    /\ \A i \in DOMAIN past : past[i] \in Writers =>
          pc[past[i]] \in {"renamed", "done", "unsynced", "killed"}
    /\ \A d \in durableDirs : \E i \in DOMAIN past : past[i] = d[Output]
    /\ \A w \in Writers : pc[w] = "renamed" => \E i \in DOMAIN past : past[i] = w

(* No directory that a loss of power may leave is older than index i. *)
NoneBefore(ds, ps, i) == \A d \in ds : \A j \in DOMAIN ps : d[Output] = ps[j] => i <= j

ReturnedStays == \A w \in Writers : pc[w] = "done" =>
    \E i \in DOMAIN past : past[i] = w /\ NoneBefore(durableDirs, past, i)

(* When a file has all its bytes, and when they are durable. *)
BytesFirst ==
    /\ \A i \in Inodes : durable[i] <= content[i]
    /\ \A w \in Writers : pc[w] \in {"flushed", "renaming"} => content[w] = Size
    /\ \A w \in Writers \ NoSync : pc[w] = "renaming" => durable[w] = Size
    /\ NameAfterContent
    /\ powerLosses = 0 =>
          \A d \in durableDirs : d[Output] # NoFile => content[d[Output]] = Size

FileInv ==
    /\ OutputTypeOK
    /\ TempIsOwn
    /\ NoneForgotten
    /\ PastTrue
    /\ ReturnedStays
    /\ BytesFirst
-----------------------------------------------------------------------------
(* Lemmas about names, files and labels. *)

Labels == Ended \cup {"idle", "creating", "writing", "wrapped", "flushed",
                      "renaming", "renamed", "failing"}

(* A run is no other file, and its temporary name is not the output path. *)
LEMMA NameFacts ==
    ASSUME attempt \in [Writers -> 0 .. MaxAttempts - 1], NEW w \in Writers
    PROVE  /\ w # NoFile /\ w # Old /\ w \in Inodes
           /\ TempPath(w) \in Names /\ TempPath(w) # Output
           /\ Output \in Names /\ NoFile \notin Inodes
<1>1. attempt[w] \in 0 .. MaxAttempts - 1
    OBVIOUS
<1>2. /\ w # NoFile /\ w # Old /\ w \in Inodes /\ NoFile \notin Inodes
    BY FilesAssumption DEF Inodes
<1>3. TempPath(w) \in Names /\ TempPath(w) # Output /\ Output \in Names
    BY <1>1, NamesAssumption DEF TempPath, Names
<1> QED
    BY <1>2, <1>3

(* Goto changes the label of one run. *)
LEMMA GotoFacts ==
    ASSUME pc \in [Writers -> Labels], NEW w \in Writers, NEW label \in Labels,
           Goto(w, label)
    PROVE  /\ pc' \in [Writers -> Labels] /\ pc'[w] = label
           /\ \A v \in Writers : v # w => pc'[v] = pc[v]
BY DEF Goto

(* What a directory has at the output path. *)
LEMMA TopIsFile ==
    ASSUME NEW d \in Directories
    PROVE  d[Output] # NoFile => d[Output] \in Inodes
<1>1. Output \in Names
    BY DEF Names
<1> QED
    BY <1>1 DEF Directories

(* A step of run w that leaves the directory alone: it moves on, fails or is
   killed, and bytes are added or become durable. *)
LEMMA DirUntouched ==
    ASSUME FileInv, NEW w \in Writers, NEW label \in Labels, Goto(w, label),
           UNCHANGED <<fd, dirVars, powerLosses>>,
           attempt' \in [Writers -> 0 .. MaxAttempts - 1],
           \A v \in Writers : pc[v] \in Keeping => attempt'[v] = attempt[v],
           content' \in [Inodes -> 0 .. Size],
           durable' \in [Inodes -> 0 .. Size],
           \A i \in Inodes : /\ content[i] <= content'[i]
                             /\ durable[i] <= durable'[i]
                             /\ durable'[i] <= content'[i],
           \/ pc[w] \in {"idle", "creating"} /\ label \in {"creating", "failed"}
           \/ pc[w] \in Holding /\ label \in Keeping
           \/ label = "killed",
           label \in {"flushed", "renaming"} => content'[w] = Size,
           label = "renaming" /\ w \notin NoSync => durable'[w] = Size
    PROVE  FileInv'
<1>1. /\ pc \in [Writers -> Labels] /\ dir \in Directories
      /\ attempt \in [Writers -> 0 .. MaxAttempts - 1]
      /\ content \in [Inodes -> 0 .. Size] /\ durable \in [Inodes -> 0 .. Size]
      /\ durableDirs \subseteq Directories
    BY DEF FileInv, OutputTypeOK, Labels
<1>2. /\ pc' \in [Writers -> Labels] /\ pc'[w] = label
      /\ \A v \in Writers : v # w => pc'[v] = pc[v]
    BY <1>1, GotoFacts
<1>3. /\ fd' = fd /\ dir' = dir /\ durableDirs' = durableDirs /\ past' = past
      /\ powerLosses' = powerLosses
    BY DEF dirVars
<1>4. OutputTypeOK'
    BY <1>2, <1>3 DEF FileInv, OutputTypeOK, Labels
<1>5. TempIsOwn'
    <2> SUFFICES ASSUME NEW v \in Writers, pc'[v] \in Holding
                 PROVE  fd'[v] = v /\ dir'[TempPath(v)'] = v
        BY DEF TempIsOwn, Holding
    <2>1. pc[v] \in Holding
        BY <1>2 DEF Holding
    <2>2. TempPath(v)' = TempPath(v)
        BY <2>1 DEF TempPath, Keeping
    <2> QED
        BY <1>3, <2>1, <2>2 DEF FileInv, TempIsOwn, Holding
<1>6. NoneForgotten'
    <2> SUFFICES ASSUME powerLosses' = 0, NEW v \in Writers,
                        NEW n \in Names \ {Output}, dir'[n] = v
                 PROVE  \/ pc'[v] = "killed"
                        \/ pc'[v] \in Keeping /\ n = TempPath(v)'
        BY DEF NoneForgotten
    <2>1. \/ pc[v] = "killed"
          \/ pc[v] \in Keeping /\ n = TempPath(v)
        BY <1>3 DEF FileInv, NoneForgotten
    <2>2. pc[v] \in Keeping => TempPath(v)' = TempPath(v)
        BY DEF TempPath
    <2> QED
        BY <1>2, <2>1, <2>2 DEF Holding, Keeping
<1>7. PastTrue'
    <2>1. ASSUME NEW i \in DOMAIN past, past[i] \in Writers
          PROVE  pc'[past[i]] \in {"renamed", "done", "unsynced", "killed"}
        <3>1. pc[past[i]] \in {"renamed", "done", "unsynced", "killed"}
            BY <2>1 DEF FileInv, PastTrue
        <3> QED
            BY <1>2, <2>1, <3>1 DEF Holding, Keeping
    <2>2. ASSUME NEW v \in Writers, pc'[v] = "renamed"
          PROVE  \E i \in DOMAIN past : past[i] = v
        <3>1. pc[v] = "renamed"
            BY <1>2, <2>2 DEF Holding, Keeping
        <3> QED
            BY <3>1 DEF FileInv, PastTrue
    <2> QED
        BY <1>3, <2>1, <2>2 DEF FileInv, PastTrue
<1>8. ReturnedStays'
    <2> SUFFICES ASSUME NEW v \in Writers, pc'[v] = "done"
                 PROVE  \E i \in DOMAIN past' :
                           past'[i] = v /\ NoneBefore(durableDirs', past', i)
        BY DEF ReturnedStays
    <2>1. pc[v] = "done"
        BY <1>2 DEF Holding, Keeping
    <2> QED
        BY <1>3, <2>1 DEF FileInv, ReturnedStays
<1>9. BytesFirst'
    <2>1. ASSUME NEW i \in Inodes
          PROVE  /\ content[i] = Size => content'[i] = Size
                 /\ durable[i] = Size => durable'[i] = Size
        <3>1. /\ content[i] \in 0 .. Size /\ content'[i] \in 0 .. Size
              /\ durable[i] \in 0 .. Size /\ durable'[i] \in 0 .. Size
            BY <1>1
        <3> QED
            BY <3>1, SizeAssumption
    <2>2. ASSUME NEW v \in Writers
          PROVE  /\ pc'[v] \in {"flushed", "renaming"} => content'[v] = Size
                 /\ pc'[v] = "renaming" /\ v \notin NoSync => durable'[v] = Size
        <3>1. v \in Inodes
            BY DEF Inodes
        <3>2. CASE v = w
            BY <1>2, <3>2
        <3>3. CASE v # w
            BY <1>2, <2>1, <3>1, <3>3 DEF FileInv, BytesFirst
        <3> QED
            BY <3>2, <3>3
    <2>3. ASSUME NEW d \in durableDirs
          PROVE  d[Output] # NoFile => d[Output] \in Inodes
        BY <1>1, TopIsFile
    <2>4. NameAfterContent'
        BY <1>3, <2>1, <2>3 DEF FileInv, BytesFirst, NameAfterContent
    <2>5. powerLosses' = 0 =>
            \A d \in durableDirs' : d[Output] # NoFile => content'[d[Output]] = Size
        BY <1>3, <2>1, <2>3 DEF FileInv, BytesFirst
    <2> QED
        BY <2>2, <2>4, <2>5 DEF BytesFirst
<1> QED
    BY <1>4, <1>5, <1>6, <1>7, <1>8, <1>9 DEF FileInv

(* Run w creates or removes its temporary file: the output path, the bytes and
   the history are as before. *)
LEMMA TempChanges ==
    ASSUME FileInv, NEW w \in Writers, NEW label \in Labels, Goto(w, label),
           NEW f, SetDir([dir EXCEPT ![TempPath(w)] = f]),
           UNCHANGED <<attempt, past, fileVars, powerLosses>>,
           \/ /\ pc[w] = "creating" /\ label = "writing"
              /\ dir[TempPath(w)] = NoFile /\ f = w /\ fd' = [fd EXCEPT ![w] = w]
           \/ /\ pc[w] = "failing" /\ label = "failed"
              /\ f = NoFile /\ fd' = fd
    PROVE  FileInv'
<1>1. /\ pc \in [Writers -> Labels] /\ dir \in Directories
      /\ attempt \in [Writers -> 0 .. MaxAttempts - 1]
      /\ fd \in [Writers -> Inodes \cup {NoFile}]
      /\ durableDirs \subseteq Directories
    BY DEF FileInv, OutputTypeOK, Labels
<1>2. /\ pc' \in [Writers -> Labels] /\ pc'[w] = label
      /\ \A v \in Writers : v # w => pc'[v] = pc[v]
    BY <1>1, GotoFacts
<1>3. /\ attempt' = attempt /\ past' = past /\ content' = content
      /\ durable' = durable /\ powerLosses' = powerLosses
      /\ dir' = [dir EXCEPT ![TempPath(w)] = f]
      /\ durableDirs' = durableDirs \cup {dir'}
    BY DEF fileVars, SetDir
<1>4. /\ w # NoFile /\ w \in Inodes /\ Output \in Names
      /\ TempPath(w) \in Names /\ TempPath(w) # Output
    BY <1>1, NameFacts
<1>5. f \in Inodes \cup {NoFile}
    BY <1>4
<1>6. /\ dir' \in Directories /\ dir'[Output] = dir[Output]
      /\ dir'[TempPath(w)] = f
      /\ \A n \in Names : n # TempPath(w) => dir'[n] = dir[n]
    BY <1>1, <1>3, <1>4, <1>5 DEF Directories
<1>7. \A d \in durableDirs' : \E e \in durableDirs : d[Output] = e[Output]
    BY <1>3, <1>6 DEF FileInv, OutputTypeOK
<1>8. \A v \in Writers : TempPath(v)' = TempPath(v)
    BY <1>3 DEF TempPath
<1>9. /\ fd' \in [Writers -> Inodes \cup {NoFile}] /\ (label = "writing" => fd'[w] = w)
      /\ \A v \in Writers : v # w => fd'[v] = fd[v]
    BY <1>1, <1>4
<1>10. OutputTypeOK'
    <2>1. durableDirs' \in SUBSET Directories /\ dir' \in durableDirs'
        BY <1>1, <1>3, <1>6
    <2>2. pc' \in [Writers -> Ended \cup {"idle", "creating", "writing", "wrapped",
                             "flushed", "renaming", "renamed", "failing"}]
        BY <1>2 DEF Labels
    <2> QED
        BY <1>3, <1>6, <1>9, <2>1, <2>2 DEF FileInv, OutputTypeOK
<1>11. TempIsOwn'
    <2> SUFFICES ASSUME NEW v \in Writers, pc'[v] \in Holding
                 PROVE  fd'[v] = v /\ dir'[TempPath(v)'] = v
        BY DEF TempIsOwn, Holding
    <2>1. CASE v = w
        <3>1. label = "writing"
            BY <1>2, <2>1 DEF Holding
        <3> QED
            BY <1>6, <1>8, <1>9, <2>1, <3>1
    <2>2. CASE v # w
        <3>1. pc[v] \in Holding
            BY <1>2, <2>2
        <3>2. fd[v] = v /\ dir[TempPath(v)] = v
            BY <3>1 DEF FileInv, TempIsOwn, Holding
        <3>3. dir[TempPath(w)] \in {NoFile, w}
            BY DEF FileInv, TempIsOwn, Holding
        <3>4. v # NoFile /\ TempPath(v) \in Names
            BY <1>1, NameFacts
        <3> QED
            BY <1>6, <1>8, <1>9, <2>2, <3>2, <3>3, <3>4
    <2> QED
        BY <2>1, <2>2
<1>12. NoneForgotten'
    <2> SUFFICES ASSUME powerLosses' = 0, NEW v \in Writers,
                        NEW n \in Names \ {Output}, dir'[n] = v
                 PROVE  \/ pc'[v] = "killed"
                        \/ pc'[v] \in Keeping /\ n = TempPath(v)'
        BY DEF NoneForgotten
    <2>1. v # NoFile
        BY <1>1, NameFacts
    <2>2. CASE n = TempPath(w)
        <3>1. v = w /\ label = "writing"
            BY <1>6, <2>1, <2>2
        <3> QED
            BY <1>2, <1>8, <2>2, <3>1 DEF Holding, Keeping
    <2>3. CASE n # TempPath(w)
        <3>1. dir[n] = v
            BY <1>6, <2>3
        <3>2. \/ pc[v] = "killed"
              \/ pc[v] \in Keeping /\ n = TempPath(v)
            BY <1>3, <3>1 DEF FileInv, NoneForgotten
        <3>3. v # w
            BY <2>3, <3>2 DEF Holding, Keeping
        <3> QED
            BY <1>2, <1>8, <3>2, <3>3
    <2> QED
        BY <2>2, <2>3
<1>13. PastTrue'
    <2>1. ASSUME NEW i \in DOMAIN past, past[i] \in Writers
          PROVE  pc'[past[i]] \in {"renamed", "done", "unsynced", "killed"}
        <3>1. pc[past[i]] \in {"renamed", "done", "unsynced", "killed"}
            BY <2>1 DEF FileInv, PastTrue
        <3> QED
            BY <1>2, <2>1, <3>1
    <2>2. ASSUME NEW v \in Writers, pc'[v] = "renamed"
          PROVE  \E i \in DOMAIN past : past[i] = v
        <3>1. pc[v] = "renamed"
            BY <1>2, <2>2
        <3> QED
            BY <3>1 DEF FileInv, PastTrue
    <2>3. \A d \in durableDirs' : \E i \in DOMAIN past : past[i] = d[Output]
        BY <1>7 DEF FileInv, PastTrue
    <2> QED
        BY <1>3, <1>6, <2>1, <2>2, <2>3 DEF FileInv, PastTrue
<1>14. ReturnedStays'
    <2> SUFFICES ASSUME NEW v \in Writers, pc'[v] = "done"
                 PROVE  \E i \in DOMAIN past :
                           past[i] = v /\ NoneBefore(durableDirs', past, i)
        BY <1>3 DEF ReturnedStays
    <2>1. pc[v] = "done"
        BY <1>2
    <2>2. PICK i \in DOMAIN past : past[i] = v /\ NoneBefore(durableDirs, past, i)
        BY <2>1 DEF FileInv, ReturnedStays
    <2>3. NoneBefore(durableDirs', past, i)
        BY <1>7, <2>2 DEF NoneBefore
    <2> QED
        BY <2>2, <2>3
<1>15. BytesFirst'
    <2>1. \A v \in Writers : pc'[v] \in {"flushed", "renaming"} => pc[v] = pc'[v]
        BY <1>2
    <2>2. NameAfterContent'
        BY <1>3, <1>7 DEF FileInv, BytesFirst, NameAfterContent
    <2>3. powerLosses' = 0 =>
            \A d \in durableDirs' : d[Output] # NoFile => content'[d[Output]] = Size
        BY <1>3, <1>7 DEF FileInv, BytesFirst
    <2> QED
        BY <1>3, <2>1, <2>2, <2>3 DEF FileInv, BytesFirst
<1> QED
    BY <1>10, <1>11, <1>12, <1>13, <1>14, <1>15 DEF FileInv

(* Run w renames its archive to the output path: it was not there before, and
   its temporary name is free again. *)
LEMMA RenameStep ==
    ASSUME FileInv, NEW w \in Writers, Rename(w)
    PROVE  FileInv'
<1> DEFINE label == IF w \in NoSync THEN "unsynced" ELSE "renamed"
<1>1. /\ pc \in [Writers -> Labels] /\ dir \in Directories
      /\ attempt \in [Writers -> 0 .. MaxAttempts - 1]
      /\ durableDirs \subseteq Directories
      /\ past \in Seq(Inodes \cup {NoFile})
    BY DEF FileInv, OutputTypeOK, Labels
<1>2. /\ pc' \in [Writers -> Labels] /\ pc'[w] = label
      /\ \A v \in Writers : v # w => pc'[v] = pc[v]
    <2>1. Goto(w, label) /\ label \in Labels
        BY DEF Rename, Labels, Ended
    <2> HIDE DEF label
    <2> QED
        BY <1>1, <2>1, GotoFacts
<1>3. /\ w # NoFile /\ w \in Inodes /\ Output \in Names
      /\ TempPath(w) \in Names /\ TempPath(w) # Output
    BY <1>1, NameFacts
<1>4. pc[w] = "renaming" /\ dir[TempPath(w)] = w
    BY DEF Rename, FileInv, TempIsOwn
<1>5. /\ attempt' = attempt /\ fd' = fd /\ content' = content
      /\ durable' = durable /\ powerLosses' = powerLosses
      /\ dir' = [dir EXCEPT ![Output] = w, ![TempPath(w)] = NoFile]
      /\ durableDirs' = durableDirs \cup {dir'}
    BY <1>4 DEF Rename, fileVars, SetDir
<1>6. /\ dir' \in Directories /\ dir'[Output] = w /\ dir'[TempPath(w)] = NoFile
      /\ \A n \in Names \ {Output, TempPath(w)} : dir'[n] = dir[n]
    BY <1>1, <1>3, <1>5 DEF Directories
<1>7. /\ past' = Append(past, w)
      /\ past' \in Seq(Inodes \cup {NoFile}) /\ Len(past') = Len(past) + 1
      /\ Len(past) \in Nat /\ past'[Len(past) + 1] = w
      /\ \A i \in DOMAIN past : past'[i] = past[i]
      /\ DOMAIN past = 1 .. Len(past) /\ DOMAIN past' = 1 .. Len(past) + 1
    <2>1. past' = Append(past, w)
        BY <1>6 DEF Rename
    <2> QED
        BY <1>1, <1>3, <2>1
<1>8. \A i \in DOMAIN past : past[i] # w
    BY <1>4 DEF FileInv, PastTrue
<1>9. \A v \in Writers : TempPath(v)' = TempPath(v)
    BY <1>5 DEF TempPath
<1>10. \A j \in DOMAIN past' : j \in DOMAIN past \/ j = Len(past) + 1
    BY <1>7
<1>11. OutputTypeOK'
    <2>1. durableDirs' \in SUBSET Directories /\ dir' \in durableDirs'
        BY <1>1, <1>5, <1>6
    <2>2. pc' \in [Writers -> Ended \cup {"idle", "creating", "writing", "wrapped",
                             "flushed", "renaming", "renamed", "failing"}]
        BY <1>2 DEF Labels
    <2> QED
        BY <1>5, <1>6, <1>7, <2>1, <2>2 DEF FileInv, OutputTypeOK
<1>12. TempIsOwn'
    <2> SUFFICES ASSUME NEW v \in Writers, pc'[v] \in Holding
                 PROVE  fd'[v] = v /\ dir'[TempPath(v)'] = v
        BY DEF TempIsOwn, Holding
    <2>1. v # w /\ pc[v] \in Holding
        BY <1>2 DEF Holding
    <2>2. fd[v] = v /\ dir[TempPath(v)] = v
        BY <2>1 DEF FileInv, TempIsOwn, Holding
    <2>3. TempPath(v) \in Names /\ TempPath(v) # Output
        BY <1>1, NameFacts
    <2> QED
        BY <1>4, <1>5, <1>6, <1>9, <2>1, <2>2, <2>3
<1>13. NoneForgotten'
    <2> SUFFICES ASSUME powerLosses' = 0, NEW v \in Writers,
                        NEW n \in Names \ {Output}, dir'[n] = v
                 PROVE  \/ pc'[v] = "killed"
                        \/ pc'[v] \in Keeping /\ n = TempPath(v)'
        BY DEF NoneForgotten
    <2>1. v # NoFile
        BY <1>1, NameFacts
    <2>2. n # TempPath(w) /\ dir[n] = v
        BY <1>6, <2>1
    <2>3. \/ pc[v] = "killed"
          \/ pc[v] \in Keeping /\ n = TempPath(v)
        BY <1>5, <2>2 DEF FileInv, NoneForgotten
    <2>4. v # w
        BY <1>4, <2>2, <2>3 DEF Holding, Keeping
    <2> QED
        BY <1>2, <1>9, <2>3, <2>4
<1>14. PastTrue'
    <2>1. ASSUME NEW i \in DOMAIN past', past'[i] \in Writers
          PROVE  pc'[past'[i]] \in {"renamed", "done", "unsynced", "killed"}
        <3>1. CASE i = Len(past) + 1
            BY <1>2, <1>7, <3>1
        <3>2. CASE i \in DOMAIN past
            <4>1. pc[past[i]] \in {"renamed", "done", "unsynced", "killed"}
                BY <1>7, <2>1, <3>2 DEF FileInv, PastTrue
            <4> QED
                BY <1>2, <1>7, <1>8, <2>1, <3>2, <4>1
        <3> QED
            BY <1>10, <3>1, <3>2
    <2>2. ASSUME NEW v \in Writers, pc'[v] = "renamed"
          PROVE  \E i \in DOMAIN past' : past'[i] = v
        <3>1. CASE v = w
            BY <1>7, <3>1
        <3>2. CASE v # w
            <4>1. pc[v] = "renamed"
                BY <1>2, <2>2, <3>2
            <4>2. PICK i \in DOMAIN past : past[i] = v
                BY <4>1 DEF FileInv, PastTrue
            <4> QED
                BY <1>7, <4>2
        <3> QED
            BY <3>1, <3>2
    <2>3. ASSUME NEW d \in durableDirs'
          PROVE  \E i \in DOMAIN past' : past'[i] = d[Output]
        <3>1. CASE d = dir'
            BY <1>6, <1>7, <3>1
        <3>2. CASE d \in durableDirs
            <4>1. PICK i \in DOMAIN past : past[i] = d[Output]
                BY <3>2 DEF FileInv, PastTrue
            <4> QED
                BY <1>7, <4>1
        <3> QED
            BY <1>5, <3>1, <3>2
    <2>4. ASSUME NEW i \in DOMAIN past', NEW j \in DOMAIN past', past'[i] = past'[j]
          PROVE  i = j
        <3>1. i \in DOMAIN past /\ j \in DOMAIN past => i = j
            BY <1>7, <2>4 DEF FileInv, PastTrue
        <3> QED
            BY <1>7, <1>8, <1>10, <2>4, <3>1
    <2>5. past' # <<>> /\ dir'[Output] = past'[Len(past')]
        BY <1>6, <1>7
    <2> QED
        BY <2>1, <2>2, <2>3, <2>4, <2>5 DEF PastTrue
<1>15. ReturnedStays'
    <2> SUFFICES ASSUME NEW v \in Writers, pc'[v] = "done"
                 PROVE  \E i \in DOMAIN past' :
                           past'[i] = v /\ NoneBefore(durableDirs', past', i)
        BY DEF ReturnedStays
    <2>1. pc[v] = "done"
        BY <1>2
    <2>2. PICK i \in DOMAIN past : past[i] = v /\ NoneBefore(durableDirs, past, i)
        BY <2>1 DEF FileInv, ReturnedStays
    <2>3. ASSUME NEW d \in durableDirs', NEW j \in DOMAIN past', d[Output] = past'[j]
          PROVE  i <= j
        <3>1. CASE j = Len(past) + 1
            BY <1>7, <3>1
        <3>2. CASE j \in DOMAIN past
            <4>1. past'[j] = past[j] /\ past[j] # w
                BY <1>7, <1>8, <3>2
            <4>2. d \in durableDirs
                BY <1>5, <1>6, <2>3, <4>1
            <4> QED
                BY <2>2, <2>3, <3>2, <4>1, <4>2 DEF NoneBefore
        <3> QED
            BY <1>10, <3>1, <3>2
    <2>4. i \in DOMAIN past' /\ past'[i] = v
        BY <1>7, <2>2
    <2> QED
        BY <2>3, <2>4 DEF NoneBefore
<1>16. BytesFirst'
    <2>1. \A v \in Writers : pc'[v] \in {"flushed", "renaming"} => pc[v] = pc'[v]
        BY <1>2
    <2>2. content[w] = Size /\ (w \notin NoSync => durable[w] = Size)
        BY <1>4 DEF FileInv, BytesFirst
    <2>3. NameAfterContent'
        BY <1>5, <1>6, <2>2 DEF FileInv, BytesFirst, NameAfterContent
    <2>4. powerLosses' = 0 =>
            \A d \in durableDirs' : d[Output] # NoFile => content'[d[Output]] = Size
        BY <1>5, <1>6, <2>2 DEF FileInv, BytesFirst
    <2> QED
        BY <1>5, <2>1, <2>3, <2>4 DEF FileInv, BytesFirst
<1> QED
    BY <1>11, <1>12, <1>13, <1>14, <1>15, <1>16 DEF FileInv

(* Run w syncs the directory, or warns that it could not: nothing older than
   what is at the output path can come back if it could. *)
LEMMA SyncDirStep ==
    ASSUME FileInv, NEW w \in Writers, SyncDir(w)
    PROVE  FileInv'
<1>1. /\ pc \in [Writers -> Labels] /\ dir \in durableDirs
      /\ past \in Seq(Inodes \cup {NoFile})
    BY DEF FileInv, OutputTypeOK, Labels
<1>2. PICK label \in {"done", "unsynced"} :
        /\ Goto(w, label)
        /\ IF label = "done" THEN durableDirs' = {dir} ELSE UNCHANGED durableDirs
    BY DEF SyncDir
<1>3. /\ pc' \in [Writers -> Labels] /\ pc'[w] = label
      /\ \A v \in Writers : v # w => pc'[v] = pc[v]
    <2>1. label \in Labels
        BY DEF Labels, Ended
    <2> QED
        BY <1>1, <1>2, <2>1, GotoFacts
<1>4. /\ attempt' = attempt /\ fd' = fd /\ content' = content
      /\ durable' = durable /\ powerLosses' = powerLosses
      /\ dir' = dir /\ past' = past /\ pc[w] = "renamed"
    BY DEF SyncDir, fileVars
<1>5. durableDirs' \subseteq durableDirs /\ dir \in durableDirs'
    BY <1>1, <1>2
<1>6. \A v \in Writers : TempPath(v)' = TempPath(v)
    BY <1>4 DEF TempPath
<1>7. OutputTypeOK'
    <2>1. durableDirs' \in SUBSET Directories /\ dir' \in durableDirs'
        BY <1>4, <1>5 DEF FileInv, OutputTypeOK
    <2>2. pc' \in [Writers -> Ended \cup {"idle", "creating", "writing", "wrapped",
                             "flushed", "renaming", "renamed", "failing"}]
        BY <1>3 DEF Labels
    <2> QED
        BY <1>4, <2>1, <2>2 DEF FileInv, OutputTypeOK
<1>8. \A v \in Writers : pc'[v] \in Holding \cup {"renamed", "killed"} => v # w /\ pc'[v] = pc[v]
    BY <1>3 DEF Holding
<1>9. TempIsOwn'
    BY <1>4, <1>6, <1>8 DEF FileInv, TempIsOwn, Holding
<1>10. NoneForgotten'
    <2> SUFFICES ASSUME powerLosses' = 0, NEW v \in Writers,
                        NEW n \in Names \ {Output}, dir'[n] = v
                 PROVE  \/ pc'[v] = "killed"
                        \/ pc'[v] \in Keeping /\ n = TempPath(v)'
        BY DEF NoneForgotten
    <2>1. \/ pc[v] = "killed"
          \/ pc[v] \in Keeping /\ n = TempPath(v)
        BY <1>4 DEF FileInv, NoneForgotten
    <2> QED
        BY <1>3, <1>4, <1>6, <2>1 DEF Holding, Keeping
<1>11. PastTrue'
    <2>1. ASSUME NEW i \in DOMAIN past, past[i] \in Writers
          PROVE  pc'[past[i]] \in {"renamed", "done", "unsynced", "killed"}
        <3>1. pc[past[i]] \in {"renamed", "done", "unsynced", "killed"}
            BY <2>1 DEF FileInv, PastTrue
        <3> QED
            BY <1>3, <2>1, <3>1
    <2>2. \A d \in durableDirs' : \E i \in DOMAIN past : past[i] = d[Output]
        BY <1>5 DEF FileInv, PastTrue
    <2> QED
        BY <1>4, <1>8, <2>1, <2>2 DEF FileInv, PastTrue
<1>12. ReturnedStays'
    <2> SUFFICES ASSUME NEW v \in Writers, pc'[v] = "done"
                 PROVE  \E i \in DOMAIN past :
                           past[i] = v /\ NoneBefore(durableDirs', past, i)
        BY <1>4 DEF ReturnedStays
    <2>1. CASE v = w
        <3>1. PICK i \in DOMAIN past : past[i] = v
            BY <1>4, <2>1 DEF FileInv, PastTrue
        <3>2. durableDirs' = {dir}
            BY <1>2, <1>3, <2>1
        <3>3. ASSUME NEW j \in DOMAIN past, dir[Output] = past[j]
              PROVE  i <= j
            <4>1. Len(past) \in DOMAIN past /\ past[Len(past)] = past[j]
                BY <1>1, <3>3 DEF FileInv, PastTrue
            <4>2. j = Len(past)
                BY <4>1 DEF FileInv, PastTrue
            <4> QED
                BY <1>1, <4>2
        <3>4. NoneBefore(durableDirs', past, i)
            BY <3>2, <3>3 DEF NoneBefore
        <3> QED
            BY <3>1, <3>4
    <2>2. CASE v # w
        <3>1. pc[v] = "done"
            BY <1>3, <2>2
        <3>2. PICK i \in DOMAIN past : past[i] = v /\ NoneBefore(durableDirs, past, i)
            BY <3>1 DEF FileInv, ReturnedStays
        <3>3. NoneBefore(durableDirs', past, i)
            BY <1>5, <3>2 DEF NoneBefore
        <3> QED
            BY <3>2, <3>3
    <2> QED
        BY <2>1, <2>2
<1>13. BytesFirst'
    <2>1. \A v \in Writers : pc'[v] \in {"flushed", "renaming"} => pc[v] = pc'[v]
        BY <1>3
    <2>2. NameAfterContent'
        BY <1>4, <1>5 DEF FileInv, BytesFirst, NameAfterContent
    <2>3. powerLosses' = 0 =>
            \A d \in durableDirs' : d[Output] # NoFile => content'[d[Output]] = Size
        BY <1>4, <1>5 DEF FileInv, BytesFirst
    <2> QED
        BY <1>4, <2>1, <2>2, <2>3 DEF FileInv, BytesFirst
<1> QED
    BY <1>7, <1>9, <1>10, <1>11, <1>12, <1>13 DEF FileInv

(* The index that IndexOf finds: past names each state once. *)
LEMMA IndexFacts ==
    ASSUME PastTrue, NEW d \in durableDirs
    PROVE  /\ IndexOf(d[Output]) \in DOMAIN past
           /\ past[IndexOf(d[Output])] = d[Output]
<1>1. \E i \in DOMAIN past : past[i] = d[Output]
    BY DEF PastTrue
<1> QED
    BY <1>1 DEF IndexOf

(* The machine loses power: one of the durable directories is left, with at
   least the durable bytes, and nothing runs. *)
LEMMA PowerLossStep ==
    ASSUME FileInv, PowerLoss
    PROVE  FileInv'
<1> DEFINE k == IndexOf(dir'[Output])
<1>1. /\ pc \in [Writers -> Labels] /\ durableDirs \subseteq Directories
      /\ past \in Seq(Inodes \cup {NoFile}) /\ powerLosses \in Nat
      /\ content \in [Inodes -> 0 .. Size] /\ durable \in [Inodes -> 0 .. Size]
    BY DEF FileInv, OutputTypeOK, Labels
<1>2. ASSUME NEW v \in Writers
      PROVE  /\ pc'[v] \in Ended \cup {"idle"}
             /\ pc'[v] # "killed" => pc'[v] = pc[v]
             /\ pc[v] \in Ended => pc'[v] = pc[v]
             /\ pc[v] = "renamed" => pc'[v] = "killed"
    BY <1>1 DEF PowerLoss, Running, Ended
<1>3. pc' \in [Writers -> Labels]
    <2>1. pc' = [v \in Writers |-> pc'[v]]
        BY DEF PowerLoss
    <2> QED
        BY <1>2, <2>1 DEF Labels
<1>4. /\ dir' \in durableDirs /\ durableDirs' = {dir'}
      /\ attempt' = attempt /\ fd' = fd /\ durable' = content'
      /\ past' = SubSeq(past, 1, k)
      /\ content' \in [Inodes -> 0 .. Size]
      /\ \A i \in Inodes : durable[i] <= content'[i]
      /\ powerLosses' = powerLosses + 1
    BY DEF PowerLoss
<1>5. k \in DOMAIN past /\ past[k] = dir'[Output]
    BY <1>4, IndexFacts DEF FileInv
<1> HIDE DEF k
<1>6. /\ k \in Nat \ {0} /\ Len(past) \in Nat /\ k <= Len(past)
      /\ past' \in Seq(Inodes \cup {NoFile}) /\ Len(past') = k
      /\ DOMAIN past' = 1 .. k /\ DOMAIN past = 1 .. Len(past)
      /\ \A i \in 1 .. k : past'[i] = past[i] /\ i \in DOMAIN past
    BY <1>1, <1>4, <1>5
<1>7. OutputTypeOK'
    <2>1. durableDirs' \in SUBSET Directories /\ dir' \in durableDirs' /\ dir' \in Directories
        BY <1>1, <1>4
    <2>2. pc' \in [Writers -> Ended \cup {"idle", "creating", "writing", "wrapped",
                             "flushed", "renaming", "renamed", "failing"}]
        BY <1>3 DEF Labels
    <2>3. powerLosses' \in Nat
        BY <1>1, <1>4
    <2> QED
        BY <1>4, <1>6, <2>1, <2>2, <2>3 DEF FileInv, OutputTypeOK
<1>8. \A v \in Writers : pc'[v] \notin Holding \cup {"renamed"}
    BY <1>2 DEF Holding, Ended
<1>9. powerLosses' # 0
    BY <1>1, <1>4
<1>10. TempIsOwn' /\ NoneForgotten'
    BY <1>8, <1>9 DEF TempIsOwn, NoneForgotten, Holding
<1>11. PastTrue'
    <2>1. ASSUME NEW i \in DOMAIN past', past'[i] \in Writers
          PROVE  pc'[past'[i]] \in {"renamed", "done", "unsynced", "killed"}
        <3>1. pc[past[i]] \in {"renamed", "done", "unsynced", "killed"}
            BY <1>6, <2>1 DEF FileInv, PastTrue
        <3> QED
            BY <1>2, <1>6, <2>1, <3>1 DEF Ended
    <2>2. past' # <<>> /\ dir'[Output] = past'[Len(past')]
        BY <1>5, <1>6
    <2>3. \A d \in durableDirs' : \E i \in DOMAIN past' : past'[i] = d[Output]
        <3>1. k \in DOMAIN past' /\ past'[k] = dir'[Output]
            BY <1>5, <1>6
        <3> QED
            BY <1>4, <3>1
    <2>4. \A i, j \in DOMAIN past' : past'[i] = past'[j] => i = j
        BY <1>6 DEF FileInv, PastTrue
    <2> QED
        BY <1>8, <2>1, <2>2, <2>3, <2>4 DEF PastTrue
<1>12. ReturnedStays'
    <2> SUFFICES ASSUME NEW v \in Writers, pc'[v] = "done"
                 PROVE  \E i \in DOMAIN past' :
                           past'[i] = v /\ NoneBefore(durableDirs', past', i)
        BY DEF ReturnedStays
    <2>1. pc[v] = "done"
        BY <1>2
    <2>2. PICK i \in DOMAIN past : past[i] = v /\ NoneBefore(durableDirs, past, i)
        BY <2>1 DEF FileInv, ReturnedStays
    <2>3. i <= k
        BY <1>4, <1>5, <2>2 DEF NoneBefore
    <2>4. i \in 1 .. k
        BY <1>6, <2>2, <2>3
    <2>5. ASSUME NEW j \in DOMAIN past', dir'[Output] = past'[j]
          PROVE  i <= j
        BY <1>4, <1>6, <2>2, <2>5 DEF NoneBefore
    <2> QED
        BY <1>4, <1>6, <2>2, <2>4, <2>5 DEF NoneBefore
<1>13. BytesFirst'
    <2>1. ASSUME NEW i \in Inodes
          PROVE  durable'[i] <= content'[i] /\ (durable[i] = Size => durable'[i] = Size)
        <3>1. durable[i] \in 0 .. Size /\ content'[i] \in 0 .. Size
            BY <1>1, <1>4
        <3> QED
            BY <1>4, <3>1, SizeAssumption
    <2>2. dir'[Output] # NoFile => dir'[Output] \in Inodes
        BY <1>1, <1>4, TopIsFile
    <2>3. NameAfterContent'
        BY <1>4, <2>1, <2>2 DEF FileInv, BytesFirst, NameAfterContent
    <2> QED
        BY <1>8, <1>9, <2>1, <2>3 DEF BytesFirst, Holding
<1> QED
    BY <1>7, <1>10, <1>11, <1>12, <1>13 DEF FileInv
-----------------------------------------------------------------------------
(* The invariant. *)

LEMMA FileInit == Init => FileInv
<1> SUFFICES ASSUME Init PROVE FileInv
    OBVIOUS
<1>1. /\ pc = [w \in Writers |-> "idle"] /\ attempt = [w \in Writers |-> 0]
      /\ fd = [w \in Writers |-> NoFile] /\ durableDirs = {dir}
      /\ dir = [n \in Names |-> IF n = Output THEN Existing ELSE NoFile]
      /\ content = [i \in Inodes |-> IF i = Old THEN Size ELSE 0]
      /\ durable = content /\ past = <<Existing>> /\ powerLosses = 0
    BY DEF Init
<1>2. /\ Existing \in Inodes \cup {NoFile} /\ Existing \notin Writers
      /\ Existing # NoFile => content[Existing] = Size
    BY <1>1, FilesAssumption DEF Inodes
<1>3. dir[Output] = Existing /\ dir \in Directories
    <2>1. Output \in Names
        BY DEF Names
    <2> QED
        BY <1>1, <1>2, <2>1 DEF Directories
<1>4. OutputTypeOK
    <2>1. /\ content \in [Inodes -> 0 .. Size] /\ durable \in [Inodes -> 0 .. Size]
          /\ attempt \in [Writers -> 0 .. MaxAttempts - 1]
        BY <1>1, SizeAssumption, AttemptsAssumption
    <2> QED
        BY <1>1, <1>2, <1>3, <2>1 DEF OutputTypeOK
<1>5. TempIsOwn /\ ReturnedStays
    BY <1>1 DEF TempIsOwn, ReturnedStays
<1>6. NoneForgotten
    BY <1>1, FilesAssumption DEF NoneForgotten
<1>7. PastTrue
    <2>1. DOMAIN past = {1} /\ past[1] = Existing /\ Len(past) = 1
        BY <1>1
    <2> QED
        BY <1>1, <1>2, <1>3, <2>1 DEF PastTrue
<1>8. BytesFirst
    <2>1. \A i \in Inodes : durable[i] <= content[i]
        BY <1>1, SizeAssumption
    <2>2. NameAfterContent
        BY <1>1, <1>2, <1>3 DEF NameAfterContent
    <2> QED
        BY <1>1, <1>2, <1>3, <2>1, <2>2 DEF BytesFirst
<1> QED
    BY <1>4, <1>5, <1>6, <1>7, <1>8 DEF FileInv

(* Run w works on its own file, which has at most Size pieces. *)
LEMMA OwnFile ==
    ASSUME FileInv, NEW w \in Writers, pc[w] \in Holding
    PROVE  /\ fd[w] = w /\ w \in Inodes
           /\ content[w] \in 0 .. Size /\ durable[w] \in 0 .. Size
<1>1. w \in Inodes
    BY DEF Inodes
<1> QED
    BY <1>1 DEF FileInv, OutputTypeOK, TempIsOwn, Holding

(* DirUntouched when no byte is added or made durable either. *)
LEMMA LabelOnly ==
    ASSUME FileInv, NEW w \in Writers, NEW label \in Labels, Goto(w, label),
           UNCHANGED <<attempt, fd, dirVars, fileVars, powerLosses>>,
           \/ pc[w] \in {"idle", "creating"} /\ label \in {"creating", "failed"}
           \/ pc[w] \in Holding /\ label \in Keeping \ {"flushed", "renaming"}
           \/ label = "killed"
    PROVE  FileInv'
<1>1. /\ attempt' = attempt /\ content' = content /\ durable' = durable
      /\ attempt' \in [Writers -> 0 .. MaxAttempts - 1]
      /\ content' \in [Inodes -> 0 .. Size] /\ durable' \in [Inodes -> 0 .. Size]
    BY DEF fileVars, FileInv, OutputTypeOK
<1>2. \A i \in Inodes : /\ content[i] <= content'[i] /\ durable[i] <= durable'[i]
                        /\ durable'[i] <= content'[i]
    <2> SUFFICES ASSUME NEW i \in Inodes
                 PROVE  /\ content[i] <= content'[i] /\ durable[i] <= durable'[i]
                        /\ durable'[i] <= content'[i]
        OBVIOUS
    <2>1. content[i] \in 0 .. Size /\ durable[i] \in 0 .. Size
        BY <1>1
    <2> QED
        BY <1>1, <2>1, SizeAssumption DEF FileInv, BytesFirst
<1>3. label \notin {"flushed", "renaming"}
    BY DEF Holding, Keeping
<1> QED
    BY <1>1, <1>2, <1>3, DirUntouched

(* A step of run w that writes or syncs its own file. *)
LEMMA OwnFileOnly ==
    ASSUME FileInv, NEW w \in Writers, NEW label \in Labels, Goto(w, label),
           pc[w] \in Holding, label \in Holding,
           NEW c \in 0 .. Size, content[w] <= c, content' = [content EXCEPT ![w] = c],
           NEW e \in 0 .. Size, durable[w] <= e, durable' = [durable EXCEPT ![w] = e],
           e <= c,
           label \in {"flushed", "renaming"} => c = Size,
           label = "renaming" /\ w \notin NoSync => e = Size,
           UNCHANGED <<attempt, fd, dirVars, powerLosses>>
    PROVE  FileInv'
<1>1. /\ attempt' = attempt /\ attempt' \in [Writers -> 0 .. MaxAttempts - 1]
      /\ content \in [Inodes -> 0 .. Size] /\ durable \in [Inodes -> 0 .. Size]
      /\ content' \in [Inodes -> 0 .. Size] /\ durable' \in [Inodes -> 0 .. Size]
      /\ w \in Inodes
    BY OwnFile DEF FileInv, OutputTypeOK
<1>2. \A i \in Inodes : /\ content[i] <= content'[i] /\ durable[i] <= durable'[i]
                        /\ durable'[i] <= content'[i]
    <2> SUFFICES ASSUME NEW i \in Inodes
                 PROVE  /\ content[i] <= content'[i] /\ durable[i] <= durable'[i]
                        /\ durable'[i] <= content'[i]
        OBVIOUS
    <2>1. content[i] \in 0 .. Size /\ durable[i] \in 0 .. Size /\ durable[i] <= content[i]
        BY <1>1 DEF FileInv, BytesFirst
    <2>2. CASE i = w
        BY <1>1, <2>2
    <2>3. CASE i # w
        <3>1. content'[i] = content[i] /\ durable'[i] = durable[i]
            BY <1>1, <2>3
        <3> QED
            BY <2>1, <3>1, SizeAssumption
    <2> QED
        BY <2>2, <2>3
<1>3. content'[w] = c /\ durable'[w] = e
    BY <1>1
<1> QED
    BY <1>1, <1>2, <1>3, DirUntouched DEF Keeping

(* Every step of a run and every loss of power keeps the invariant. *)
LEMMA FileNext == FileInv /\ [Next]_vars => FileInv'
<1> SUFFICES ASSUME FileInv, [Next]_vars PROVE FileInv'
    OBVIOUS
<1>1. /\ pc \in [Writers -> Labels] /\ attempt \in [Writers -> 0 .. MaxAttempts - 1]
      /\ content \in [Inodes -> 0 .. Size] /\ durable \in [Inodes -> 0 .. Size]
    BY DEF FileInv, OutputTypeOK, Labels
<1>2. ASSUME NEW w \in Writers, Start(w) \/ AttemptsExhausted(w) \/ CreateFails(w)
      PROVE  FileInv'
    <2>1. PICK label \in {"creating", "failed"} :
            /\ Goto(w, label) /\ pc[w] \in {"idle", "creating"}
            /\ UNCHANGED <<attempt, fd, dirVars, fileVars, powerLosses>>
        BY <1>2 DEF Start, AttemptsExhausted, CreateFails
    <2>2. label \in Labels
        BY DEF Labels, Ended
    <2> QED
        BY <2>1, <2>2, LabelOnly
<1>3. ASSUME NEW w \in Writers, WrapReturns(w) \/ StepFails(w) \/ RemoveFails(w)
      PROVE  FileInv'
    <2>1. PICK label \in {"wrapped", "failing", "littered"} :
            /\ Goto(w, label)
            /\ pc[w] \in {"writing", "wrapped", "flushed", "renaming", "failing"}
            /\ UNCHANGED <<attempt, fd, dirVars, fileVars, powerLosses>>
        BY <1>3 DEF WrapReturns, StepFails, RemoveFails
    <2>2. /\ label \in Labels /\ pc[w] \in Holding
          /\ label \in Keeping \ {"flushed", "renaming"}
        BY <2>1 DEF Labels, Ended, Holding, Keeping
    <2> QED
        BY <2>1, <2>2, LabelOnly
<1>4. ASSUME NEW w \in Writers, Kill(w)
      PROVE  FileInv'
    <2>1. "killed" \in Labels
        BY DEF Labels, Ended
    <2> QED
        BY <1>4, <2>1, LabelOnly DEF Kill
<1>5. ASSUME NEW w \in Writers, NextAttempt(w)
      PROVE  FileInv'
    <2>1. /\ pc[w] = "creating" /\ attempt' = [attempt EXCEPT ![w] = @ + 1]
          /\ attempt[w] + 1 < MaxAttempts /\ attempt[w] \in 0 .. MaxAttempts - 1
          /\ UNCHANGED <<pc, fd, dirVars, fileVars, powerLosses>>
        BY <1>1, <1>5 DEF NextAttempt
    <2>2. Goto(w, "creating") /\ "creating" \in Labels
        BY <1>1, <2>1 DEF Goto, Labels
    <2>3. attempt' \in [Writers -> 0 .. MaxAttempts - 1]
        BY <1>1, <2>1, AttemptsAssumption
    <2>4. \A v \in Writers : pc[v] \in Keeping => attempt'[v] = attempt[v]
        BY <1>1, <2>1 DEF Holding, Keeping
    <2>5. content' = content /\ durable' = durable
        BY <2>1 DEF fileVars
    <2>6. \A i \in Inodes : /\ content[i] <= content'[i] /\ durable[i] <= durable'[i]
                            /\ durable'[i] <= content'[i]
        <3> SUFFICES ASSUME NEW i \in Inodes
                     PROVE  /\ content[i] <= content'[i] /\ durable[i] <= durable'[i]
                            /\ durable'[i] <= content'[i]
            OBVIOUS
        <3>1. content[i] \in 0 .. Size /\ durable[i] \in 0 .. Size
            BY <1>1
        <3> QED
            BY <2>5, <3>1, SizeAssumption DEF FileInv, BytesFirst
    <2> QED
        BY <1>1, <2>1, <2>2, <2>3, <2>4, <2>5, <2>6, DirUntouched
<1>6. ASSUME NEW w \in Writers, CreateTemp(w)
      PROVE  FileInv'
    <2>1. "writing" \in Labels
        BY DEF Labels
    <2> QED
        BY <1>6, <2>1, TempChanges DEF CreateTemp
<1>7. ASSUME NEW w \in Writers, RemoveTemp(w)
      PROVE  FileInv'
    <2>1. "failed" \in Labels
        BY DEF Labels, Ended
    <2> QED
        BY <1>7, <2>1, TempChanges DEF RemoveTemp
<1>8. ASSUME NEW w \in Writers, Write(w)
      PROVE  FileInv'
    <2>1. pc[w] = "writing" /\ pc[w] \in Holding
        BY <1>8 DEF Write, Holding
    <2>2. /\ fd[w] = w /\ content[w] \in 0 .. Size /\ durable[w] \in 0 .. Size
          /\ durable[w] <= content[w]
        BY <2>1, OwnFile DEF FileInv, BytesFirst
    <2>3. /\ content[w] < Size /\ content' = [content EXCEPT ![w] = content[w] + 1]
          /\ durable' = durable /\ UNCHANGED <<pc, attempt, fd, dirVars, powerLosses>>
        BY <1>8, <2>2 DEF Write
    <2>4. /\ content[w] + 1 \in 0 .. Size /\ content[w] <= content[w] + 1
          /\ durable[w] <= content[w] + 1 /\ durable[w] <= durable[w]
        BY <2>2, <2>3, SizeAssumption
    <2>5. Goto(w, "writing") /\ "writing" \in Labels /\ "writing" \in Holding
        BY <1>1, <2>1, <2>3 DEF Goto, Labels, Holding
    <2>6. durable' = [durable EXCEPT ![w] = durable[w]]
        BY <1>1, <2>3
    <2>7. /\ content' = [content EXCEPT ![w] = content[w] + 1]
          /\ UNCHANGED <<attempt, fd, dirVars, powerLosses>>
        BY <2>3
    <2> QED
        BY <2>1, <2>2, <2>4, <2>5, <2>6, <2>7, OwnFileOnly
<1>9. ASSUME NEW w \in Writers, Flush(w)
      PROVE  FileInv'
    <2>1. pc[w] = "wrapped" /\ pc[w] \in Holding
        BY <1>9 DEF Flush, Holding
    <2>2. /\ fd[w] = w /\ content[w] \in 0 .. Size /\ durable[w] \in 0 .. Size
        BY <2>1, OwnFile
    <2>3. PICK label \in {"renaming", "flushed"} :
            Goto(w, label) /\ (label = "renaming" <=> w \in NoSync)
        BY <1>9 DEF Flush
    <2>4. /\ content' = [content EXCEPT ![w] = Size] /\ durable' = durable
          /\ UNCHANGED <<attempt, fd, dirVars, powerLosses>>
        BY <1>9, <2>2 DEF Flush
    <2>5. /\ Size \in 0 .. Size /\ content[w] <= Size
          /\ durable[w] <= Size /\ durable[w] <= durable[w]
        BY <2>2, SizeAssumption
    <2>6. label \in Labels /\ label \in Holding
        BY DEF Labels, Holding
    <2>7. durable' = [durable EXCEPT ![w] = durable[w]]
        BY <1>1, <2>4
    <2> QED
        BY <2>1, <2>2, <2>3, <2>4, <2>5, <2>6, <2>7, OwnFileOnly
<1>10. ASSUME NEW w \in Writers, SyncFile(w)
      PROVE  FileInv'
    <2>1. pc[w] = "flushed" /\ pc[w] \in Holding
        BY <1>10 DEF SyncFile, Holding
    <2>2. /\ fd[w] = w /\ durable[w] \in 0 .. Size /\ content[w] = Size
        BY <2>1, OwnFile DEF FileInv, BytesFirst
    <2>3. /\ durable' = [durable EXCEPT ![w] = Size] /\ content' = content
          /\ Goto(w, "renaming")
          /\ UNCHANGED <<attempt, fd, dirVars, powerLosses>>
        BY <1>10, <2>2 DEF SyncFile
    <2>4. Size \in 0 .. Size /\ content[w] <= Size /\ durable[w] <= Size /\ Size <= Size
        BY <2>2, SizeAssumption
    <2>5. "renaming" \in Labels /\ "renaming" \in Holding
        BY DEF Labels, Holding
    <2>6. content' = [content EXCEPT ![w] = Size]
        BY <1>1, <2>2, <2>3
    <2> QED
        BY <2>1, <2>2, <2>3, <2>4, <2>5, <2>6, OwnFileOnly
<1>11. CASE UNCHANGED vars
    BY <1>11 DEF vars, dirVars, fileVars, FileInv, OutputTypeOK, TempIsOwn, NoneForgotten,
        PastTrue, ReturnedStays, BytesFirst, NameAfterContent, TempPath
<1> QED
    BY <1>2, <1>3, <1>4, <1>5, <1>6, <1>7, <1>8, <1>9, <1>10, <1>11,
        RenameStep, SyncDirStep, PowerLossStep DEF Next, Step, Fail

(* FileInv is an invariant of wrap_to_output_file. *)
THEOREM FileInvariant == Spec => []FileInv
BY FileInit, FileNext, PTL DEF Spec

(* The variables of OutputFile keep their types. *)
THEOREM TypeTheorem == Spec => []OutputTypeOK
<1>1. FileInv => OutputTypeOK
    BY DEF FileInv
<1> QED
    BY <1>1, FileInvariant, PTL

(* A temporary name in use leads to the file of the run that created it, even
   when process ids are equal. *)
THEOREM TempTheorem == Spec => []TempIsOwn
<1>1. FileInv => TempIsOwn
    BY DEF FileInv
<1> QED
    BY <1>1, FileInvariant, PTL

(* No name is durable before the bytes it leads to, unless published with
   --no-sync. *)
THEOREM NameTheorem == Spec => []NameAfterContent
<1>1. FileInv => NameAfterContent
    BY DEF FileInv, BytesFirst
<1> QED
    BY <1>1, FileInvariant, PTL

(* What is at the output path is a complete archive, unless power was lost
   after it had been published with --no-sync. *)
THEOREM CompleteTheorem == Spec => []OutputComplete
<1>1. FileInv => OutputComplete
    <2> SUFFICES ASSUME FileInv, dir[Output] # NoFile
                 PROVE  \/ content[dir[Output]] = Size
                        \/ dir[Output] \in NoSync /\ powerLosses > 0
        BY DEF OutputComplete
    <2> DEFINE f == dir[Output]
    <2>1. dir \in durableDirs /\ dir \in Directories /\ powerLosses \in Nat
        BY DEF FileInv, OutputTypeOK
    <2>2. f \in Inodes
        BY <2>1, TopIsFile
    <2>3. content[f] \in 0 .. Size /\ durable[f] \in 0 .. Size /\ durable[f] <= content[f]
        BY <2>2 DEF FileInv, OutputTypeOK, BytesFirst
    <2>4. CASE f \notin NoSync
        <3>1. durable[f] = Size
            BY <2>1, <2>4 DEF FileInv, BytesFirst, NameAfterContent
        <3> QED
            BY <2>3, <3>1, SizeAssumption
    <2>5. CASE f \in NoSync /\ powerLosses = 0
        BY <2>1, <2>5 DEF FileInv, BytesFirst
    <2>6. CASE f \in NoSync /\ powerLosses # 0
        BY <2>1, <2>6
    <2> QED
        BY <2>4, <2>5, <2>6
<1> QED
    BY <1>1, FileInvariant, PTL

(* A run that returned, with or without an error, leaves no temporary file,
   except the last one it created when removing that one failed too (`let _ =
   fs::remove_file`). *)
THEOREM LeftoverTheorem == Spec => []NoLeftovers
<1>1. FileInv => NoLeftovers
    BY DEF FileInv, NoneForgotten, NoLeftovers, Holding, Keeping
<1> QED
    BY <1>1, FileInvariant, PTL
-----------------------------------------------------------------------------
(* The oldest state that a loss of power may bring back. *)

(* What Safe chooses. *)
IsSafe(i) ==
    /\ \E d \in durableDirs : d[Output] = past[i]
    /\ NoneBefore(durableDirs, past, i)

(* Safe is an index with that property: a finite, nonempty set of indices of
   states that may come back has a least element. *)
LEMMA SafeFacts ==
    ASSUME FileInv
    PROVE  Safe \in DOMAIN past /\ IsSafe(Safe)
<1> DEFINE T == {i \in DOMAIN past : \E d \in durableDirs : d[Output] = past[i]}
<1>1. DOMAIN past \subseteq Nat /\ dir \in durableDirs
    BY DEF FileInv, OutputTypeOK
<1>2. T # {} /\ T \subseteq Nat
    <2>1. PICK i \in DOMAIN past : past[i] = dir[Output]
        BY <1>1 DEF FileInv, PastTrue
    <2> QED
        BY <1>1, <2>1
<1> HIDE DEF T
<1>3. PICK x \in T : \A y \in T : ~(<<y, x>> \in OpToRel(<, Nat))
    BY <1>2, WFMin, NatLessThanWellFounded, Zenon
<1>4. x \in DOMAIN past /\ \E d \in durableDirs : d[Output] = past[x]
    BY <1>3 DEF T
<1>5. ASSUME NEW d \in durableDirs, NEW j \in DOMAIN past, d[Output] = past[j]
      PROVE  x <= j
    <2>1. j \in T
        BY <1>5 DEF T
    <2>2. x \in Nat /\ j \in Nat
        BY <1>2, <1>3, <2>1
    <2>3. ~(j < x)
        BY <1>3, <2>1, <2>2 DEF OpToRel
    <2> QED
        BY <2>2, <2>3
<1>6. IsSafe(x)
    BY <1>4, <1>5 DEF IsSafe, NoneBefore
<1>7. Safe = CHOOSE i \in DOMAIN past : IsSafe(i)
    BY DEF Safe, IsSafe, NoneBefore
<1> QED
    BY <1>4, <1>6, <1>7

(* Only one index has it. *)
LEMMA SafeUnique ==
    ASSUME FileInv, NEW i \in DOMAIN past, IsSafe(i)
    PROVE  Safe = i
<1>1. Safe \in DOMAIN past /\ IsSafe(Safe)
    BY SafeFacts
<1>2. Safe <= i /\ i <= Safe
    BY <1>1 DEF IsSafe, NoneBefore
<1>3. DOMAIN past \subseteq Nat
    BY DEF FileInv, OutputTypeOK
<1> QED
    BY <1>1, <1>2, <1>3

(* The archive of a run that returned without the warning is at or before the
   oldest state that can come back. *)
THEOREM ReturnedTheorem == Spec => []ReturnedIsSafe
<1>1. FileInv => ReturnedIsSafe
    <2> SUFFICES ASSUME FileInv, NEW w \in Writers, pc[w] = "done"
                 PROVE  \E i \in 1 .. Safe : past[i] = w
        BY DEF ReturnedIsSafe
    <2>1. PICK i \in DOMAIN past : past[i] = w /\ NoneBefore(durableDirs, past, i)
        BY DEF FileInv, ReturnedStays
    <2>2. Safe \in DOMAIN past /\ IsSafe(Safe)
        BY SafeFacts
    <2>3. i <= Safe
        BY <2>1, <2>2 DEF IsSafe, NoneBefore
    <2>4. DOMAIN past = 1 .. Len(past) /\ Len(past) \in Nat
        BY DEF FileInv, OutputTypeOK
    <2> QED
        BY <2>1, <2>2, <2>3, <2>4
<1> QED
    BY <1>1, FileInvariant, PTL
-----------------------------------------------------------------------------
(* Refinement. *)

(* The facts about Safe, in the next state. *)
LEMMA SafeNext ==
    /\ FileInv' => Safe' \in DOMAIN past' /\ IsSafe(Safe)'
    /\ FileInv' => (\A i \in DOMAIN past : IsSafe(i) => Safe = i)'
<1>1. FileInv => Safe \in DOMAIN past /\ IsSafe(Safe)
    BY SafeFacts
<1>2. FileInv => \A i \in DOMAIN past : IsSafe(i) => Safe = i
    BY SafeUnique
<1>3. FileInv' => (Safe \in DOMAIN past /\ IsSafe(Safe))'
    BY <1>1, PTL
<1>4. FileInv' => (\A i \in DOMAIN past : IsSafe(i) => Safe = i)'
    BY <1>2, PTL
<1> QED
    BY <1>3, <1>4

(* A step is not seen at the output path when it changes neither what is there
   nor what may come back. *)
LEMMA Quiet ==
    ASSUME FileInv, FileInv', past' = past, dir'[Output] = dir[Output],
           dir[Output] # NoFile => content'[dir[Output]] = content[dir[Output]],
           \A d \in durableDirs : \E e \in durableDirs' : d[Output] = e[Output],
           \A d \in durableDirs' : \E e \in durableDirs : d[Output] = e[Output]
    PROVE  UNCHANGED <<Visible, past, Safe>>
<1>1. Safe \in DOMAIN past /\ IsSafe(Safe)
    BY SafeFacts
<1>2. (\E d \in durableDirs' : d[Output] = past'[Safe])
    BY <1>1 DEF IsSafe
<1>3. NoneBefore(durableDirs', past', Safe)
    BY <1>1 DEF IsSafe, NoneBefore
<1>4. Safe' = Safe
    BY <1>1, <1>2, <1>3, SafeNext DEF IsSafe
<1>5. Visible' = Visible
    BY DEF Visible
<1> QED
    BY <1>4, <1>5

(* Publish: the run that renames shows its archive, complete. *)
LEMMA RenamePublishes ==
    ASSUME FileInv, FileInv', NEW w \in Writers, Rename(w)
    PROVE  Publishing!Publish
<1>1. /\ dir \in Directories /\ past \in Seq(Inodes \cup {NoFile})
      /\ attempt \in [Writers -> 0 .. MaxAttempts - 1]
      /\ content \in [Inodes -> 0 .. Size]
    BY DEF FileInv, OutputTypeOK
<1>2. /\ Output \in Names /\ TempPath(w) \in Names /\ TempPath(w) # Output
      /\ w \in Inodes /\ w # NoFile
    BY <1>1, NameFacts
<1>3. pc[w] = "renaming" /\ dir[TempPath(w)] = w
    BY DEF Rename, FileInv, TempIsOwn
<1>4. /\ dir' = [dir EXCEPT ![Output] = w, ![TempPath(w)] = NoFile]
      /\ durableDirs' = durableDirs \cup {dir'} /\ content' = content
    BY <1>3 DEF Rename, fileVars, SetDir
<1>5. dir'[Output] = w
    BY <1>1, <1>2, <1>4 DEF Directories
<1>6. past' = Append(past, w)
    BY <1>5 DEF Rename
<1>7. \A i \in DOMAIN past : past[i] # w
    BY <1>3 DEF FileInv, PastTrue
<1>8. Visible' = w
    <2>1. content[w] = Size
        BY <1>3 DEF FileInv, BytesFirst
    <2> QED
        BY <1>4, <1>5, <2>1, SizeAssumption DEF Visible
<1>9. Safe' = Safe
    <2>1. Safe \in DOMAIN past /\ IsSafe(Safe)
        BY SafeFacts
    <2>2. /\ DOMAIN past = 1 .. Len(past) /\ DOMAIN past' = 1 .. Len(past) + 1
          /\ \A i \in DOMAIN past : past'[i] = past[i]
          /\ Len(past) \in Nat
        BY <1>1, <1>2, <1>6
    <2>3. Safe \in DOMAIN past' /\ \E d \in durableDirs' : d[Output] = past'[Safe]
        <3>1. past'[Safe] = past[Safe] /\ Safe \in DOMAIN past'
            BY <2>1, <2>2
        <3> QED
            BY <1>4, <2>1, <3>1 DEF IsSafe
    <2>4. ASSUME NEW d \in durableDirs', NEW j \in DOMAIN past', d[Output] = past'[j]
          PROVE  Safe <= j
        <3>1. CASE j \in DOMAIN past
            <4>1. past'[j] = past[j] /\ past[j] # w
                BY <1>7, <2>2, <3>1
            <4>2. d \in durableDirs
                BY <1>4, <1>5, <2>4, <4>1
            <4> QED
                BY <2>1, <2>4, <3>1, <4>1, <4>2 DEF IsSafe, NoneBefore
        <3>2. CASE j \notin DOMAIN past
            BY <2>1, <2>2, <3>2
        <3> QED
            BY <3>1, <3>2
    <2> QED
        BY <2>3, <2>4, SafeNext DEF IsSafe, NoneBefore
<1> QED
    BY <1>6, <1>7, <1>8, <1>9 DEF Publishing!Publish

(* Confirm: once the directory is synced, only the last state can come back. *)
LEMMA SyncConfirms ==
    ASSUME FileInv, FileInv', NEW w \in Writers, SyncDir(w)
    PROVE  Publishing!Confirm \/ UNCHANGED <<Visible, past, Safe>>
<1>1. dir' = dir /\ past' = past /\ content' = content
    BY DEF SyncDir, fileVars
<1>2. CASE UNCHANGED durableDirs
    BY <1>1, <1>2, Quiet
<1>3. CASE durableDirs' = {dir}
    <2>1. Len(past) \in DOMAIN past /\ dir[Output] = past[Len(past)]
        BY DEF FileInv, OutputTypeOK, PastTrue
    <2>2. ASSUME NEW j \in DOMAIN past, dir[Output] = past[j]
          PROVE  Len(past) <= j
        <3>1. past[j] = past[Len(past)]
            BY <2>1, <2>2
        <3>2. j = Len(past)
            BY <2>1, <3>1 DEF FileInv, PastTrue
        <3>3. Len(past) \in Nat
            BY DEF FileInv, OutputTypeOK
        <3> QED
            BY <3>2, <3>3
    <2>3. Safe' = Len(past)
        BY <1>1, <1>3, <2>1, <2>2, SafeNext DEF IsSafe, NoneBefore
    <2> QED
        BY <1>1, <2>3 DEF Publishing!Confirm, Visible
<1> QED
    BY <1>2, <1>3 DEF SyncDir

(* LosePower: what comes back is no older than Safe, and complete unless it was
   published without a sync. *)
LEMMA PowerLossLoses ==
    ASSUME FileInv, FileInv', PowerLoss
    PROVE  Publishing!LosePower
<1> DEFINE k == IndexOf(dir'[Output])
<1>1. /\ dir' \in durableDirs /\ durableDirs' = {dir'}
      /\ past' = SubSeq(past, 1, k)
      /\ content' \in [Inodes -> 0 .. Size]
      /\ \A i \in Inodes : durable[i] <= content'[i]
    BY DEF PowerLoss
<1>2. k \in DOMAIN past /\ past[k] = dir'[Output]
    BY <1>1, IndexFacts DEF FileInv
<1> HIDE DEF k
<1>3. /\ past \in Seq(Inodes \cup {NoFile}) /\ durableDirs \subseteq Directories
      /\ durable \in [Inodes -> 0 .. Size]
    BY DEF FileInv, OutputTypeOK
<1>4. /\ k \in Nat \ {0} /\ k <= Len(past) /\ Len(past) \in Nat
      /\ DOMAIN past = 1 .. Len(past) /\ DOMAIN past' = 1 .. k
      /\ \A i \in 1 .. k : past'[i] = past[i] /\ i \in DOMAIN past
    BY <1>1, <1>2, <1>3
<1>5. k \in Safe .. Len(past)
    <2>1. Safe \in DOMAIN past /\ IsSafe(Safe)
        BY SafeFacts
    <2>2. Safe <= k
        BY <1>1, <1>2, <2>1 DEF IsSafe, NoneBefore
    <2> QED
        BY <1>4, <2>1, <2>2
<1>6. Safe' = k
    <2>1. k \in DOMAIN past' /\ dir'[Output] = past'[k]
        BY <1>2, <1>4
    <2>2. ASSUME NEW j \in DOMAIN past', dir'[Output] = past'[j]
          PROVE  k <= j
        <3>1. j \in DOMAIN past /\ past[j] = past[k]
            BY <1>2, <1>4, <2>2
        <3>2. j = k
            BY <1>2, <3>1 DEF FileInv, PastTrue
        <3> QED
            BY <1>4, <3>2
    <2> QED
        BY <1>1, <2>1, <2>2, SafeNext DEF IsSafe, NoneBefore
<1>7. \/ Visible' = past[k]
      \/ past[k] \in NoSync /\ Visible' = Partial
    <2>1. CASE past[k] = NoFile \/ past[k] \in NoSync
        BY <1>2, <2>1 DEF Visible
    <2>2. CASE past[k] \notin NoSync \cup {NoFile}
        <3>1. dir'[Output] \in Inodes /\ durable[dir'[Output]] = Size
            BY <1>1, <1>2, <1>3, <2>2, TopIsFile DEF FileInv, BytesFirst, NameAfterContent
        <3>2. content'[dir'[Output]] \in 0 .. Size /\ Size <= content'[dir'[Output]]
            BY <1>1, <3>1
        <3> QED
            BY <1>2, <3>2, SizeAssumption DEF Visible
    <2> QED
        BY <2>1, <2>2
<1> QED
    BY <1>1, <1>5, <1>6, <1>7 DEF Publishing!LosePower

(* Every step of OutputFile is a step of AtomicPublish, or is not seen. *)
LEMMA PublishStep ==
    ASSUME FileInv, FileInv', [Next]_vars
    PROVE  \/ Publishing!Publish \/ Publishing!Confirm \/ Publishing!LosePower
           \/ UNCHANGED <<Visible, past, Safe>>
<1>1. ASSUME UNCHANGED dirVars, UNCHANGED content
      PROVE  UNCHANGED <<Visible, past, Safe>>
    <2>1. dir' = dir /\ durableDirs' = durableDirs /\ past' = past /\ content' = content
        BY <1>1 DEF dirVars
    <2> QED
        BY <2>1, Quiet
<1>2. ASSUME NEW w \in Writers, Write(w) \/ Flush(w)
      PROVE  UNCHANGED <<Visible, past, Safe>>
    <2>1. pc[w] \in {"writing", "wrapped"} /\ pc[w] \in Holding /\ UNCHANGED dirVars
        BY <1>2 DEF Write, Flush, Holding
    <2>2. fd[w] = w
        BY <2>1, OwnFile
    <2>3. \E c : content' = [content EXCEPT ![w] = c]
        BY <1>2, <2>2 DEF Write, Flush
    <2>4. dir[Output] # w
        <3>1. Len(past) \in DOMAIN past /\ dir[Output] = past[Len(past)]
            BY DEF FileInv, OutputTypeOK, PastTrue
        <3> QED
            BY <2>1, <3>1 DEF FileInv, PastTrue
    <2>5. dir[Output] # NoFile => content'[dir[Output]] = content[dir[Output]]
        <3>1. dir \in Directories /\ content \in [Inodes -> 0 .. Size]
            BY DEF FileInv, OutputTypeOK
        <3>2. dir[Output] # NoFile => dir[Output] \in Inodes
            BY <3>1, TopIsFile
        <3> QED
            BY <2>3, <2>4, <3>1, <3>2
    <2>6. dir' = dir /\ durableDirs' = durableDirs /\ past' = past
        BY <2>1 DEF dirVars
    <2> QED
        BY <2>5, <2>6, Quiet
<1>3. ASSUME NEW w \in Writers, CreateTemp(w) \/ RemoveTemp(w)
      PROVE  UNCHANGED <<Visible, past, Safe>>
    <2>1. PICK f : dir' = [dir EXCEPT ![TempPath(w)] = f] /\ durableDirs' = durableDirs \cup {dir'}
        BY <1>3 DEF CreateTemp, RemoveTemp, SetDir
    <2>2. /\ dir \in Directories /\ dir \in durableDirs
          /\ attempt \in [Writers -> 0 .. MaxAttempts - 1]
        BY DEF FileInv, OutputTypeOK
    <2>3. TempPath(w) # Output /\ Output \in Names
        BY <2>2, NameFacts
    <2>4. dir'[Output] = dir[Output]
        BY <2>1, <2>2, <2>3 DEF Directories
    <2>5. /\ \A d \in durableDirs : \E e \in durableDirs' : d[Output] = e[Output]
          /\ \A d \in durableDirs' : \E e \in durableDirs : d[Output] = e[Output]
        BY <2>1, <2>2, <2>4
    <2>6. past' = past /\ content' = content
        BY <1>3 DEF CreateTemp, RemoveTemp, fileVars
    <2> QED
        BY <2>4, <2>5, <2>6, Quiet
<1>4. ASSUME NEW w \in Writers,
             \/ Start(w) \/ NextAttempt(w) \/ AttemptsExhausted(w) \/ WrapReturns(w)
             \/ SyncFile(w) \/ Fail(w)
      PROVE  UNCHANGED <<Visible, past, Safe>>
    <2>1. UNCHANGED dirVars /\ UNCHANGED content
        BY <1>4 DEF Start, NextAttempt, AttemptsExhausted, WrapReturns, SyncFile,
            Fail, CreateFails, StepFails, RemoveFails, Kill, fileVars
    <2> QED
        BY <1>1, <2>1
<1>5. CASE UNCHANGED vars
    BY <1>1, <1>5 DEF vars, fileVars
<1> QED
    BY <1>2, <1>3, <1>4, <1>5, RenamePublishes, SyncConfirms, PowerLossLoses
    DEF Next, Step

(* `wrap -f` implements AtomicPublish: what is at the output path changes only
   from one complete archive to another, and what is confirmed stays. *)
THEOREM PublishTheorem == Spec => PublishesAtomically
<1>1. Init => Publishing!PubInit
    <2> SUFFICES ASSUME Init PROVE Publishing!PubInit
        OBVIOUS
    <2>1. FileInv
        BY FileInit
    <2>2. /\ past = <<Existing>> /\ durableDirs = {dir}
          /\ DOMAIN past = {1} /\ Len(past) = 1 /\ past[1] = Existing
        BY DEF Init
    <2>3. dir[Output] = Existing
        BY <2>1, <2>2 DEF FileInv, PastTrue
    <2>4. IsSafe(1)
        BY <2>2, <2>3 DEF IsSafe, NoneBefore
    <2>5. Safe = 1
        BY <2>1, <2>2, <2>4, SafeUnique
    <2>6. Existing # NoFile => content[Existing] = Size
        BY FilesAssumption DEF Init, Inodes
    <2>7. Visible = Existing
        BY <2>3, <2>6, SizeAssumption DEF Visible
    <2> QED
        BY <2>2, <2>5, <2>7 DEF Publishing!PubInit
<1>2. FileInv /\ FileInv' /\ [Next]_vars
        => [Publishing!Publish \/ Publishing!Confirm \/ Publishing!LosePower]_<<Visible, past, Safe>>
    BY PublishStep
<1> QED
    BY <1>1, <1>2, FileInit, FileNext, PTL
    DEF Spec, PublishesAtomically, Publishing!PublishSpec, Publishing!pubVars
=============================================================================
