------------------------------ MODULE MCReader ------------------------------
(* Archives with shared frames, members of several chunks, extension headers
   longer than a chunk, and any damage. *)
EXTENDS Reader

MCInputLens == {16}
MCGlobalSizes == {4}
MCHeaders ==
    {[lead |-> 0, kind |-> "Other", map |-> 0, size |-> 0],
     [lead |-> 0, kind |-> "File", map |-> 0, size |-> 1],
     [lead |-> 2, kind |-> "File", map |-> 0, size |-> 0],
     [lead |-> 0, kind |-> "File", map |-> 0, size |-> 9],
     [lead |-> 4, kind |-> "File", map |-> 0, size |-> 3]}
MCFrameSizes == {1}
MCTocSizes == {[json |-> 20, payload |-> 6]}
MCAnyToc == {[json |-> 20, payload |-> 6], [json |-> 30, payload |-> 8]}
MCSlips == {-3, -1, 1}
MCMetaDamages == {{}} \cup {{d} : d \in DamageKinds}
=============================================================================
