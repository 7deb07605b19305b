------------------------------- MODULE MCWrap -------------------------------
(* Small values of the constants of Wrap.  Blocks have two bytes, so a size
   may be padded; the chunk size of a run decides how regions are cut. *)
EXTENDS Wrap

MCInputLens == {14, 25}
MCGlobalSizes == {4}
MCHeaders ==
    {[lead |-> 0, kind |-> "Other", map |-> 0, size |-> 0],
     [lead |-> 0, kind |-> "File", map |-> 0, size |-> 1],
     [lead |-> 2, kind |-> "File", map |-> 0, size |-> 2],
     [lead |-> 2, kind |-> "File", map |-> 0, size |-> 9],
     [lead |-> 0, kind |-> "Sparse", map |-> 2, size |-> 1],
     [lead |-> 4, kind |-> "Sparse", map |-> 2, size |-> 3]}
MCFrameSizes == {2}
MCTocSizes == {[json |-> 20, payload |-> 6], [json |-> 20, payload |-> 9]}

(* A stream with at most small members and a long tail of zero blocks; global
   headers, which the window collects as well, do not come into it. *)
MCTailLens == {60}
MCTailGlobals == {}
MCTailHeaders == {[lead |-> 0, kind |-> "File", map |-> 0, size |-> 1]}
=============================================================================
