--------------------------- MODULE LosslessStream ---------------------------
(***************************************************************************)
(* What an archive promises of the tar stream it was made from: decoding   *)
(* what has been written gives a prefix of the stream, the prefix only     *)
(* ever grows, and a file is sealed as an archive, once, when the prefix   *)
(* is the whole stream.  lib.rs: "The decompressed tar stream is           *)
(* bit-for-bit identical to the original."                                 *)
(***************************************************************************)
EXTENDS Integers

CONSTANT Totals \* possible lengths of a stream

VARIABLES
    total,  \* length of the stream
    coded,  \* length of the prefix that decoding gives back
    sealed  \* has the file become an archive?

LosslessInit ==
    /\ total \in Totals
    /\ coded = 0
    /\ sealed = FALSE

Extend ==
    /\ ~sealed
    /\ coded' \in coded + 1 .. total
    /\ UNCHANGED <<total, sealed>>

Seal ==
    /\ ~sealed
    /\ coded = total
    /\ sealed' = TRUE
    /\ UNCHANGED <<total, coded>>

LosslessNext == Extend \/ Seal

LosslessSpec == LosslessInit /\ [][LosslessNext]_<<total, coded, sealed>>
=============================================================================
