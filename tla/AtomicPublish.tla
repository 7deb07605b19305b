---------------------------- MODULE AtomicPublish ----------------------------
(***************************************************************************)
(* What `tarzan wrap -f FILE` promises of the output path: whoever looks   *)
(* there finds what was there before or a complete new archive, never a    *)
(* partial one; what a run has confirmed survives a loss of power.  Only   *)
(* an archive that was published without a sync (Risky) may be found       *)
(* partial, and only after a loss of power.                                *)
(***************************************************************************)
EXTENDS Naturals, Sequences

CONSTANTS Archives, Before, Risky, Partial

VARIABLES
    visible, \* what is at the output path
    past,    \* what has been there, oldest first, without what was lost
    safe     \* index into past: no older state can come back

pubVars == <<visible, past, safe>>

PubInit == visible = Before /\ past = <<Before>> /\ safe = 1

Publish == \E a \in Archives :
    /\ \A i \in DOMAIN past : past[i] # a
    /\ visible' = a
    /\ past' = Append(past, a)
    /\ UNCHANGED safe

Confirm == safe' = Len(past) /\ UNCHANGED <<visible, past>>

LosePower == \E i \in safe .. Len(past) :
    /\ \/ visible' = past[i]
       \/ past[i] \in Risky /\ visible' = Partial
    /\ past' = SubSeq(past, 1, i)
    /\ safe' = i

PublishSpec == PubInit /\ [][Publish \/ Confirm \/ LosePower]_pubVars
=============================================================================
