---------------------------- MODULE DurableVolume ----------------------------
(***************************************************************************)
(* What a Nuvora data volume promises, without slots, blocks, caches or    *)
(* headers.  `work' is what programs see, `stable' what the last           *)
(* acknowledged save (NV_CTL_SYNC) or the last boot left behind, and       *)
(* `offered' holds the contents of a save whose outcome is still open.     *)
(*                                                                         *)
(*  - A save is all or nothing: a power loss leaves exactly `stable' or    *)
(*    exactly the one offered content, never a mixture.                    *)
(*  - An acknowledged save is never lost.                                  *)
(*  - A boot shows exactly what the power loss left.                       *)
(*  - A save whose outcome is unknown freezes the volume until a boot has  *)
(*    settled it.                                                          *)
(***************************************************************************)
EXTENDS FiniteSets

CONSTANTS
    Content,    \* everything a volume can hold
    Nothing     \* the contents of an empty volume

VARIABLES
    mode,       \* "off", "live" or "frozen"
    work,       \* contents the running system shows
    stable,     \* contents no power loss can take away
    offered     \* {} or the contents of the save in progress

vars == <<mode, work, stable, offered>>

TypeOK ==
    /\ mode \in {"off", "live", "frozen"}
    /\ work \in Content
    /\ stable \in Content
    /\ offered \in SUBSET Content

Init ==
    /\ mode = "off"
    /\ work = Nothing
    /\ stable = Nothing
    /\ offered = {}

\* A program changes files; not while a save is being published.
Edit ==
    /\ mode = "live"
    /\ offered = {}
    /\ work' \in Content
    /\ UNCHANGED <<mode, stable, offered>>

\* The commit record is handed to the drive: from now on it may survive.
Offer ==
    /\ mode = "live"
    /\ offered = {}
    /\ offered' = {work}
    /\ mode' \in {"live", "frozen"}
    /\ UNCHANGED <<work, stable>>

\* The save is acknowledged to the program that asked for it.
Acknowledge ==
    /\ mode = "live"
    /\ offered = {work}
    /\ stable' = work
    /\ offered' = {}
    /\ UNCHANGED <<mode, work>>

\* The drive did not confirm the commit record.
Doubt ==
    /\ mode = "live"
    /\ offered = {work}
    /\ mode' = "frozen"
    /\ UNCHANGED <<work, stable, offered>>

PowerLoss ==
    /\ mode # "off"
    /\ mode' = "off"
    /\ work' = Nothing
    /\ stable' \in {stable} \cup offered
    /\ offered' = {}

Boot ==
    /\ mode = "off"
    /\ mode' = "live"
    /\ work' = stable
    /\ UNCHANGED <<stable, offered>>

\* Not enough memory to restore: nothing is shown, nothing can be changed.
BootFrozen ==
    /\ mode = "off"
    /\ mode' = "frozen"
    /\ work' = Nothing
    /\ UNCHANGED <<stable, offered>>

Next ==
    \/ Edit \/ Offer \/ Acknowledge \/ Doubt
    \/ PowerLoss \/ Boot \/ BootFrozen

Spec == Init /\ [][Next]_vars
=============================================================================
