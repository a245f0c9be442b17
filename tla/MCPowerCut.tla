----------------------------- MODULE MCPowerCut -----------------------------
(***************************************************************************)
(* What the documentation promises of a power failure in the middle of a   *)
(* save, against Persist: the region is then as it was, or as it should    *)
(* be.  `before` is what a load would have found when the save began.      *)
(***************************************************************************)
EXTENDS MCPersist

VARIABLE before

WithBefore == Init /\ before = None

Remembers ==
  /\ Next
  /\ before' = IF Idle /\ saving' # None THEN Content(saving'.region) ELSE before

PowerCutSpec == WithBefore /\ [][Remembers]_<<vars, before>>

(* bsp/flash/README.md: a power failure in the middle of a save "results   *)
(* in either old or new content on next load, never a third state".        *)
OldOrNew ==
  [][\A v \in Versions, r \in Regions :
       Reset(v) /\ ~Idle /\ r = saving.region
         => Content(r)' \in {before, saving.saved}]_<<vars, before>>
=============================================================================
