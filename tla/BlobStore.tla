----------------------------- MODULE BlobStore ------------------------------
(***************************************************************************)
(* What persist.h promises: each region holds one blob with the version of *)
(* its writer, or nothing.  A save replaces it; while it lasts, and when   *)
(* it is cut short, the region has nothing or one of the saves tried since *)
(* the last that was done, that one included: never a mixture.  (A save    *)
(* that failed may show up later: the erase of the next one can give its   *)
(* missing word the value it wanted.)                                      *)
(* What a successful save left stays until the next save of that region.   *)
(* (The READMEs promise old or new content at any time: see MCPowerCut.)   *)
(***************************************************************************)
CONSTANTS Regions, Blobs, Versions, None

VARIABLES
  content,   \* what a load of each region would find
  writing,   \* the save under way
  kept,      \* what the last save left, from its success to the next save
  tried      \* the last save that was done, and those begun since

vars == <<content, writing, kept, tried>>

Saved == [blob : Blobs, version : Versions]

Init ==
  /\ content = [r \in Regions |-> None]
  /\ writing = None
  /\ kept = [r \in Regions |-> None]
  /\ tried = [r \in Regions |-> {}]

Begin(r, s) ==
  /\ writing = None
  /\ writing' = [region |-> r, saved |-> s]
  /\ kept' = [kept EXCEPT ![r] = None]
  /\ tried' = [tried EXCEPT ![r] = @ \union {s}]
  /\ UNCHANGED content

Shown == content' \in
  {content} \union
  {[content EXCEPT ![writing.region] = s] : s \in {None} \union tried[writing.region]}

Work == writing # None /\ Shown /\ UNCHANGED <<writing, kept, tried>>

(* A reset or an error of the flash ends the save anywhere. *)
CutShort == writing # None /\ Shown /\ writing' = None /\ UNCHANGED <<kept, tried>>

Succeed ==
  /\ writing # None /\ content[writing.region] = writing.saved
  /\ kept' = [kept EXCEPT ![writing.region] = writing.saved]
  /\ tried' = [tried EXCEPT ![writing.region] = {writing.saved}]
  /\ writing' = None
  /\ UNCHANGED content

Next == Work \/ CutShort \/ Succeed \/ \E r \in Regions, s \in Saved : Begin(r, s)

Spec == Init /\ [][Next]_vars
=============================================================================
