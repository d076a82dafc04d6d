---------------------------- MODULE AddressSpace ----------------------------
(***************************************************************************)
(* What map_page promises: a call changes the translation of its page, to  *)
(* its frame, or fails and changes none.  Paging.tla is shown to implement *)
(* this module.                                                            *)
(***************************************************************************)
CONSTANTS Pages, Frames, NoCall

VARIABLES
  translation,  \* of each page: the set of its frame, or none
  call          \* the page and the frame of the call in progress

vars == <<translation, call>>

(* The boot loader leaves any translations. *)
Init == translation \in [Pages -> SUBSET Frames] /\ call = NoCall

Begin ==
  /\ call = NoCall
  /\ call' \in Pages \X Frames
  /\ UNCHANGED translation

Fail == call # NoCall /\ call' = NoCall /\ UNCHANGED translation

Succeed ==
  /\ call # NoCall
  /\ translation' = [translation EXCEPT ![call[1]] = {call[2]}]
  /\ call' = NoCall

Next == Begin \/ Fail \/ Succeed

Spec == Init /\ [][Next]_vars
=============================================================================
