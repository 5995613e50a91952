-------------------------- MODULE MCAgentController --------------------------
(***************************************************************************)
(* Three attempts, an edited and an unedited content of each part of the   *)
(* workspace, and up to two edits of the control files and of each copy    *)
(* of them, at any moment.                                                 *)
(***************************************************************************)
EXTENDS AgentController

Trees == {"checkout", "edited"}
CheckedOut == "checkout"
Controls == {1, 2, 3}
Edits == {<<1, 2>>, <<2, 3>>, <<1, 3>>}
=============================================================================
