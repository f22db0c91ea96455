----------------------------- MODULE MCFrontend -----------------------------
(* Frontend with the two buttons of the axis and short channels. *)
EXTENDS Frontend

const_Buttons == {Left, Right}
=============================================================================
