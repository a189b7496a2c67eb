------------------------------ MODULE MCWindow ------------------------------
(* Three buffers, the middle one of a single item. *)
EXTENDS Window

ThreeBuffers == <<2, 1, 3>>

=============================================================================
