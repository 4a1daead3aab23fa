-------------------------- MODULE MC_NX_OMXQueue --------------------------
(* The ring buffer on an array of three slots with two distinct elements.    *)
EXTENDS NX_OMXQueue
=============================================================================
