------------------------------ MODULE MCCompRing ------------------------------
(* The ring of compression threads on small instances: three slots and more *)
(* buffers than slots, so that every slot is used again.                    *)
EXTENDS CompRing
=============================================================================
