---------------------------- MODULE MCMediaStore ----------------------------
(* MediaStore on two payloads: "a" fits the upload limit exactly, "b" is   *)
(* one byte over it and over MaxBytes alone.                               *)
EXTENDS MediaStore

MCSizeOf == [d \in Digests |-> IF d = "a" THEN 2 ELSE 3]
=============================================================================
