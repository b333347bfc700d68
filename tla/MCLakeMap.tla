----------------------------- MODULE MCLakeMap -----------------------------
(* Instances of LakeMap for TLC: contents "a" and "b" have the same size.  *)
EXTENDS LakeMap

MCSizeOf == [c \in Contents |-> IF c = "c" THEN 2 ELSE 1]
=============================================================================
