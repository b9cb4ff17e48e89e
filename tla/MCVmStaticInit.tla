--------------------------- MODULE MCVmStaticInit ---------------------------
(* Instances of VmStaticInit for TLC: three contexts race for one owner, of  *)
(* either kind, or two contexts nest the initializers of two owners.         *)
EXTENDS VmStaticInit

CONSTANTS main, c1, c2, class, local

MCPrograms ==
    {[c \in Contexts |-> {class}], [c \in Contexts |-> {local}],
     [c \in Contexts |-> IF c = c2 THEN {} ELSE {class, local}]}
==============================================================================
