------------------------------ MODULE MC_TaskState ------------------------------
(***************************************************************************)
(* A primary key and a key below it whose policy refers to the primary by  *)
(* PolicySecret.                                                           *)
(***************************************************************************)
EXTENDS TaskState, TLC

CONSTANTS primary, child, v1, v2, p1

Parents == primary :> None @@ child :> primary
Secrets == primary :> None @@ child :> primary

(* An empty directory; both keys cached; the child of a persistent key.    *)
Directories ==
    {[h \in {v1, v2, p1} |-> None],
     v1 :> primary @@ v2 :> child @@ p1 :> None,
     v1 :> None @@ v2 :> child @@ p1 :> primary}

(* No slot, one slot or every slot of the TPM is taken at the start. Which *)
(* slot it is, and by which key, makes no difference to the program.       *)
Occupied ==
    LET first == CHOOSE p \in Slot : TRUE IN
    {[p \in Slot |-> None],
     [p \in Slot |-> IF p = first THEN primary ELSE None],
     [p \in Slot |-> primary]}
=============================================================================
