------------------------------- MODULE KeyStore -------------------------------
(***************************************************************************)
(* What the context cache promises its owner: a map of keys in memory and  *)
(* a stable copy of it. Every step concerns one key at a time, and a start *)
(* brings back exactly the stable copy. Not every key can have one.        *)
(***************************************************************************)
CONSTANTS Slot,     \* where a key can be kept
          Record,   \* what can be kept there
          Lasting,  \* the records that can be brought back
          Nothing   \* an empty slot, not a record

VARIABLES up,       \* is the owner running?
          mem,      \* the keys the owner sees
          stable    \* the keys a restart would bring back

Empty == [s \in Slot |-> Nothing]

Init ==
    /\ up = FALSE
    /\ mem = Empty
    /\ stable \in [Slot -> Lasting \cup {Nothing}]

(* A key is stored or replaced; its stable copy is not touched.            *)
Put(s) ==
    /\ up
    /\ \E r \in Record : mem' = [mem EXCEPT ![s] = r]
    /\ UNCHANGED <<up, stable>>

(* A key is deleted, together with its stable copy.                        *)
Delete(s) ==
    /\ up
    /\ mem[s] # Nothing
    /\ mem' = [mem EXCEPT ![s] = Nothing]
    /\ stable' = [stable EXCEPT ![s] = Nothing]
    /\ UNCHANGED up

(* The stable copy of a key catches up with memory; a key that does not    *)
(* last has none from then on.                                             *)
Persist(s) ==
    /\ up
    /\ mem[s] # Nothing
    /\ stable' = [stable EXCEPT ![s] = IF mem[s] \in Lasting THEN mem[s] ELSE Nothing]
    /\ UNCHANGED <<up, mem>>

(* A start brings back the stable copy, no more and no less.               *)
Start ==
    /\ ~up
    /\ up' = TRUE
    /\ mem' = stable
    /\ UNCHANGED stable

(* A shutdown or a crash loses what was not stable.                        *)
Stop ==
    /\ up
    /\ up' = FALSE
    /\ mem' = Empty
    /\ UNCHANGED stable

Next == Start \/ Stop \/ \E s \in Slot : Put(s) \/ Delete(s) \/ Persist(s)

Spec == Init /\ [][Next]_<<up, mem, stable>>
=============================================================================
