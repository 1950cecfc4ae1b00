-------------------------------- MODULE Exchange --------------------------------
(***************************************************************************)
(* What a transmission of TPM commands promises the layers above it: the   *)
(* commands are numbered in the order they are issued; one that was        *)
(* answered has been executed, one that was refused never will be, and     *)
(* one that was abandoned may still be executed later, but never after a   *)
(* later command.                                                          *)
(***************************************************************************)
EXTENDS Naturals

VARIABLES number,    \* commands issued so far
          open,      \* is the last one still in progress?
          answered,  \* commands whose response was returned
          refused,   \* commands the device never accepted
          executed   \* commands the TPM has executed

Init ==
    /\ number = 0
    /\ open = FALSE
    /\ answered = {}
    /\ refused = {}
    /\ executed = {}

Begin ==
    /\ ~open
    /\ number' = number + 1
    /\ open' = TRUE
    /\ UNCHANGED <<answered, refused, executed>>

(* Each command is executed at most once, and in the order of issue.       *)
Execute(n) ==
    /\ n \in 1..number
    /\ n \notin refused
    /\ \A m \in executed : m < n
    /\ executed' = executed \cup {n}
    /\ UNCHANGED <<number, open, answered, refused>>

Answer ==
    /\ open /\ number \in executed
    /\ answered' = answered \cup {number}
    /\ open' = FALSE
    /\ UNCHANGED <<number, refused, executed>>

Refuse ==
    /\ open /\ number \notin executed
    /\ refused' = refused \cup {number}
    /\ open' = FALSE
    /\ UNCHANGED <<number, answered, executed>>

Abandon ==
    /\ open
    /\ open' = FALSE
    /\ UNCHANGED <<number, answered, refused, executed>>

Next ==
    \/ Begin \/ Answer \/ Refuse \/ Abandon
    \/ \E n \in 1..number : Execute(n)

Spec == Init /\ [][Next]_<<number, open, answered, refused, executed>>
=============================================================================
