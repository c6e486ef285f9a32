------------------------------ MODULE FileStore ------------------------------
(***************************************************************************)
(* What the file transfer of np-lab6 promises: files appear on the         *)
(* receiving side once, whole and unchanged, and the sender is told that   *)
(* the transfer has ended only after all of them have appeared.            *)
(***************************************************************************)
EXTENDS Integers

CONSTANTS Files,    \* the files to transfer
          Source,   \* their contents
          Absent    \* no file

VARIABLES store,    \* the receiving directory
          told      \* the sender has been told that all is done

Init ==
    /\ store = [f \in Files |-> Absent]
    /\ told = FALSE

Deliver(f) ==
    /\ store[f] = Absent
    /\ store' = [store EXCEPT ![f] = Source[f]]
    /\ UNCHANGED told

Tell ==
    /\ ~told
    /\ store = Source
    /\ told' = TRUE
    /\ UNCHANGED store

Next == Tell \/ \E f \in Files : Deliver(f)

storeVars == <<store, told>>

Spec == Init /\ [][Next]_storeVars
==============================================================================
