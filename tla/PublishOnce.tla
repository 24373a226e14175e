----------------------------- MODULE PublishOnce -----------------------------
(***************************************************************************)
(* What the two stores that publish a directory by renaming it promise     *)
(* (evidence runs and agent loops): a name appears at once, with a whole   *)
(* and valid content, which never changes and, once a caller was told of   *)
(* it, is never lost.                                                      *)
(***************************************************************************)
CONSTANTS
  Names,    \* names that may be published
  Contents, \* contents a reader accepts
  Absent    \* nothing is published under a name; not in Contents

VARIABLES
  store,    \* what is published under each name
  confirmed \* names whose publication a caller was told of

Publish(n) ==
  /\ store[n] = Absent
  /\ \E c \in Contents : store' = [store EXCEPT ![n] = c]
  /\ UNCHANGED confirmed

Confirm(n) ==
  /\ store[n] # Absent
  /\ confirmed' = confirmed \union {n}
  /\ UNCHANGED store

(* A power loss takes back names that no caller was told of.               *)
Lose ==
  /\ \E lost \in SUBSET (Names \ confirmed) :
       store' = [n \in Names |-> IF n \in lost THEN Absent ELSE store[n]]
  /\ UNCHANGED confirmed

Init == store = [n \in Names |-> Absent] /\ confirmed = {}
Next == (\E n \in Names : Publish(n) \/ Confirm(n)) \/ Lose
Spec == Init /\ [][Next]_<<store, confirmed>>
=============================================================================
