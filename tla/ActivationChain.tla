---------------------------- MODULE ActivationChain ----------------------------
(***************************************************************************)
(* What the control service promises of an agent's activations: garam makes*)
(* them one after another, and control's own record of the latest is never *)
(* more than one behind.  Activations are numbered in the order garam makes*)
(* them, 0 for none.                                                       *)
(***************************************************************************)
EXTENDS Naturals

VARIABLES
  made,    \* the latest activation garam made
  live,    \* whether garam routes to it
  latest   \* the latest activation control knows of

vars == <<made, live, latest>>

Init == made = 0 /\ live = FALSE /\ latest = 0

\* A new activation replaces one that control knew to be the latest.
Activate ==
  /\ latest = made
  /\ made' = made + 1
  /\ live' = TRUE
  /\ UNCHANGED latest

\* Control learns of the activation it did not know of.
Learn ==
  /\ latest' = made
  /\ UNCHANGED <<made, live>>

\* Only an activation control knows of is ended without a replacement.
End ==
  /\ latest = made
  /\ live' = FALSE
  /\ UNCHANGED <<made, latest>>

Next == Activate \/ Learn \/ End

Spec == Init /\ [][Next]_vars

================================================================================
