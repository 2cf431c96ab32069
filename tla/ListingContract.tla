-------------------------- MODULE ListingContract ---------------------------
(***************************************************************************)
(* What a listing promises the SDK that asks for its pages: whatever it    *)
(* has given stays given and was due, a page is given whole or not at all, *)
(* and the listing is complete, or it fails; then it is over.  How it is   *)
(* cut into pages, what tokens name them, which of them are repeated and   *)
(* where the process starts again is not to be seen from here.             *)
(***************************************************************************)
VARIABLES
  due,       \* what the SDK should get
  excused,   \* what of it may be missing: it was not so all the time
  given,     \* what the SDK got
  status     \* "open", "complete" or "failed"

vars == <<due, excused, given, status>>

Init ==
  /\ excused \subseteq due
  /\ given = {}
  /\ status = "open"

\* A page, perhaps the last one.
Give ==
  /\ status = "open"
  /\ given \subseteq given' /\ given' \subseteq due
  /\ \/ status' = "open"
     \/ status' = "complete" /\ due \ excused \subseteq given'
  /\ UNCHANGED <<due, excused>>

\* The listing fails, and gives nothing more.
Fail ==
  /\ status = "open"
  /\ status' = "failed"
  /\ UNCHANGED <<due, excused, given>>

\* What is listed changes while the listing runs.
Excuse ==
  /\ status = "open"
  /\ excused \subseteq excused' /\ excused' \subseteq due
  /\ UNCHANGED <<due, given, status>>

Next == Give \/ Fail \/ Excuse

Spec == Init /\ [][Next]_vars
=============================================================================
