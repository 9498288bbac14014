------------------------------- MODULE Register -------------------------------
(***************************************************************************)
(* What a user is promised of a configuration kept in two files: a word    *)
(* said in either file or in the window comes into force before the next   *)
(* is said, and stays in force, restarts included, until it is; the live   *)
(* file takes what has been staged, never going back to an older word; and *)
(* nothing is promised any more once somebody breaks the rules.            *)
(***************************************************************************)
CONSTANTS Config, Default, None

VARIABLES
  word,     \* the user's last word
  heard,    \* whether the daemon has heard it
  inForce,  \* the daemon's configuration, None when there is no daemon
  unsaved,  \* the last word is in no file yet
  staged,   \* what the local file holds
  live,     \* what the root file holds
  ahead,    \* the local file is the newer one
  void      \* somebody broke the rules

vars == <<word, heard, inForce, unsaved, staged, live, ahead, void>>

OnDisk == IF ahead THEN staged ELSE live
Up == inForce # None

Init == /\ staged \in Config \cup {None} /\ live \in Config \cup {None}
        /\ ahead = (live = None /\ staged # None)
        /\ word = IF OnDisk = None THEN Default ELSE OnDisk
        /\ heard = TRUE /\ inForce = None /\ unsaved = FALSE /\ void = FALSE

\* A word in a file, or in the window of a daemon that runs.
Stage(w) == staged' = w /\ ahead' = TRUE /\ UNCHANGED live
Edit(w)  == live' = w /\ ahead' = FALSE /\ UNCHANGED staged
Say(w) == /\ heard = TRUE /\ word' = w /\ heard' = FALSE
          /\ Stage(w) \/ Edit(w)
          /\ UNCHANGED <<inForce, unsaved>>
Click(w) == /\ Up /\ heard = TRUE /\ word' = w /\ inForce' = w /\ unsaved' = TRUE
            /\ UNCHANGED <<heard, staged, live, ahead>>

\* The daemon hears it, or starts with it.
Hear == /\ Up /\ heard = FALSE /\ heard' = TRUE /\ inForce' = word
        /\ UNCHANGED <<word, unsaved, staged, live, ahead>>
Rise == /\ ~Up /\ heard' = TRUE /\ inForce' = word
        /\ UNCHANGED <<word, unsaved, staged, live, ahead>>
Fall == /\ Up /\ unsaved = FALSE /\ inForce' = None
        /\ UNCHANGED <<word, heard, unsaved, staged, live, ahead>>

\* It stages what only it knows, and makes live what is staged.
Save == /\ Up /\ heard = TRUE /\ unsaved = TRUE /\ unsaved' = FALSE /\ Stage(word)
        /\ UNCHANGED <<word, heard, inForce>>
Promote == /\ Up /\ heard = TRUE /\ ahead = TRUE /\ live' = staged /\ ahead' = FALSE
           /\ UNCHANGED <<word, heard, inForce, unsaved, staged>>

Step == /\ UNCHANGED void
        /\ \/ Hear \/ Rise \/ Fall \/ Save \/ Promote
           \/ \E w \in Config : Say(w) \/ Click(w)
Next == Step \/ void' = TRUE

Spec == Init /\ [][Next]_vars
=============================================================================
