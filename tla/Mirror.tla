-------------------------------- MODULE Mirror --------------------------------
(***************************************************************************)
(* What a window of the GUI is promised: from the moment it is subscribed  *)
(* it shows the tables that the daemon published, each one whole, in the   *)
(* order they were published, until the connection is lost.                *)
(***************************************************************************)
EXTENDS Sequences, SequencesExt

CONSTANTS Table, Unknown

VARIABLES current,  \* the daemon's table
          ahead,    \* tables on their way to the window, the oldest first
          seen      \* the table the window shows; Unknown: nothing promised

vars == <<current, ahead, seen>>

Subscribed == seen # Unknown \/ ahead # <<>>

Init == current \in Table /\ ahead = <<>> /\ seen = Unknown

\* The daemon has a table, maybe the same one, and says so.
Publish ==
  /\ current' \in Table
  /\ ahead' = IF Subscribed THEN Append(ahead, current') ELSE <<>>
  /\ UNCHANGED seen

\* The window hears of tables from now on, the daemon's at the end.
Subscribe ==
  /\ ~Subscribed
  /\ current' \in Table
  /\ ahead' \in Seq(Table) /\ ahead' # <<>> /\ Last(ahead') = current'
  /\ UNCHANGED seen

Show ==
  /\ ahead # <<>>
  /\ seen' = Head(ahead) /\ ahead' = Tail(ahead)
  /\ UNCHANGED current

Lose ==
  /\ current' \in Table /\ ahead' = <<>> /\ seen' = Unknown

Next == Publish \/ Subscribe \/ Show \/ Lose

Spec == Init /\ [][Next]_vars
===============================================================================
