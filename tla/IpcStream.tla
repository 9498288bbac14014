------------------------------ MODULE IpcStream ------------------------------
(***************************************************************************)
(* How a window of the GUI keeps a copy of the daemon's process table: the *)
(* daemon's polls and replies (main.rs), its socket server (ipc.rs), the   *)
(* GUI's connection thread (gui/src-tauri/src/lib.rs), and the store of a  *)
(* window (gui/src/lib/store.svelte.ts).                                   *)
(*                                                                         *)
(* The daemon broadcasts whole snapshots, and differences between polls,   *)
(* to whoever is registered.  They go through the socket (wire) to the     *)
(* connection thread and from it as events to the windows that listen.  A  *)
(* window also asks the thread once for the latest snapshot.               *)
(***************************************************************************)
EXTENDS Naturals, Sequences, SequencesExt

CONSTANTS Pid,
          Row,          \* what the table says of a process: look and cpu
          Absent,
          None,         \* no snapshot
          Scan,         \* the tables that a poll can make of its scan
          MaxInFlight,  \* bound: frames and events on their way
          Faults

ASSUME RowAssumption == \A r \in Row : DOMAIN r = {"look", "cpu"} /\ r.cpu \in Nat
ASSUME AbsentAssumption == Absent \notin Row /\ Absent \notin {r.look : r \in Row}
ASSUME NoneAssumption ==
  /\ None \notin Row \cup {Absent}
  /\ None \notin [Pid -> Row \cup {Absent}]
  /\ None \notin [Pid -> {r.look : r \in Row} \cup {Absent}]
ASSUME BoundAssumption == MaxInFlight \in Nat
ASSUME FaultAssumption ==
  Faults \subseteq {"restart",    \* the daemon is restarted
                    "unordered"}  \* the listeners may be registered after the
                                  \* state has been served

Table == [Pid -> Row \cup {Absent}]
Empty == [p \in Pid |-> Absent]

ASSUME ScanAssumption == Scan \subseteq Table \ {Empty}

VARIABLES
  table,      \* full_info
  announced,  \* sent_initial_snapshot
  conn,       \* the GUI's connection, as far as the daemon has got with it
  wire,       \* frames on their way to the GUI
  latest,     \* UiState::latest
  window,     \* "closed", "starting" or "listening"
  query,      \* the window's getState: "no", "asked", "answered" or "done"
  reply,      \* the answer on its way
  events,     \* events on their way to the window
  view,       \* state.processes of the window
  synced      \* history: the view comes from a snapshot of this connection

server == <<table, announced>>
vars   == <<table, announced, conn, wire, latest, window, query, reply, events, view, synced>>

Connection == {"off",         \* the GUI has none
               "queued",      \* connected, not accepted yet
               "registered",  \* spawn_client has registered it
               "greeted",     \* ... and sent Hello
               "served",      \* its Hello has been answered
               "closing"}     \* the daemon's end is closed
Live == conn \in {"registered", "greeted", "served"}

\* A difference says of each process: nothing, its new row, or that it is gone.
Frame == [type : {"hello", "closed"}] \cup [type : {"snapshot"}, table : Table]
           \cup [type : {"diff"}, rows : [Pid -> Row \cup {Absent, None}]]

TypeOK ==
  /\ table \in Table /\ announced \in BOOLEAN
  /\ conn \in Connection
  /\ wire \in Seq(Frame) /\ events \in Seq(Frame)
  /\ latest \in Table \cup {None}
  /\ window \in {"closed", "starting", "listening"}
  /\ query \in {"no", "asked", "answered", "done"} /\ reply \in Table \cup {None}
  /\ view \in Table /\ synced \in BOOLEAN

Init ==
  /\ table = Empty /\ announced = FALSE
  /\ conn = "off" /\ wire = <<>> /\ latest = None
  /\ window = "closed" /\ query = "no" /\ reply = None /\ events = <<>> /\ view = Empty
  /\ synced = FALSE

Hello       == [type |-> "hello"]
Closed      == [type |-> "closed"]
Snapshot(t) == [type |-> "snapshot", table |-> t]
Diff(r)     == [type |-> "diff", rows |-> r]

----------------------------------------------------------------------------
(* The daemon.                                                             *)

\* process_changed: everything that shows, and a cpu share that moved by more
\* than the tolerance since the previous poll.
Changed(a, b) == a.look # b.look \/ a.cpu > b.cpu + 1 \/ b.cpu > a.cpu + 1

\* Mutant: processes that are gone are not reported.
AddedOrUpdated(old, new) ==
  [p \in Pid |-> IF new[p] = Absent THEN None
                 ELSE IF old[p] = Absent \/ Changed(old[p], new[p]) THEN new[p] ELSE None]

\* diff_tables: added, updated and removed.
DiffTables(old, new) ==
  [p \in Pid |->
     IF new[p] = Absent THEN IF old[p] = Absent THEN None ELSE Absent
     ELSE IF old[p] = Absent \/ Changed(old[p], new[p]) THEN new[p] ELSE None]

IsEmpty(rows) == \A p \in Pid : rows[p] = None

\* broadcast: to every client that is registered.
Broadcast(m) == wire' = IF Live THEN Append(wire, m) ELSE wire

\* Bound: the daemon says nothing new, and does not restart, while so much is
\* on its way.
Room == Len(wire) + Len(events) < MaxInFlight

\* The end of a poll: a snapshot the first time, then the differences, if any.
Announce(t) ==
  /\ announced' = TRUE
  /\ IF ~announced THEN Broadcast(Snapshot(t))
     ELSE IF IsEmpty(DiffTables(table, t)) THEN UNCHANGED wire
     ELSE Broadcast(Diff(DiffTables(table, t)))

\* A poll found the processes t, the daemon's own among them in any case.
Poll(t) ==
  /\ Room
  /\ table' = t
  /\ Announce(t)
  /\ UNCHANGED <<conn, latest, window, query, reply, events, view, synced>>

\* A request is answered with a snapshot for everybody, whoever sent it.
Request ==
  /\ Room
  /\ Broadcast(Snapshot(table))
  /\ UNCHANGED <<server, conn, latest, window, query, reply, events, view, synced>>

\* spawn_client: register, then send Hello, then start the threads.
Register ==
  /\ conn = "queued" /\ conn' = "registered"
  /\ UNCHANGED <<server, wire, latest, window, query, reply, events, view, synced>>

SendHello ==
  /\ conn = "registered" /\ conn' = "greeted"
  /\ wire' = Append(wire, Hello)
  /\ UNCHANGED <<server, latest, window, query, reply, events, view, synced>>

\* Mutant: the client's Hello is not answered.
NoReply == UNCHANGED wire

\* What a client's Hello is answered with.
HelloReply == Broadcast(Snapshot(table))

\* The GUI's Hello, which the reader thread has passed on.
HandleHello ==
  /\ conn = "greeted" /\ conn' = "served"
  /\ HelloReply
  /\ UNCHANGED <<server, latest, window, query, reply, events, view, synced>>

\* The daemon is stopped or killed, and started again.  What its threads had
\* written to the socket still arrives.
Restart ==
  /\ "restart" \in Faults /\ Room
  /\ table' = Empty /\ announced' = FALSE
  /\ conn' = IF conn = "off" THEN "off" ELSE "closing"
  /\ \E k \in 0..Len(wire) : wire' = SubSeq(wire, 1, k)
  /\ UNCHANGED <<latest, window, query, reply, events, view, synced>>

----------------------------------------------------------------------------
(* The connection thread of the GUI.                                       *)

Connect ==
  /\ conn = "off" /\ conn' = "queued"
  /\ UNCHANGED <<server, wire, latest, window, query, reply, events, view, synced>>

\* To a window that listens.  Hello, like the lost connection, is an event for
\* its connection light; the heartbeats that go with other frames are left out.
Emit(m) == events' = IF window = "listening" THEN Append(events, m) ELSE events

LatestAfter(m) == IF m.type = "snapshot" THEN m.table ELSE latest

\* One frame: a snapshot is kept for later, and every frame is passed on.
ReadFrame ==
  /\ wire # <<>>
  /\ wire' = Tail(wire)
  /\ latest' = LatestAfter(Head(wire))
  /\ Emit(Head(wire))
  /\ UNCHANGED <<server, conn, window, query, reply, view, synced>>

\* End of file.
ReadEnd ==
  /\ conn = "closing" /\ wire = <<>>
  /\ conn' = "off" /\ latest' = None
  /\ Emit(Closed)
  /\ UNCHANGED <<server, wire, window, query, reply, view, synced>>

\* get_state.
ServeState ==
  /\ query = "asked" /\ query' = "answered"
  /\ "unordered" \in Faults \/ window = "listening"
  /\ reply' = latest
  /\ UNCHANGED <<server, conn, wire, latest, window, events, view, synced>>

----------------------------------------------------------------------------
(* A window.                                                               *)

\* start(): the listeners are asked for, and the state.
Start ==
  /\ window = "closed" /\ window' = "starting" /\ query' = "asked"
  /\ UNCHANGED <<server, conn, wire, latest, reply, events, view, synced>>

Listen ==
  /\ window = "starting" /\ window' = "listening"
  /\ UNCHANGED <<server, conn, wire, latest, query, reply, events, view, synced>>

\* EVT_DIFF.
ApplyDiff(v, rows) == [p \in Pid |-> IF rows[p] = None THEN v[p] ELSE rows[p]]

\* What a window makes of an event.
After(v, m) == CASE m.type = "snapshot" -> m.table
                 [] m.type = "diff" -> ApplyDiff(v, m.rows)
                 [] OTHER -> v

\* The history: a snapshot from before the first poll, which is empty, does
\* not count, for the first poll brings another.
SyncedAfter(m) == \/ m.type = "snapshot" /\ m.table # Empty
                  \/ synced /\ m.type \in {"hello", "diff"}

OnEvent ==
  /\ events # <<>>
  /\ events' = Tail(events)
  /\ view' = After(view, Head(events))
  /\ synced' = SyncedAfter(Head(events))
  /\ UNCHANGED <<server, conn, wire, latest, window, query, reply>>

\* Mutant: the reply is taken whatever the window shows.
Taken(s) == IF s = None THEN view ELSE s

\* The reply to getState fills a window that shows nothing.
StateFrom(s) == IF s # None /\ s # Empty /\ view = Empty THEN s ELSE view

OnState ==
  /\ query = "answered" /\ query' = "done"
  /\ view' = StateFrom(reply) /\ reply' = None
  /\ UNCHANGED <<server, conn, wire, latest, window, events, synced>>

FirstPoll == ~announced /\ \E t \in Scan : Poll(t)
Server    == Register \/ SendHello \/ HandleHello \/ \E t \in Scan : Poll(t)
Gui    == Connect \/ ReadFrame \/ ReadEnd \/ ServeState \/ Listen \/ OnEvent \/ OnState

Next == Server \/ Gui \/ Request \/ Restart \/ Start

Spec == Init /\ [][Next]_vars
\* Threads that never wait for one another, and a daemon that does poll; polls
\* that find a difference, and requests, come for ever, or not.
FairSpec ==
  /\ Spec
  /\ WF_vars(Register) /\ WF_vars(SendHello) /\ WF_vars(HandleHello)
  /\ SF_vars(FirstPoll)
  /\ WF_vars(Connect) /\ WF_vars(ReadFrame) /\ WF_vars(ReadEnd)
  /\ WF_vars(ServeState) /\ WF_vars(Listen) /\ WF_vars(OnEvent) /\ WF_vars(OnState)
----------------------------------------------------------------------------
(* What a window is promised.                                              *)

\* What shows of a table; the cpu share of a row may lag behind.
Looks(t) == [p \in Pid |-> IF t[p] = Absent THEN Absent ELSE t[p].look]

\* All that is on its way to the window, the oldest first.
Way         == events \o wire
Interrupted == \E i \in DOMAIN events : events[i] = Closed
InStep      == Live /\ synced /\ ~Interrupted

\* What a window that shows v makes of s: the view after each of the events.
Views(v, s) ==
  LET f[i \in 0..Len(s)] == IF i = 0 THEN v ELSE After(f[i - 1], s[i])
  IN  f

\* The snapshots that bring the window in step: those of this connection.
Fills(s) ==
  {i \in 1..Len(s) : /\ s[i].type = "snapshot" /\ s[i].table # Empty
                     /\ \A j \in i..Len(s) : s[j] # Closed}

\* The view after i events of s is one that the window is promised, if it is in
\* step now (ok) or by then.
Promised(ok, s, i) == ok \/ \E j \in Fills(s) : j =< i

\* What it is promised to show, in this order.
Promises(ok, v, s) ==
  IF ~Promised(ok, s, Len(s)) THEN <<>>
  ELSE LET from == IF ok THEN 0 ELSE Min(Fills(s)) - 1
       IN  [i \in 1..(Len(s) - from) |-> Looks(Views(v, s)[from + i])]

Ahead == IF Live /\ window = "listening" THEN Promises(InStep, view, Way) ELSE <<>>

\* common/src/lib.rs: "a full Snapshot on first connection, then only Diffs of
\* added / updated / removed processes": once a snapshot of its connection has
\* reached a window, the window shows the published tables, whole and in order,
\* and what is on its way ends with the daemon's own, whoever else connects,
\* asks or restarts the daemon meanwhile.
Copy == INSTANCE Mirror WITH
  Table <- [Pid -> {r.look : r \in Row} \cup {Absent}], Unknown <- None,
  current <- Looks(table), ahead <- Ahead,
  seen <- IF InStep THEN Looks(view) ELSE None
Mirrors == Copy!Spec

\* A window that listens when the GUI connects gets in step, unless the daemon
\* goes away.
GetsInStep ==
  (window = "listening" /\ conn = "queued") ~> (InStep \/ conn = "closing")

\* What a window in step shows in the end is what the daemon knows.
CatchesUp ==
  \A t \in Scan :
    <>[](Live /\ synced /\ Looks(table) = Looks(t)) => <>[](Looks(view) = Looks(t))

----------------------------------------------------------------------------
(* What the repository says of itself.                                     *)

\* store.svelte.ts: "In case this window opened after the initial snapshot was
\* broadcast, the Rust backend keeps the latest one and serves it via
\* get_state": what a window shows in the end, opened late or not, is what the
\* daemon knows.
LateWindowsCatchUp ==
  \A t \in Scan :
    <>[](conn = "served" /\ window = "listening" /\ view # Empty /\ table = t)
      => <>[](Looks(view) = Looks(t))

=============================================================================
