----------------------------- MODULE SocketFile -----------------------------
(***************************************************************************)
(* The name of a Unix socket on disk, as the daemon and the GUI use it.    *)
(*                                                                         *)
(* A name leads to the process that bound it, also when that process does  *)
(* not listen yet.  It outlives its process, and it can be unlinked by     *)
(* anybody while the process that bound it goes on serving nobody.         *)
(***************************************************************************)
CONSTANTS NoFile,   \* there is no such name
          Stale     \* the name is there, and nobody is behind it

\* The socket's name when process p is gone.
WithoutOwner(sock, p) == IF sock = p THEN Stale ELSE sock
=============================================================================
