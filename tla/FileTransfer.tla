------------------------------ MODULE FileTransfer ------------------------------
(***************************************************************************)
(* What a download promises a client: it gets a file from the beginning,   *)
(* or from where another eNodeB left off, piece by piece and in order; the *)
(* transfer ends when the client has all of it, or with its connection.    *)
(***************************************************************************)
EXTENDS Naturals

CONSTANTS
  Clients, Files, None,
  size,     \* bytes of each file
  Starts    \* where a download may start

VARIABLES
  connected,  \* clients
  file,       \* the file that a client is getting, or None
  got         \* bytes of it that the client has

vars == <<connected, file, got>>

Init ==
  /\ connected = {}
  /\ file = [c \in Clients |-> None]
  /\ got = [c \in Clients |-> 0]

Connect(c) ==
  /\ c \notin connected
  /\ connected' = connected \cup {c}
  /\ UNCHANGED <<file, got>>

\* A download starts at the beginning of a file, or, after a handover, where the
\* other eNodeB stopped.
Begin(c) ==
  /\ c \in connected /\ file[c] = None
  /\ \E f \in Files, n \in Starts :
       /\ n <= size[f]
       /\ file' = [file EXCEPT ![c] = f]
       /\ got' = [got EXCEPT ![c] = n]
  /\ UNCHANGED connected

Receive(c) ==
  /\ file[c] # None
  /\ \E n \in got[c] + 1 .. size[file[c]] : got' = [got EXCEPT ![c] = n]
  /\ UNCHANGED <<connected, file>>

Stop(c) ==
  /\ file' = [file EXCEPT ![c] = None]
  /\ got' = [got EXCEPT ![c] = 0]

End(c) ==
  /\ file[c] # None
  /\ got[c] = size[file[c]]
  /\ Stop(c)
  /\ UNCHANGED connected

Disconnect(c) ==
  /\ c \in connected
  /\ connected' = connected \ {c}
  /\ Stop(c)

Next == \E c \in Clients : \/ Connect(c) \/ Disconnect(c)
                           \/ Begin(c) \/ Receive(c) \/ End(c)

Spec == Init /\ [][Next]_vars
================================================================================
