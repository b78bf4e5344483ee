---------------------------- MODULE ContentStream ----------------------------
(***************************************************************************)
(* What ProtocolClient.getFileContent promises to a download, whatever the  *)
(* provider, the connection and the provider's disk do: while it reads it   *)
(* is handed the chunk after the last one it kept, and nothing else.  A     *)
(* stream stops where it likes; the next one goes on from there.            *)
(***************************************************************************)
EXTENDS Integers, Sequences

CONSTANTS Files, Versions

VARIABLES got,      \* got[f]: the chunks of f kept so far
          reading   \* the files a stream is open for

Init == got = [f \in Files |-> <<>>] /\ reading = {}

Open(f) == f \notin reading /\ reading' = reading \cup {f} /\ UNCHANGED got

Deliver(f) ==
    /\ f \in reading /\ UNCHANGED reading
    /\ \E v \in Versions :
          got' = [got EXCEPT ![f] = Append(@, <<v, Len(@) + 1>>)]

Stop(f) == f \in reading /\ reading' = reading \ {f} /\ UNCHANGED got

Next == \E f \in Files : Open(f) \/ Deliver(f) \/ Stop(f)

Spec == Init /\ [][Next]_<<got, reading>>
==============================================================================
