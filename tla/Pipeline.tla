------------------------------ MODULE Pipeline ------------------------------
(***************************************************************************)
(* What Anywise.send promises to the caller of a message, whatever the     *)
(* other messages in flight: the message visits the guards of its type, in *)
(* their order and none left out, then the handler resolved for it; the    *)
(* caller gets a response only if the handler was reached, or if a guard   *)
(* that may answer for it was.                                             *)
(***************************************************************************)
EXTENDS Naturals, Sequences

CONSTANTS
  Messages,    \* the messages
  Known,       \* those whose type has a handler
  Path,        \* the guards of each message and then its own handler
  Answering    \* the guards that may answer in place of the handler

VARIABLES
  visited,     \* what each message has visited so far
  verdict      \* what its caller got

pvars == <<visited, verdict>>

Verdict == {"pending", "response", "error", "CancelledError",
            "UnregisteredMessageError"}

Init ==
  /\ visited = [m \in Messages |-> <<>>]
  /\ verdict = [m \in Messages |-> "pending"]

Visit(m) ==
  /\ m \in Known
  /\ verdict[m] = "pending"
  /\ Len(visited[m]) < Len(Path[m])
  /\ visited' = [visited EXCEPT ![m] = Append(@, Path[m][Len(@) + 1])]
  /\ UNCHANGED verdict

Answered(m) ==
  \/ Len(visited[m]) = Len(Path[m])
  \/ \E i \in DOMAIN visited[m] : visited[m][i] \in Answering

Conclude(m, v) ==
  /\ verdict[m] = "pending"
  /\ v = "UnregisteredMessageError" <=> m \notin Known
  /\ v = "response" => Answered(m)
  /\ verdict' = [verdict EXCEPT ![m] = v]
  /\ UNCHANGED visited

Next ==
  \E m \in Messages :
    Visit(m) \/ \E v \in Verdict \ {"pending"} : Conclude(m, v)

Spec == Init /\ [][Next]_pvars
=============================================================================
