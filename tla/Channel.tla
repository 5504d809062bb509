------------------------------ MODULE Channel ------------------------------
(***************************************************************************)
(* What a sink promises: a channel of bounded capacity.  Calls append      *)
(* their events to what was sent, each call its own in their order; the    *)
(* consumer gets what was sent, in the order in which it was sent.         *)
(***************************************************************************)
EXTENDS Naturals, Sequences, FiniteSets

CONSTANTS
  Senders,     \* the calls that send
  Amount,      \* how many events each sends at most
  Capacity     \* how many events may be under way, 0 for any number

VARIABLES
  sent,        \* the events sent, each as its sender and its place
  received     \* how many of them the consumer got

cvars == <<sent, received>>

Init == sent = <<>> /\ received = 0

Count(s) == Cardinality({i \in DOMAIN sent : sent[i][1] = s})

(* A sender goes on from where it was, as far as n events fit.             *)
Send(s, n) ==
  /\ Count(s) + n <= Amount[s]
  /\ Capacity > 0 => Len(sent) + n - received <= Capacity
  /\ sent' = sent \o [i \in 1..n |-> <<s, Count(s) + i>>]
  /\ UNCHANGED received

Receive ==
  /\ received < Len(sent)
  /\ received' = received + 1
  /\ UNCHANGED sent

Next == Receive \/ \E s \in Senders : \E n \in 1..Amount[s] : Send(s, n)

Spec == Init /\ [][Next]_cvars
=============================================================================
