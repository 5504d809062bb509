------------------------------ MODULE Delivery ------------------------------
(***************************************************************************)
(* What Anywise.publish promises to the publisher of an event, by whatever *)
(* strategy: each listener is called at most once; it is over when the     *)
(* publisher gets its verdict, and none is called after it; the verdict is *)
(* an error exactly if a listener raised, and "ok" only if all were        *)
(* called.  An event that is refused, because it has no listener or one    *)
(* cannot be resolved, reaches none.                                       *)
(***************************************************************************)
EXTENDS Naturals

CONSTANTS
  Events,      \* the events that are published
  Audience     \* the listeners of each event

VARIABLES
  called,      \* the listeners that were called for each event
  busy,        \* those of them that the publisher still waits for
  failed,      \* those that raised
  verdict      \* what the publisher got

dvars == <<called, busy, failed, verdict>>

Verdict == {"refused", "ok", "error", "CancelledError"}

Init ==
  /\ called = [e \in Events |-> {}]
  /\ busy = [e \in Events |-> {}]
  /\ failed = [e \in Events |-> {}]
  /\ verdict = [e \in Events |-> "pending"]

Call(e, listener) ==
  /\ verdict[e] = "pending"
  /\ listener \notin called[e]
  /\ called' = [called EXCEPT ![e] = @ \cup {listener}]
  /\ busy' = [busy EXCEPT ![e] = @ \cup {listener}]
  /\ UNCHANGED <<failed, verdict>>

(* Listeners end, or are no longer waited for; one of them may raise.      *)
End(e, some, raised) ==
  /\ some \subseteq busy[e] /\ raised \subseteq some
  /\ busy' = [busy EXCEPT ![e] = @ \ some]
  /\ failed' = [failed EXCEPT ![e] = @ \cup raised]
  /\ UNCHANGED <<called, verdict>>

Conclude(e, v) ==
  /\ verdict[e] = "pending"
  /\ busy[e] = {}
  /\ v = "error" <=> failed[e] # {}
  /\ v = "ok" => called[e] = Audience[e]
  /\ v = "refused" => called[e] = {}
  /\ verdict' = [verdict EXCEPT ![e] = v]
  /\ UNCHANGED <<called, busy, failed>>

Next ==
  \E e \in Events :
    \/ \E listener \in Audience[e] : Call(e, listener)
    \/ \E some \in SUBSET busy[e] : \E raised \in SUBSET some : End(e, some, raised)
    \/ \E v \in Verdict : Conclude(e, v)

Spec == Init /\ [][Next]_dvars
=============================================================================
