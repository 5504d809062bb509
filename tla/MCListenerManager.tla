------------------------- MODULE MCListenerManager --------------------------
(***************************************************************************)
(* A small instance of ListenerManager: an event type with three listeners, *)
(* one of them a function that runs in a thread and one a method, and one   *)
(* that nobody listens to.                                                 *)
(***************************************************************************)
EXTENDS ListenerManager, TLC

CONSTANTS e1, e2, e3, Paid, Unheard, mail, audit, save

MCEventTypes == {Paid, Unheard}

MCListenerMetas == Paid :> <<mail, audit, save>>

(* The same event through either strategy, and one without listeners.      *)
MCPublishes  == {e1, e2, e3}
MCTypeOf     == e1 :> Paid @@ e2 :> Paid @@ e3 :> Unheard
MCPublisher  == e1 :> "default_publish" @@ e2 :> "concurrent_publish"
                  @@ e3 :> "default_publish"
=============================================================================
