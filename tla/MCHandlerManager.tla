-------------------------- MODULE MCHandlerManager --------------------------
(***************************************************************************)
(* Small instances of HandlerManager: messages of two registered types A   *)
(* and B and of an unregistered one, and the lists of guards that each     *)
(* run of the model checker combines.                                      *)
(***************************************************************************)
EXTENDS HandlerManager, TLC

CONSTANTS s1, s2, s3, s4, A, B, Unknown, scope, mark, timer, log, limit

MCTypes == {A, B, Unknown}

(* Two messages of type A and one of type B.                               *)
MCSends3  == {s1, s2, s3}
MCTypeOf3 == s1 :> A @@ s2 :> A @@ s3 :> B

(* One message of each registered type.                                    *)
MCSends2  == {s1, s2}
MCTypeOf2 == s1 :> A @@ s2 :> B

(* One of type A, two of type B, and one that nobody handles.              *)
MCSends4  == {s1, s2, s3, s4}
MCTypeOf4 == s1 :> A @@ s2 :> B @@ s3 :> B @@ s4 :> Unknown

MCOwnScopes == [t \in Sends |-> NoScope]

(* The first send is passed a scope, the others open their own.            *)
MCOneScope == [t \in Sends |-> IF t = s1 THEN scope ELSE NoScope]

(* One global pre_handle, a subclass for A and B, and a post_handle for B. *)
MCGlobalPre    == <<mark>>
MCFewGuards    == A :> <<limit>> @@ B :> <<limit, log>> @@ Unknown :> <<>>

MCUnguarded    == A :> <<>> @@ B :> <<>> @@ Unknown :> <<>>

(* A post_handle for all, which is passed without giving up the event      *)
(* loop, then a subclass that each message has its own object of; the two  *)
(* messages of type B share a pre_handle besides.                          *)
MCGlobalPost   == <<log>>
MCApartGuards  == A :> <<limit>> @@ B :> <<timer, limit>> @@ Unknown :> <<>>
=============================================================================
