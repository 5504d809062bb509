----------------------------- MODULE MCAnywise -----------------------------
(***************************************************************************)
(* A small instance of Anywise: two registries, a service with a method    *)
(* for a command and one for an event, a function for each, a guard for    *)
(* all messages and the command, a send and a publish: messages do not     *)
(* touch each other, only what is included.                                *)
(***************************************************************************)
EXTENDS Anywise, TLC

CONSTANTS Create, Created, users, plugin, Service, on_create, on_created, trace,
          s1, p1

MCTypes == {AnyType, Create, Created}

MCBases == AnyType :> {} @@ Create :> {} @@ Created :> {}

MCCommandBase == users :> Create @@ plugin :> Create
MCEventBase   == users :> Created @@ plugin :> Created

MCSignatures ==
  Service :> <<{Create}, {Created}>> @@ on_create :> <<{Create}>>
    @@ on_created :> <<{Created}>>

MCGuardTarget == trace :> {AnyType, Create}

MCRegisterCalls ==
  users :> {<<Service>>} @@ plugin :> {<<on_create, on_created>>}

MCGuardCalls == users :> {<<trace>>} @@ plugin :> {}

MCMessageType == s1 :> Create @@ p1 :> Created
=============================================================================
