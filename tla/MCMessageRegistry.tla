------------------------- MODULE MCMessageRegistry --------------------------
(***************************************************************************)
(* A small instance of MessageRegistry: a command base with a diamond      *)
(* below it and an event; a registry with both bases, one with either; a   *)
(* function, a function for a command and an event, a service class; a     *)
(* guard class, a guard function and a guard object.                       *)
(***************************************************************************)
EXTENDS MessageRegistry, TLC

CONSTANTS Command, Create, Grant, CreateAdmin, Created,
          users, audit, feed, on_create, mixed, Service, check, trace, obj

MCTypes == {AnyType, Command, Create, Grant, CreateAdmin, Created}

MCBases ==
  AnyType :> {} @@ Command :> {} @@ Create :> {Command} @@ Grant :> {Command}
    @@ CreateAdmin :> {Create, Grant} @@ Created :> {}

MCFirstTypes == {AnyType, Command, Create, Grant, Created}

MCCommandBase == users :> Command @@ audit :> Command @@ feed :> MISSING
MCEventBase   == users :> Created @@ audit :> MISSING @@ feed :> Created

(* The methods of a service are taken by name; one listens to an event.    *)
MCSignatures ==
  on_create :> <<{Create}>> @@ mixed :> <<{Create, Created}>>
    @@ Service :> <<{Command}, {Created}, {Grant, Create}>>

MCGuardTarget == check :> {Command} @@ trace :> {AnyType, Grant} @@ obj :> {Create}

(* register(Service, on_create, check), where check is a BaseGuard, and     *)
(* register(Service, mixed, on_create, pre_hanldes=[trace]), which a       *)
(* registry with both bases refuses at mixed; add_guards raises at obj.    *)
MCRegisterCalls ==
  users :> {<<Service, on_create, check>>, <<Service, mixed, on_create, trace>>}
    @@ audit :> {<<Service, mixed, on_create, trace>>} @@ feed :> {<<Service>>}

MCGuardCalls == users :> {<<check, trace, obj, check>>} @@ audit :> {} @@ feed :> {}
=============================================================================
