-------------------------------- MODULE Roles --------------------------------
(***************************************************************************)
(* RBACManager (libs/auth/rbac.go): a table of roles that inherit from     *)
(* each other, edited under a lock while requests ask whether one of their *)
(* roles carries a permission.  Each role is looked at under a read lock   *)
(* of its own, so that an answer may rest on several versions of the table.*)
(*                                                                         *)
(* Permissions that the default roles list alike are represented by one.   *)
(* A role's permissions are a set: the code does not look at their order,  *)
(* adds none that is there, and AddRole is assumed to be called with a list*)
(* that names each of them once.                                           *)
(***************************************************************************)
EXTENDS Naturals, Sequences, FiniteSets, Functions

CONSTANTS
  NewRoles,   \* names of roles beyond the default ones
  Drafts,     \* the roles AddRole is called with
  Questions,  \* what checks ask for: sequences of roles and of permissions
  Edits,      \* the permissions added to and removed from roles
  Checks,     \* calls of CheckAccess and CheckAnyAccess
  MaxEdits,   \* bound on the changes of the table
  NoRole      \* no such role

VARIABLES
  table,   \* r.roles
  check,   \* each call: what it asks about, and how far it has got
  edits,   \* changes made
  ever,    \* history: the pairs of a call that held at some time during it
  always   \* history: the pairs of a call that held all through it

roleVars == <<table, check, edits, ever, always>>

DefaultNames == {"user", "merchant", "operator", "admin", "service", "superadmin"}
Names == DefaultNames \cup NewRoles

DefaultPermissions ==
  {"transaction:read", "transaction:create", "transaction:update", "transaction:refund",
   "account:freeze", "admin:access", "api:write"}
Permissions == DefaultPermissions \cup Edits

RoleRecords == [permissions : SUBSET Permissions, inherits : Seq(Names)]

ASSUME RolesAssumption ==
  /\ MaxEdits \in Nat
  /\ DefaultNames \cap NewRoles = {} /\ IsFiniteSet(NewRoles)
  /\ Drafts \subseteq RoleRecords
  /\ Questions \subseteq Seq(Names) \X Seq(Permissions)

Role(permissions, inherits) == [permissions |-> permissions, inherits |-> inherits]

(* initDefaultRoles                                                        *)
DefaultRoles ==
  LET made ==
        [user |-> Role({"transaction:read", "transaction:create"}, <<>>),
         merchant |-> Role({"transaction:read", "transaction:create",
                            "transaction:update", "transaction:refund"}, <<"user">>),
         operator |-> Role({"transaction:read", "account:freeze"}, <<"user">>),
         admin |-> Role({"admin:access"}, <<"operator", "merchant">>),
         service |-> Role({"transaction:read", "transaction:create",
                           "transaction:update", "api:write"}, <<>>),
         superadmin |-> Role({}, <<"admin">>)]
  IN  [n \in Names |-> IF n \in DefaultNames THEN made[n] ELSE NoRole]

(* A call: the roles and permissions it asks about, and which of each its  *)
(* two loops have reached.                                                 *)
Call(at, names, permissions) ==
  [at |-> at, names |-> names, permissions |-> permissions, role |-> 1, permission |-> 1]

RolesInit ==
  /\ table = DefaultRoles
  /\ check = [c \in Checks |-> Call("idle", <<>>, <<>>)]
  /\ edits = 0
  /\ ever = [c \in Checks |-> {}]
  /\ always = [c \in Checks |-> {}]

-----------------------------------------------------------------------------
(* getAllPermissionsRecursive: a walk that shares the set of roles it has  *)
(* visited, so that cycles end, and skips roles that do not exist.  The    *)
(* roles to do are what the loops over Inherits have left, the innermost   *)
(* loop's first.                                                           *)
Collect(t, name, before) ==
  LET walk[w \in Seq(Names) \X SUBSET Names] ==
        LET todo == w[1]
            visited == w[2] \cup {Head(todo)}
        IN  IF todo = <<>> THEN {}
            ELSE IF Head(todo) \in w[2] \/ t[Head(todo)] = NoRole
              THEN walk[<<Tail(todo), visited>>]
            ELSE t[Head(todo)].permissions
                   \cup walk[<<t[Head(todo)].inherits \o Tail(todo), visited>>]
  IN  walk[<< <<name>>, before>>]

HasPermission_Mutant(t, name, permission) ==
  permission \in Collect(t, name, {"user"})
HasPermission(t, name, permission) ==
  name = "superadmin" \/ permission \in Collect(t, name, {})

(* What inheritance means: a role has the permissions of every role that   *)
(* can be reached from it through roles that exist.                        *)
Parents(t, name) == IF t[name] = NoRole THEN {} ELSE Range(t[name].inherits)

Ancestors(t, name) ==
  LET within[n \in Nat] ==
        IF n = 0 THEN {name}
        ELSE within[n - 1] \cup UNION {Parents(t, x) : x \in within[n - 1]}
  IN  within[Cardinality(Names)]

Entitled(t, name, permission) ==
  \/ name = "superadmin"
  \/ \E x \in Ancestors(t, name) : t[x] # NoRole /\ permission \in t[x].permissions

-----------------------------------------------------------------------------
(* CheckAnyAccess, and CheckAccess, which asks for one permission: for     *)
(* each role each permission.  The middleware refuses a request with no    *)
(* roles outright.                                                         *)
Asked(k) ==
  {<<k.names[i], k.permissions[j]>> : i \in DOMAIN k.names, j \in DOMAIN k.permissions}

Carried(t, pairs) == {p \in pairs : Entitled(t, p[1], p[2])}

CheckAccess(c, names, permissions) ==
  LET k == Call(IF names = <<>> THEN "denied" ELSE "checking", names, permissions)
  IN  /\ check[c].at # "checking"
      /\ check' = [check EXCEPT ![c] = k]
      /\ ever' = [ever EXCEPT ![c] = Carried(table, Asked(k))]
      /\ always' = [always EXCEPT ![c] = Carried(table, Asked(k))]
      /\ UNCHANGED <<table, edits>>

Ended(k) == k.role > Len(k.names) \/ k.permissions = <<>>

Further(k) ==
  IF k.permission < Len(k.permissions) THEN [k EXCEPT !.permission = @ + 1]
  ELSE [Call(k.at, k.names, k.permissions) EXCEPT !.role = k.role + 1]

(* HasPermission of the next pair, under the read lock.                    *)
Look(c) ==
  LET k == check[c]
  IN  /\ k.at = "checking"
      /\ check' = [check EXCEPT ![c] =
           IF Ended(k) THEN [k EXCEPT !.at = "denied"]
           ELSE IF HasPermission(table, k.names[k.role], k.permissions[k.permission])
             THEN [k EXCEPT !.at = "granted"]
           ELSE Further(k)]
      /\ UNCHANGED <<table, edits, ever, always>>

(* The administrators' operations, each under the lock.                    *)
Edit(t) ==
  /\ edits < MaxEdits
  /\ edits' = edits + 1
  /\ table' = t
  /\ ever' = [c \in Checks |->
       IF check[c].at = "checking" THEN ever[c] \cup Carried(t, Asked(check[c])) ELSE ever[c]]
  /\ always' = [c \in Checks |->
       IF check[c].at = "checking" THEN always[c] \cap Carried(t, Asked(check[c]))
       ELSE always[c]]
  /\ UNCHANGED check

AddRole(name, role) == Edit([table EXCEPT ![name] = role])

RemoveRole(name) ==
  /\ table[name] # NoRole
  /\ Edit([table EXCEPT ![name] = NoRole])

AddPermissionToRole(name, permission) ==
  /\ table[name] # NoRole
  /\ permission \notin table[name].permissions
  /\ Edit([table EXCEPT ![name].permissions = @ \cup {permission}])

RemovePermissionFromRole(name, permission) ==
  /\ table[name] # NoRole
  /\ permission \in table[name].permissions
  /\ Edit([table EXCEPT ![name].permissions = @ \ {permission}])

Administer ==
  \E name \in Names :
    \/ \E role \in Drafts : AddRole(name, role)
    \/ RemoveRole(name)
    \/ \E p \in Edits : AddPermissionToRole(name, p) \/ RemovePermissionFromRole(name, p)

RolesNext ==
  \/ Administer
  \/ \E c \in Checks : Look(c) \/ \E q \in Questions : CheckAccess(c, q[1], q[2])

RolesSpec == RolesInit /\ [][RolesNext]_roleVars

-----------------------------------------------------------------------------
RolesTypeOK ==
  /\ table \in [Names -> RoleRecords \cup {NoRole}]
  /\ check \in [Checks -> [at : {"idle", "checking", "granted", "denied"},
                          names : Seq(Names), permissions : Seq(Permissions),
                          role : Nat \ {0}, permission : Nat \ {0}]]
  /\ edits \in 0 .. MaxEdits
  /\ ever \in [Checks -> SUBSET (Names \X Permissions)]
  /\ always \in [Checks -> SUBSET (Names \X Permissions)]

(* A check that grants access rests on a role that carried the permission  *)
(* at some time during the check, one that denies it on every role asked   *)
(* having lacked it at some time -- although the table is edited between   *)
(* the looks at single roles; and a look at a role finds exactly what the  *)
(* role inherits, also where roles inherit from each other in a circle or  *)
(* from roles that have been removed.                                      *)
AccessJustified ==
  /\ \A c \in Checks :
       /\ check[c].at = "granted" => ever[c] # {}
       /\ check[c].at = "denied" => always[c] = {}
  /\ \A c \in Checks : \A pair \in Asked(check[c]) :
       HasPermission(table, pair[1], pair[2]) <=> Entitled(table, pair[1], pair[2])
=============================================================================
