---------------------------- MODULE Permissions ----------------------------
(***************************************************************************)
(* The access control lists (acl.ts): what a role allows, which roles it   *)
(* inherits from, and what the routes and their handlers ask for.          *)
(***************************************************************************)
EXTENDS Naturals, FiniteSets

Roles == {"root", "admin", "moderator", "contributor", "game-contributor",
          "release-contributor", "backglass-contributor", "member"}

On(resource, permissions) == {resource} \X permissions

\* acl.allow; the role of the tests, mocha, is left out.
Allows(role) ==
  CASE role = "admin" ->
         On("tokens", {"provider-token"}) \cup On("roles", {"list"}) \cup On("cache", {"delete"})
         \cup On("users", {"update", "list", "full-details", "send-confirmation"})
    [] role = "moderator" ->
         On("backglasses", {"delete", "moderate", "update", "view-restricted"})
         \cup On("builds", {"delete", "update"}) \cup On("files", {"blockmatch"})
         \cup On("games", {"delete"}) \cup On("game_requests", {"list", "update", "delete"})
         \cup On("media", {"delete"}) \cup On("tags", {"delete"})
         \cup On("releases", {"moderate", "view-restricted", "update", "validate"})
         \cup On("roms", {"delete", "view-restricted"})
    [] role = "contributor"           -> On("roms", {"add", "delete-own"})
    [] role = "game-contributor"      -> On("games", {"update", "add"}) \cup On("ipdb", {"view"})
    [] role = "release-contributor"   -> On("releases", {"auto-approve"})
    [] role = "backglass-contributor" -> On("backglasses", {"auto-approve"})
    [] role = "member" ->
         On("backglasses", {"add", "delete-own", "update-own", "star"})
         \cup On("builds", {"add", "delete-own"}) \cup On("comments", {"add", "update-own"})
         \cup On("files", {"download", "delete-own", "upload"})
         \cup On("games", {"rate", "star", "add-og", "update-own"})
         \cup On("game_requests", {"add", "delete-own"}) \cup On("messages", {"receive"})
         \cup On("media", {"add", "delete-own", "star"})
         \cup On("releases", {"add", "delete-own", "update-own", "rate", "star"})
         \cup On("tags", {"add", "delete-own"})
         \cup On("tokens", {"add", "delete-own", "update-own", "list"})
         \cup On("user", {"view", "update"}) \cup On("users", {"view", "search", "star"})
    [] OTHER -> {}

\* acl.addRoleParents.
Parents(role) ==
  CASE role = "root"        -> {"admin", "moderator"}
    [] role = "moderator"   -> {"contributor"}
    [] role = "contributor" -> {"game-contributor", "release-contributor", "backglass-contributor"}
    [] role \in {"admin", "game-contributor", "release-contributor", "backglass-contributor"} -> {"member"}
    [] OTHER -> {}

\* The roles of a user and those they inherit from, within n generations.
Inherited(roles) ==
  LET up[n \in 0 .. Cardinality(Roles)] ==
        IF n = 0 THEN roles ELSE up[n - 1] \cup UNION {Parents(r) : r \in up[n - 1]}
  IN  up[Cardinality(Roles)]

Permitted == [role \in Roles |-> UNION {Allows(r) : r \in Inherited({role})}]

\* acl.isAllowed for a user with these roles.
IsAllowed(roles, permission) == \E r \in roles : permission \in Permitted[r]

=============================================================================
