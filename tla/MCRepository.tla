---------------------------- MODULE MCRepository ----------------------------
(* A resource whose rows have an owner and a status.  A subject sees its own
   rows and those of the team; only the team's rows change hands, and only
   the owner removes a row.  The status machine closes and reopens.         *)
EXTENDS Repository

CONSTANTS ann, bob, team, c1, c2, k1

Owners == Subjects \cup {team}
Owned == [owner : Owners, status : {"open", "closed"}]
OwnedFields == {"owner", "status"}
OwnedValues == Owners \cup {"open", "closed"}
OpenClose == {<<"open", "closed">>, <<"closed", "open">>}

\* c1 acts for ann and c2 for bob; or both for ann.
TwoOwners == [c \in Clients |-> IF c = c1 THEN ann ELSE bob]
OneOwner == [c \in Clients |-> ann]

OwnOrTeam == {<<s, row>> \in Subjects \X Owned : row.owner \in {s, team}}

Anything == Subjects \X Owned \X Owned
OwnerRemoves ==
  [action \in {"read", "create", "update", "patch", "remove", "transition"} |->
     CASE action = "remove" -> {<<s, row, next>> \in Anything : row.owner = s}
       [] action = "update" ->
            {<<s, row, next>> \in Anything : row.owner \in {next.owner, team}}
       [] OTHER -> Anything]

OpenSeed ==
  {[key |-> k1, row |-> [content |-> [owner |-> ann, status |-> "open"],
                         version |-> 1]]}
=============================================================================
