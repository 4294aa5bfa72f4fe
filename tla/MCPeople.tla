------------------------------- MODULE MCPeople -------------------------------
(* Values for People, for TLC. *)
EXTENDS People

CONSTANTS a, b, c, mailA, mailB

MCRegistered == a :> mailA @@ b :> mailB

\* The two users are alike, and so are requests and devices.
Swapped == (a :> b @@ b :> a @@ mailA :> mailB @@ mailB :> mailA)
Kept == (a :> a @@ b :> b @@ mailA :> mailA @@ mailB :> mailB)
PeopleSymmetry ==
    {w @@ x @@ y @@ z : w \in {Kept, Swapped}, x \in Permutations(AccountTasks),
                        y \in Permutations(FriendTasks), z \in Permutations(Devices)}
=============================================================================
