--------------------------- MODULE MemberRegistry ---------------------------
(***************************************************************************)
(* What the member tables promise their callers: a registry of members     *)
(* that changes one whole member at a time, in which no two members share  *)
(* an employee key or a username, and in which addresses and visits belong *)
(* to members that are there.  MemberDb is shown to implement it.          *)
(***************************************************************************)

CONSTANTS Mids, Emps, Usernames, AddressNames

VARIABLES
    members,    \* members[m]: its keys; emp is "NONE" or "DELETED" when there
                \* is no such member yet or any more
    addresses,  \* pairs of a member and an address name
    visits      \* the members that have logged in or out

registryVars == <<members, addresses, visits>>

Present(m) == members[m].emp \notin {"NONE", "DELETED"}

Keys(emp, username) == [emp |-> emp, username |-> username]

\* No member other than m goes by these keys.
FreeFor(m, emp, username) ==
    \A n \in Mids \ {m} :
        Present(n) => members[n].emp # emp /\ members[n].username # username

RegistryInit ==
    /\ members = [m \in Mids |-> Keys("NONE", "NONE")]
    /\ addresses = {}
    /\ visits = {}

Add(m, emp, username) ==
    /\ members[m].emp = "NONE"
    /\ FreeFor(m, emp, username)
    /\ members' = [members EXCEPT ![m] = Keys(emp, username)]
    /\ UNCHANGED <<addresses, visits>>

Update(m, emp, username) ==
    /\ Present(m)
    /\ FreeFor(m, emp, username)
    /\ members' = [members EXCEPT ![m] = Keys(emp, username)]
    /\ UNCHANGED <<addresses, visits>>

\* A member goes with everything that belongs to it, for good.
Delete(m) ==
    /\ Present(m)
    /\ members' = [members EXCEPT ![m] = Keys("DELETED", "NONE")]
    /\ addresses' = {a \in addresses : a[1] # m}
    /\ visits' = visits \ {m}

AddAddress(m, name) ==
    /\ Present(m)
    /\ <<m, name>> \notin addresses
    /\ addresses' = addresses \cup {<<m, name>>}
    /\ UNCHANGED <<members, visits>>

RemoveAddress(m, name) ==
    /\ <<m, name>> \in addresses
    /\ addresses' = addresses \ {<<m, name>>}
    /\ UNCHANGED <<members, visits>>

Visit(m) ==
    /\ Present(m)
    /\ visits' = visits \cup {m}
    /\ UNCHANGED <<members, addresses>>

RegistryNext ==
    \E m \in Mids :
        \/ \E e \in Emps, u \in Usernames : Add(m, e, u) \/ Update(m, e, u)
        \/ Delete(m)
        \/ Visit(m)
        \/ \E a \in AddressNames : AddAddress(m, a) \/ RemoveAddress(m, a)

RegistrySpec == RegistryInit /\ [][RegistryNext]_registryVars
=============================================================================
