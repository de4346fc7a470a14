--------------------------- MODULE McuserAccounts ---------------------------
(***************************************************************************)
(* Mcuser rows as administrators change them: the arguments of the GraphQL *)
(* mutations go through McuserXfrm and McuserValidator to MCorpusUserRepo. *)
(* A field that an update does not name is Null.  Of the fields only the   *)
(* status and the roles are kept; the rows there are at first come from    *)
(* the mcorpus-mcuser.csv that dbbootstrap.py loads.                       *)
(***************************************************************************)
CONSTANTS
    Mcusers,    \* mcuser uids
    Roles       \* the roles of McuserRole in use

AllRoles == {"MEMBER", "MCORPUS", "MPII", "ADMIN"}

ASSUME RolesAssumption == Roles \subseteq AllRoles

VARIABLE mcuser     \* mcuser[u]: the row, or Deleted

Null == "null"
NullRoles == {Null}     \* a list of roles that is not there
Deleted == [status |-> "DELETED", roles |-> {}]

Statuses == {"ACTIVE", "INACTIVE"}

Row == [status : Statuses, roles : SUBSET Roles]

Present(u) == mcuser[u].status \in Statuses

\* What an update may name, the mcuser's id apart.
McuserToUpdate == [status : Statuses \cup {Null},
                   roles : (SUBSET Roles) \cup {NullRoles}]

\* The roles of mcusers that may do what a field or mutation asks of target.
Satisfying(target) ==
    CASE target = "ADMIN"   -> {"ADMIN"}
      [] target = "MPII"    -> {"MPII", "ADMIN"}
      [] target = "MCORPUS" -> {"MCORPUS", "ADMIN"}
      [] target = "MEMBER"  -> {"MEMBER", "MCORPUS", "ADMIN"}

IsAuthorized(target, requesting) == requesting \cap Satisfying(target) # {}

\* mcuserRolesArrayFromStringCollection: roles not named become no roles.
RolesArray(roles) == IF roles = NullRoles THEN {} ELSE roles

ToBackend(named) == [status |-> named.status, roles |-> RolesArray(named.roles)]

\* fputWhenNotNull: a column is set when its value is not null.
WhenNotNull(value, null, old) == IF value = null THEN old ELSE value

\* BaseValidator refuses an update that names nothing; one that names neither
\* status nor roles names another field.
UpdateMcuser(u, named) ==
    /\ Present(u)
    /\ LET d == ToBackend(named)
       IN  mcuser' = [mcuser EXCEPT ![u] =
                         [status |-> WhenNotNull(d.status, Null, @.status),
                          roles  |-> WhenNotNull(d.roles, NullRoles, @.roles)]]

DeleteMcuser(u) ==
    /\ Present(u)
    /\ mcuser' = [mcuser EXCEPT ![u] = Deleted]
=============================================================================
