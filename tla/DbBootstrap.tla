---------------------------- MODULE DbBootstrap ----------------------------
(***************************************************************************)
(* The DbBootstrap stack: the custom resource that CloudFormation creates  *)
(* through the dbbootstrap lambda, which lays the schema and the database  *)
(* users in the RDS database and leaves their jdbc urls in SSM.  A request *)
(* reaches the lambda at least once: a run that times out is retried, and  *)
(* the same event may be delivered again while another run is under way.   *)
(*                                                                         *)
(* The passwords a run generates are named by the run.  What the stack and *)
(* the database go through outside the lambda is external.                 *)
(***************************************************************************)
EXTENDS Naturals, Sequences

CONSTANTS
    LambdaRuns,     \* runs of the lambda for Create requests, each used once
    MaxCreates,     \* bound: Create requests of the custom resource
    MaxDbs          \* bound: database instances, one after the other

ASSUME BootAssumption ==
    /\ "none" \notin LambdaRuns
    /\ MaxCreates \in Nat \ {0}
    /\ MaxDbs \in Nat \ {0}

VARIABLES
    stack,      \* the DbBootstrap stack
    creates,    \* creates[c]: the database that the c-th Create request names
    db,         \* the database instance and whose bootstrap it holds
    ssm,        \* whose passwords the two jdbc url parameters hold
    run         \* run[i]: how far a run of the lambda is, and its request

bootVars == <<stack, creates, db, ssm, run>>

-----------------------------------------------------------------------------
NoRun == "none"

BootTypeOK ==
    /\ stack \in {"none", "creating", "complete", "failed"}
    /\ creates \in Seq(1 .. MaxDbs) /\ Len(creates) <= MaxCreates
    /\ db \in [instance : 1 .. MaxDbs, boot : LambdaRuns \cup {NoRun}]
    /\ ssm \in [url : LambdaRuns \cup {NoRun}, test : LambdaRuns \cup {NoRun}]
    /\ run \in [LambdaRuns ->
                    [pc : {"unused", "begun", "schema", "committed", "url", "urls", "over"},
                     request : 0 .. MaxCreates]]

BootInit ==
    /\ stack = "none"
    /\ creates = <<>>
    /\ db = [instance |-> 1, boot |-> NoRun]
    /\ ssm = [url |-> NoRun, test |-> NoRun]
    /\ run = [i \in LambdaRuns |-> [pc |-> "unused", request |-> 0]]

Goto(i, pc) == run' = [run EXCEPT ![i].pc = pc]

\* cfnresponse.send: the first answer to the request under way decides;
\* answers to earlier requests go to urls nobody reads.
Answer(i, state) ==
    stack' = IF stack = "creating" /\ run[i].request = Len(creates) THEN state ELSE stack

-----------------------------------------------------------------------------
(* The stack and the database, as CloudFormation and RDS keep them.        *)

CreateStack ==
    /\ stack = "none"
    /\ Len(creates) < MaxCreates
    /\ stack' = "creating"
    /\ creates' = Append(creates, db.instance)
    /\ UNCHANGED <<db, ssm, run>>

\* No answer came in the hour there is for one.
CreateTimesOut ==
    /\ stack = "creating"
    /\ stack' = "failed"
    /\ UNCHANGED <<creates, db, ssm, run>>

\* The rollback of a failed stack, or the removal of one that is complete.
\* The lambda answers the Delete request and takes nothing back.
DeleteStack ==
    /\ stack \in {"failed", "complete"}
    /\ stack' = "none"
    /\ UNCHANGED <<creates, db, ssm, run>>

\* A new instance takes RDS longer than the minute a run of the lambda has.
ReplaceDb ==
    /\ stack = "none"
    /\ db.instance < MaxDbs
    /\ \A i \in LambdaRuns : run[i].pc \in {"unused", "over"}
    /\ db' = [instance |-> db.instance + 1, boot |-> NoRun]
    /\ UNCHANGED <<stack, creates, ssm, run>>

-----------------------------------------------------------------------------
(* The lambda, for a Create request.                                       *)

Begin(i) ==
    /\ run[i].pc = "unused"
    /\ \E c \in 1 .. Len(creates) : run' = [run EXCEPT ![i] = [pc |-> "begun", request |-> c]]
    /\ UNCHANGED <<stack, creates, db, ssm>>

\* Mutant: types, tables and roles are created "if not exists" and the users'
\* passwords set again.
LaySchema_IfNotExists(i) ==
    /\ run[i].pc = "begun"
    /\ creates[run[i].request] = db.instance
    /\ \A k \in LambdaRuns : run[k].pc # "schema"
    /\ Goto(i, "schema")
    /\ UNCHANGED <<stack, creates, db, ssm>>

\* The secret of the request's database is read, and the schema, the roles and
\* the mcusers are created in one transaction.  The extension and the functions
\* may be there already, the types, tables and roles may not; another run that
\* is doing the same is waited for.
LaySchema(i) ==
    /\ run[i].pc = "begun"
    /\ creates[run[i].request] = db.instance
    /\ db.boot = NoRun
    /\ \A k \in LambdaRuns : run[k].pc # "schema"
    /\ Goto(i, "schema")
    /\ UNCHANGED <<stack, creates, db, ssm>>

Commit(i) ==
    /\ run[i].pc = "schema"
    /\ db' = [db EXCEPT !.boot = i]
    /\ Goto(i, "committed")
    /\ UNCHANGED <<stack, creates, ssm>>

PutUrl(i) ==
    /\ run[i].pc = "committed"
    /\ ssm' = [ssm EXCEPT !.url = i]
    /\ Goto(i, "url")
    /\ UNCHANGED <<stack, creates, db>>

PutTestUrl(i) ==
    /\ run[i].pc = "url"
    /\ ssm' = [ssm EXCEPT !.test = i]
    /\ Goto(i, "urls")
    /\ UNCHANGED <<stack, creates, db>>

Succeed(i) ==
    /\ run[i].pc = "urls"
    /\ Answer(i, "complete")
    /\ Goto(i, "over")
    /\ UNCHANGED <<creates, db, ssm>>

\* A call of the lambda raises: the secret, the connection, a statement, the
\* commit or a put_parameter, or only its acknowledgement is lost.  What is
\* committed stays.
FailRun(i) ==
    /\ run[i].pc \notin {"unused", "over"}
    /\ db' \in {db} \cup IF run[i].pc = "schema" THEN {[db EXCEPT !.boot = i]} ELSE {}
    /\ Answer(i, "failed")
    /\ Goto(i, "over")
    /\ UNCHANGED <<creates, ssm>>

\* The timeout of 60 seconds, or cfnresponse.send that cannot deliver.
CutOff(i) ==
    /\ run[i].pc \notin {"unused", "over"}
    /\ Goto(i, "over")
    /\ UNCHANGED <<stack, creates, db, ssm>>

Lambda(i) ==
    \/ Begin(i) \/ LaySchema(i) \/ Commit(i) \/ PutUrl(i) \/ PutTestUrl(i)
    \/ Succeed(i) \/ FailRun(i) \/ CutOff(i)

-----------------------------------------------------------------------------
\* When the stack is complete, both jdbc urls carry the passwords that the
\* database users have, of one run that served the Create request answered:
\* neither a retried nor a late run, nor a bootstrap given up half way, leaves
\* the two stores apart behind a stack that says it is complete.
UrlsNameThePasswords ==
    stack = "complete" =>
        /\ db.boot # NoRun
        /\ ssm = [url |-> db.boot, test |-> db.boot]
        /\ run[db.boot].request = Len(creates)

\* The database holds the bootstrap of a run that is over, of which no stack
\* says that it is complete.
Wedged ==
    /\ db.boot # NoRun /\ run[db.boot].pc = "over"
    /\ stack # "complete"

\* Delete and Update requests are no-ops (dbbootstrap.py 180): from then on no
\* Create succeeds, however often it is asked for and the lambda run, until the
\* database itself is replaced.
WedgedUntilReplaced == [][Wedged => Wedged' \/ ReplaceDb]_bootVars
=============================================================================
