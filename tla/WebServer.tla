------------------------------ MODULE WebServer ------------------------------
(***************************************************************************)
(* pos-server: accounts, sessions, roles and the audit log of the control    *)
(* database, and the requests that pass through them before the api host     *)
(* sees them (control.rs, acl.rs, auth.rs, web.rs).                          *)
(*                                                                           *)
(* Every statement of the control database takes its lock for itself, so a   *)
(* request is a chain of steps between which other requests log out, sessions *)
(* expire, roles change and the process dies.                                *)
(***************************************************************************)
EXTENDS Integers, FiniteSets, Sequences, SequencesExt

CONSTANTS
    Emails,
    Accounts,         \* account ids; the workspace of a signup has its account's id
    Conns,            \* connections with a request under way
    SessionTtl,       \* SESSION_TTL_MS, in ticks
    RuntimeMax,       \* ACCOUNT_RUNTIME_COUNT_MAX
    Requested,        \* bound: the operations clients ask for
    MaxEntries,       \* bound: signups and logins
    MaxRequests,      \* bound: api requests
    MaxDisturbed,     \* bound: ticks, roles granted, statements failed,
                      \* processes killed
    NoOne

ASSUME ServerAssumption ==
    /\ SessionTtl \in Nat \ {0} /\ RuntimeMax \in Nat \ {0}
    /\ MaxEntries \in Nat
    /\ MaxRequests \in Nat /\ MaxDisturbed \in Nat
    /\ NoOne \notin Accounts
    /\ IsFiniteSet(Accounts) /\ IsFiniteSet(Conns)
    /\ Requested \subseteq {"create", "open", "export", "steps", "health", "jobs", "import"}

VARIABLES
    accounts,      \* accounts: id and email
    membership,    \* membership: role of each account in each workspace
    tokens,        \* sessions
    audit,         \* audit_log
    folders,       \* workspace directories under the data root
    runtimes,      \* ServerState.runtimes
    conn,          \* the request each connection is in
    now,
    minted,        \* tokens given out so far
    ran,           \* history: requests the api host was given
    tally          \* bounds: entries, requests and disturbances so far

serverVars == <<accounts, membership, tokens, audit, folders, runtimes, conn, now, minted, ran, tally>>

Roles == <<"viewer", "member", "admin", "owner">>
Rank(role) == IF role = "none" THEN 0 ELSE CHOOSE i \in 1..Len(Roles) : Roles[i] = role

(* The access each operation asks for, and whether it leaves an audit row.    *)
(* One operation stands for each case of the three policy tables: "import"    *)
(* for a command, query or stream that has no policy, "health" for a query    *)
(* that names no project, and "jobs" for job.list, which names one and is     *)
(* let through like those that do not.                                       *)
Policy ==
    [create |-> [access |-> "mutate", audited |-> TRUE],
     open   |-> [access |-> "read",   audited |-> TRUE],
     export |-> [access |-> "mutate", audited |-> FALSE],
     steps  |-> [access |-> "read",   audited |-> FALSE],
     health |-> [access |-> "any",    audited |-> FALSE],
     jobs   |-> [access |-> "any",    audited |-> FALSE],
     import |-> [access |-> "none",   audited |-> FALSE]]

(* A request: the account it authenticated as, the operation, the workspaces  *)
(* it names and those whose role it still has to ask for; and, as history,     *)
(* the roles the account held since the request arrived.                      *)
NoConn == [pc |-> "idle", account |-> NoOne, op |-> "health", names |-> {},
           left |-> <<>>, held |-> {}]

ServerInit ==
    /\ accounts = {}
    /\ membership = [w \in Accounts |-> [a \in Accounts |-> "none"]]
    /\ tokens = {}
    /\ audit = <<>>
    /\ folders = {}
    /\ runtimes = {}
    /\ conn = [c \in Conns |-> NoConn]
    /\ now = 0
    /\ minted = 0
    /\ ran = {}
    /\ tally = [entries |-> 0, requests |-> 0, disturbed |-> 0]

ConnAt(c, r) == conn' = [conn EXCEPT ![c] = r]
Hangs(c) == ConnAt(c, NoConn)
Disturbs == tally.disturbed < MaxDisturbed /\ tally' = [tally EXCEPT !.disturbed = @ + 1]
Enters == tally.entries < MaxEntries /\ tally' = [tally EXCEPT !.entries = @ + 1]

-----------------------------------------------------------------------------
(* signup, login, logout.                                                    *)

Taken(e) == \E x \in accounts : x.email = e

(* random_id: an id that is not in use.                                     *)
FreshId == CHOOSE a \in Accounts : a \notin {x.id : x \in accounts}

(* create_account: account, workspace and ownership in one transaction; an    *)
(* email that is taken refuses the signup.                                   *)
CreateAccount(c, e) ==
    /\ conn[c].pc = "idle"
    /\ Cardinality(accounts) < Cardinality(Accounts)
    /\ ~Taken(e)
    /\ Enters
    /\ accounts' = accounts \cup {[id |-> FreshId, email |-> e]}
    /\ membership' = [membership EXCEPT ![FreshId][FreshId] = "owner"]
    /\ ConnAt(c, [NoConn EXCEPT !.pc = "entry", !.account = FreshId])
    /\ UNCHANGED <<tokens, audit, folders, runtimes, now, minted, ran>>

(* login: the email is known and the password verifies; anything else is       *)
(* refused without a change.                                                 *)
Login(c, e) ==
    \E x \in accounts :
    /\ conn[c].pc = "idle"
    /\ x.email = e
    /\ Enters
    /\ ConnAt(c, [NoConn EXCEPT !.pc = "entry", !.account = x.id])
    /\ UNCHANGED <<accounts, membership, tokens, audit, folders, runtimes, now, minted, ran>>

(* The audit row of a signup or a login comes before its session.            *)
AuditEntry(c) ==
    /\ conn[c].pc = "entry"
    /\ audit' = Append(audit, [actor |-> conn[c].account, action |-> "auth"])
    /\ ConnAt(c, [conn[c] EXCEPT !.pc = "install"])
    /\ UNCHANGED <<accounts, membership, tokens, folders, runtimes, now, minted, ran, tally>>

InstallSession(c) ==
    /\ conn[c].pc = "install"
    /\ minted' = minted + 1
    /\ tokens' = tokens \cup {[token |-> minted, account |-> conn[c].account,
                               expires |-> now + SessionTtl]}
    /\ Hangs(c)
    /\ UNCHANGED <<accounts, membership, audit, folders, runtimes, now, ran, tally>>

(* logout is one statement, and so may fall between the steps of any request. *)
Logout(token) ==
    /\ tokens' = {t \in tokens : t.token # token}
    /\ tokens' # tokens
    /\ UNCHANGED <<accounts, membership, audit, folders, runtimes, conn, now, minted, ran, tally>>

-----------------------------------------------------------------------------
(* An api request.                                                           *)

(* The workspaces whose projects an operation opens, and those of them that   *)
(* the policy asks a role for.                                               *)
Targets(op, w, out) ==
    CASE op = "health" -> <<>>
      [] op = "export" -> <<w, out>>
      [] OTHER         -> <<w>>
Asked(op, targets) == IF Policy[op].access = "any" THEN <<>> ELSE targets

(* authenticate: the session must be there and not have expired; an expired   *)
(* one is deleted.                                                           *)
SessionLive(t) == t.expires > now

Authenticate(c, token, op, w, out) ==
    \E t \in tokens :
    /\ conn[c].pc = "idle"
    /\ tally.requests < MaxRequests
    /\ t.token = token
    /\ IF SessionLive(t)
       THEN /\ ConnAt(c, [pc |-> "authorize", account |-> t.account, op |-> op,
                          names |-> Range(Targets(op, w, out)),
                          left |-> Asked(op, Targets(op, w, out)),
                          held |-> {<<v, membership[v][t.account]>> :
                                       v \in Range(Targets(op, w, out))}])
            /\ UNCHANGED tokens
       ELSE /\ tokens' = tokens \ {t}
            /\ UNCHANGED conn
    /\ tally' = [tally EXCEPT !.requests = @ + 1]
    /\ UNCHANGED <<accounts, membership, audit, folders, runtimes, now, minted, ran>>

(* Slip of Required: a mutation asks for no more than a read.                *)
RequiredRead(access) == "viewer"

Required(access) == IF access = "mutate" THEN "member" ELSE "viewer"

(* authorize_path for the next workspace: the role is read now, and its        *)
(* directory made.                                                           *)
AuthorizePath(c) ==
    LET r == conn[c]
        w == Head(r.left)
        role == membership[w][r.account]
    IN /\ r.pc = "authorize"
       /\ Policy[r.op].access # "none"
       /\ r.left # <<>>
       /\ IF role # "none" /\ Rank(role) >= Rank(Required(Policy[r.op].access))
          THEN /\ folders' = folders \cup {w}
               /\ ConnAt(c, [r EXCEPT !.left = Tail(@)])
          ELSE /\ UNCHANGED folders
               /\ Hangs(c)
       /\ UNCHANGED <<accounts, membership, tokens, audit, runtimes, now, minted, ran, tally>>

(* No policy is registered for the operation.                                *)
NoPolicy(c) ==
    /\ conn[c].pc = "authorize"
    /\ Policy[conn[c].op].access = "none"
    /\ Hangs(c)
    /\ UNCHANGED <<accounts, membership, tokens, audit, folders, runtimes, now, minted, ran, tally>>

(* The audit row of an operation that has one.                               *)
AuditOperation(c) ==
    LET r == conn[c] IN
    /\ r.pc = "authorize"
    /\ Policy[r.op].access # "none"
    /\ r.left = <<>>
    /\ audit' = IF Policy[r.op].audited
                THEN Append(audit, [actor |-> r.account, action |-> r.op])
                ELSE audit
    /\ ConnAt(c, [r EXCEPT !.pc = "runtime"])
    /\ UNCHANGED <<accounts, membership, tokens, folders, runtimes, now, minted, ran, tally>>

RuntimesFull(a) == a \notin runtimes /\ Cardinality(runtimes) >= RuntimeMax

(* runtime_for_account; the request is refused when the process has all the   *)
(* runtimes it may have.                                                     *)
RuntimeForAccount(c) ==
    LET a == conn[c].account IN
    /\ conn[c].pc = "runtime"
    /\ IF RuntimesFull(a)
       THEN Hangs(c) /\ UNCHANGED runtimes
       ELSE ConnAt(c, [conn[c] EXCEPT !.pc = "run"]) /\ runtimes' = runtimes \cup {a}
    /\ UNCHANGED <<accounts, membership, tokens, audit, folders, now, minted, ran, tally>>

(* respond_command, respond_query, respond_stream.                           *)
Respond(c) ==
    LET r == conn[c] IN
    /\ conn[c].pc = "run"
    /\ ran' = ran \cup {[n |-> Cardinality(ran), account |-> r.account, op |-> r.op,
                         names |-> r.names, held |-> r.held]}
    /\ Hangs(c)
    /\ UNCHANGED <<accounts, membership, tokens, audit, folders, runtimes, now, minted, tally>>

-----------------------------------------------------------------------------
(* Between the steps of a request.                                           *)

(* A control statement fails, or the runtime cannot start its workers: the     *)
(* request is refused and what it did before stays.                          *)
StatementFails(c) ==
    /\ conn[c].pc \in {"entry", "install", "authorize", "runtime"}
    /\ Disturbs
    /\ Hangs(c)
    /\ UNCHANGED <<accounts, membership, tokens, audit, folders, runtimes, now, minted, ran>>

(* The process is killed and started again: the control database stays.      *)
ServerKilled ==
    /\ Disturbs
    /\ conn' = [c \in Conns |-> NoConn]
    /\ runtimes' = {}
    /\ UNCHANGED <<accounts, membership, tokens, audit, folders, now, minted, ran>>

(* grant_membership: replaces the role an account has in a workspace.        *)
GrantMembership(w, a, role) ==
    /\ {w, a} \subseteq {x.id : x \in accounts}
    /\ Disturbs
    /\ membership[w][a] # role
    /\ membership' = [membership EXCEPT ![w][a] = role]
    /\ conn' = [c \in Conns |->
                  IF conn[c].account = a /\ w \in conn[c].names
                  THEN [conn[c] EXCEPT !.held = @ \cup {<<w, role>>}] ELSE conn[c]]
    /\ UNCHANGED <<accounts, tokens, audit, folders, runtimes, now, minted, ran>>

ServerTick ==
    /\ Disturbs
    /\ now' = now + 1
    /\ UNCHANGED <<accounts, membership, tokens, audit, folders, runtimes, conn, minted, ran>>

ServerNext ==
    \/ \E c \in Conns :
         \/ \E e \in Emails : CreateAccount(c, e)
         \/ \E e \in Emails : Login(c, e)
         \/ AuditEntry(c)
         \/ InstallSession(c)
         \/ \E token \in 0..MaxEntries, op \in Requested, w, out \in Accounts :
              Authenticate(c, token, op, w, out)
         \/ AuthorizePath(c)
         \/ NoPolicy(c)
         \/ AuditOperation(c)
         \/ RuntimeForAccount(c)
         \/ Respond(c)
         \/ StatementFails(c)
    \/ \E w, a \in Accounts, role \in Range(Roles) : GrantMembership(w, a, role)
    \/ \E token \in 0..MaxEntries : Logout(token)
    \/ ServerKilled
    \/ ServerTick

ServerSpec == ServerInit /\ [][ServerNext]_serverVars

-----------------------------------------------------------------------------
AuditRows(a, op) == Cardinality({i \in DOMAIN audit : audit[i] = [actor |-> a, action |-> op]})
RunsOf(a, op) == Cardinality({x \in ran : x.account = a /\ x.op = op})

(* What the api host was given was sanctioned and can be accounted for,         *)
(* whatever signups, grants, expiries, failed statements and kills came         *)
(* between the steps of the request: its account exists under an email no        *)
(* other account has; in every workspace it names the account held, at some     *)
(* time since the request arrived, a role the operation asks for, job.list       *)
(* alone excepted, which authorize_query asks nothing; and an operation that is  *)
(* audited has at least as many audit rows of that account as it ran times.  No  *)
(* more accounts have a runtime than the bound.                                *)
RequestsSanctioned ==
    /\ \A x, y \in accounts : x.email = y.email => x = y
    /\ \A x \in ran :
         /\ x.account \in {y.id : y \in accounts}
         /\ x.op # "jobs" => \A w \in x.names : \E h \in x.held :
              h[1] = w /\ h[2] \in IF Policy[x.op].access = "mutate"
                                  THEN {"member", "admin", "owner"} ELSE Range(Roles)
         /\ Policy[x.op].access # "none"
         /\ Policy[x.op].audited => AuditRows(x.account, x.op) >= RunsOf(x.account, x.op)
    /\ Cardinality(runtimes) <= RuntimeMax
==============================================================================
