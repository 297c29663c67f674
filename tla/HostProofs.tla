----------------------------- MODULE HostProofs -----------------------------
(***************************************************************************)
(* Proofs about the two ways into the system. ApiHost: for every set of      *)
(* projects and connections and every pair of limits. WebServer: for every   *)
(* finite set of accounts and of connections, every operation asked for and  *)
(* every limit on the runtimes.                                              *)
(***************************************************************************)
EXTENDS ApiHost, WebServer, FiniteSetTheorems, SequenceTheorems, TLAPS

-----------------------------------------------------------------------------
(* ApiHost: the inductive invariant.                                         *)

(* A call carries the project it works on only between its two halves.       *)
Callings ==
    [op: {"idle", "drain", "drained"}, project: {NoProject}, left: SUBSET Projects, queued: Int,
     unread: BOOLEAN]
    \cup
    [op: {"register", "unregister"}, project: Projects, left: {{}}, queued: {0}, unread: {FALSE}]

HostTypeOK ==
    /\ tracked \subseteq Projects /\ IsFiniteSet(tracked)
    /\ served \subseteq Projects
    /\ depth \in [Projects -> Int]
    /\ calling \in [Connections -> Callings]
    /\ pool \in {"none", "running", "stopping", "stopped"}

(* A connection is between the two halves of op on p.                        *)
Half(op, p) == \E c \in Connections : calling[c].op = op /\ calling[c].project = p

(* A project left to nothing but its calls is either on its way in, with no  *)
(* close under way and a registration done or to come, or on its way out.    *)
HalvesAgree ==
    \A p \in Projects \ muddled :
        \/ p \in tracked /\ ~Half("unregister", p) /\ (p \in served \/ Half("register", p))
        \/ p \notin tracked /\ ~Half("register", p) /\ (p \notin served \/ Half("unregister", p))

HostInv ==
    /\ HostTypeOK
    /\ Cardinality(tracked) <= OpenMax
    /\ pool = "none" => \A c \in Connections : calling[c].op \notin {"register", "unregister"}
    /\ HasPool => HalvesAgree

(* A host without a pool has no halves to agree.                             *)
LEMMA InitHost == HostInit => HostInv
<1> SUFFICES ASSUME HostInit PROVE HostInv
  OBVIOUS
<1>1. IsFiniteSet({}) /\ Cardinality({}) = 0
  BY FS_EmptySet
<1>2. NoCalling \in Callings
  BY DEF NoCalling, Callings
<1>3. HostTypeOK
  BY SMTT(40), <1>1, <1>2 DEF HostInit, HostTypeOK
<1> QED
  BY <1>1, <1>3, HostAssumption DEF HostInit, HostInv, HasPool, NoCalling

(* A call at rest, in a drain, or about to register or unregister p.         *)
LEMMA CallingTypes ==
    /\ NoCalling \in Callings
    /\ NoCalling.op = "idle" /\ NoCalling.project = NoProject
    /\ \A p \in Projects, op \in {"register", "unregister"} :
          LET x == [NoCalling EXCEPT !.op = op, !.project = p]
          IN x \in Callings /\ x.op = op /\ x.project = p
    /\ \A S \in SUBSET Projects :
          LET x == [NoCalling EXCEPT !.op = "drain", !.left = S]
          IN x \in Callings /\ x.op = "drain" /\ x.project = NoProject
<1>1. NoCalling \in [op: {"idle"}, project: {NoProject}, left: {{}}, queued: {0}, unread: {FALSE}]
  BY DEF NoCalling
<1>2. ASSUME NEW p \in Projects, NEW op \in {"register", "unregister"}
      PROVE  LET x == [NoCalling EXCEPT !.op = op, !.project = p]
             IN x \in Callings /\ x.op = op /\ x.project = p
  BY <1>1 DEF Callings
<1>3. ASSUME NEW S \in SUBSET Projects
      PROVE  LET x == [NoCalling EXCEPT !.op = "drain", !.left = S]
             IN x \in Callings /\ x.op = "drain" /\ x.project = NoProject
  <2> DEFINE x == [NoCalling EXCEPT !.op = "drain", !.left = S]
  <2>1. NoCalling \in [op: {"idle"}, project: {NoProject}, left: SUBSET Projects, queued: Int,
                       unread: BOOLEAN]
    BY DEF NoCalling
  <2>2. x \in [op: {"drain"}, project: {NoProject}, left: SUBSET Projects, queued: Int,
               unread: BOOLEAN]
    BY <2>1
  <2> HIDE DEF x
  <2>3. x \in Callings /\ x.op = "drain" /\ x.project = NoProject
    BY <2>2 DEF Callings
  <2> QED
    BY <2>3 DEF x
<1> QED
  BY <1>1, <1>2, <1>3 DEF Callings

(* A call that is not between two halves moves to another such call: no half *)
(* begins or ends.                                                           *)
LEMMA NoHalfMoves ==
    ASSUME HostTypeOK, NEW c \in Connections, NEW x \in Callings,
           calling[c].op \notin {"register", "unregister"},
           x.op \notin {"register", "unregister"},
           calling' = [calling EXCEPT ![c] = x]
    PROVE  /\ \A op \in {"register", "unregister"}, p \in Projects : Half(op, p)' <=> Half(op, p)
           /\ calling' \in [Connections -> Callings]
           /\ \A d \in Connections : calling[d].op \notin {"register", "unregister"}
                 => calling'[d].op \notin {"register", "unregister"}
<1>1. calling'[c] = x /\ \A d \in Connections \ {c} : calling'[d] = calling[d]
  BY DEF HostTypeOK
<1>2. calling' \in [Connections -> Callings]
  BY DEF HostTypeOK
<1> QED
  BY <1>1, <1>2 DEF Half

(* Steps that touch neither the table nor the registry nor a half.           *)
LEMMA NothingMoves ==
    ASSUME HostInv, HostTypeOK', UNCHANGED <<tracked, served, muddled>>,
           pool' = "none" <=> pool = "none",
           \A op \in {"register", "unregister"}, p \in Projects : Half(op, p)' <=> Half(op, p),
           \A d \in Connections : calling[d].op \notin {"register", "unregister"}
                 => calling'[d].op \notin {"register", "unregister"}
    PROVE  HostInv'
<1>1. (HasPool => HalvesAgree)'
  BY DEF HostInv, HalvesAgree, HasPool
<1> QED
  BY <1>1 DEF HostInv

(* Every call, every half of a call and every step of the pool keep the      *)
(* table and the registry in agreement.                                      *)
LEMMA HostStep == HostInv /\ [HostNext]_hostVars => HostInv'
<1> SUFFICES ASSUME HostInv, [HostNext]_hostVars PROVE HostInv'
  OBVIOUS
<1>a. HostTypeOK /\ Cardinality(tracked) \in Nat
  BY FS_CardinalityType DEF HostInv, HostTypeOK
<1>1. ASSUME NEW up \in BOOLEAN, StartPool(up) PROVE HostInv'
  <2>1. HostTypeOK'
    BY <1>1, <1>a DEF StartPool, HostTypeOK
  <2>2. HalvesAgree'
    BY <1>1 DEF StartPool, HalvesAgree, Half
  <2> QED
    BY <1>1, <2>1, <2>2 DEF StartPool, HostInv
<1>2. ASSUME StopPool \/ PoolStops PROVE HostInv'
  <2>1. HostTypeOK' /\ \A op \in {"register", "unregister"}, p \in Projects : Half(op, p)' <=> Half(op, p)
    BY <1>2, <1>a DEF StopPool, PoolStops, HostTypeOK, Half
  <2> QED
    BY <1>2, <2>1, NothingMoves DEF StopPool, PoolStops
<1>3. ASSUME NEW p \in Projects, QueueWork(p) \/ PoolWorks(p) PROVE HostInv'
  <2>1. HostTypeOK' /\ \A op \in {"register", "unregister"}, q \in Projects : Half(op, q)' <=> Half(op, q)
    BY <1>3, <1>a DEF QueueWork, PoolWorks, HostTypeOK, Half
  <2> QED
    BY <1>3, <2>1, NothingMoves DEF QueueWork, PoolWorks
<1>4. ASSUME NEW c \in Connections, NEW p \in Projects, OpenRow(c, p) PROVE HostInv'
  <2> DEFINE x == IF HasPool THEN [NoCalling EXCEPT !.op = "register", !.project = p]
                  ELSE NoCalling
  <2>1. /\ x \in Callings
        /\ HasPool => x.op = "register" /\ x.project = p
        /\ ~HasPool => x.op = "idle" /\ x.project = NoProject
    BY CallingTypes
  <2>2. calling' = [calling EXCEPT ![c] = x] /\ tracked' = tracked \cup {p}
        /\ UNCHANGED <<served, pool, depth>>
    BY <1>4 DEF OpenRow
  <2> HIDE DEF x
  <2>3. calling'[c] = x /\ \A d \in Connections \ {c} : calling'[d] = calling[d]
    BY <1>a, <2>2 DEF HostTypeOK
  <2>4. IsFiniteSet(tracked') /\ Cardinality(tracked') <= OpenMax
    <3>1. IsFiniteSet(tracked') /\ Cardinality(tracked')
             = IF p \in tracked THEN Cardinality(tracked) ELSE Cardinality(tracked) + 1
      BY <1>a, <2>2, FS_AddElement DEF HostTypeOK
    <3>2. p \in tracked \/ Cardinality(tracked) < OpenMax
      BY <1>4, <1>a, HostAssumption DEF OpenRow, TableFull
    <3> QED
      BY <1>a, <3>1, <3>2, HostAssumption DEF HostInv
  <2>5. HostTypeOK'
    BY <1>a, <2>1, <2>2, <2>4 DEF HostTypeOK
  <2>6. (pool = "none" => \A d \in Connections : calling[d].op \notin {"register", "unregister"})'
    BY <2>1, <2>2, <2>3 DEF HostInv, HasPool
  <2>7. ASSUME HasPool PROVE HalvesAgree'
    <3>1. calling[c].op = "idle" /\ x.op = "register" /\ x.project = p
      BY <1>4, <2>1, <2>7 DEF OpenRow
    <3>2. /\ \A q \in Projects : Half("unregister", q)' <=> Half("unregister", q)
          /\ \A q \in Projects \ {p} : Half("register", q)' <=> Half("register", q)
          /\ Half("register", p)'
      BY <2>3, <3>1 DEF Half
    <3>3. p \notin muddled' => ~Half("unregister", p)
      BY <1>4, <3>1 DEF OpenRow, Overlaps, Half
    <3>4. muddled \subseteq muddled'
      BY <1>4 DEF OpenRow
    <3> QED
      BY <2>2, <2>7, <3>2, <3>3, <3>4 DEF HalvesAgree, HostInv
  <2> QED
    BY SMTT(40), <2>2, <2>4, <2>5, <2>6, <2>7 DEF HostInv, HasPool
<1>5. ASSUME NEW c \in Connections, NEW p \in Projects, CloseRow(c, p) PROVE HostInv'
  <2> DEFINE x == IF HasPool THEN [NoCalling EXCEPT !.op = "unregister", !.project = p]
                  ELSE NoCalling
  <2>1. /\ x \in Callings
        /\ HasPool => x.op = "unregister" /\ x.project = p
        /\ ~HasPool => x.op = "idle" /\ x.project = NoProject
    BY CallingTypes
  <2>2. calling' = [calling EXCEPT ![c] = x] /\ tracked' = tracked \ {p}
        /\ UNCHANGED <<served, pool, depth>>
    BY <1>5 DEF CloseRow
  <2> HIDE DEF x
  <2>3. calling'[c] = x /\ \A d \in Connections \ {c} : calling'[d] = calling[d]
    BY <1>a, <2>2 DEF HostTypeOK
  <2>4. IsFiniteSet(tracked') /\ Cardinality(tracked') <= OpenMax
    <3>1. IsFiniteSet(tracked') /\ Cardinality(tracked')
             = IF p \in tracked THEN Cardinality(tracked) - 1 ELSE Cardinality(tracked)
      BY <1>a, <2>2, FS_RemoveElement DEF HostTypeOK
    <3> QED
      BY <1>a, <3>1, HostAssumption DEF HostInv
  <2>5. HostTypeOK'
    BY <1>a, <2>1, <2>2, <2>4 DEF HostTypeOK
  <2>6. (pool = "none" => \A d \in Connections : calling[d].op \notin {"register", "unregister"})'
    BY <2>1, <2>2, <2>3 DEF HostInv, HasPool
  <2>7. ASSUME HasPool PROVE HalvesAgree'
    <3>1. calling[c].op = "idle" /\ x.op = "unregister" /\ x.project = p
      BY <1>5, <2>1, <2>7 DEF CloseRow
    <3>2. /\ \A q \in Projects : Half("register", q)' <=> Half("register", q)
          /\ \A q \in Projects \ {p} : Half("unregister", q)' <=> Half("unregister", q)
          /\ Half("unregister", p)'
      BY <2>3, <3>1 DEF Half
    <3>3. p \notin muddled' => ~Half("register", p)
      BY <1>5, <3>1 DEF CloseRow, Overlaps, Half
    <3>4. muddled \ {p} \subseteq muddled'
      BY <1>5 DEF CloseRow
    <3> QED
      BY <2>2, <2>7, <3>2, <3>3, <3>4 DEF HalvesAgree, HostInv
  <2> QED
    BY <2>2, <2>4, <2>5, <2>6, <2>7 DEF HostInv, HasPool
<1>6. ASSUME NEW c \in Connections, Register(c) \/ RegisterFails(c) \/ Unregister(c) PROVE HostInv'
  <2>1. PICK p \in Projects, op \in {"register", "unregister"} :
           calling[c].project = p /\ calling[c].op = op
    BY <1>6, <1>a DEF Register, RegisterFails, Unregister, HostTypeOK, Callings
  <2>2. calling' = [calling EXCEPT ![c] = NoCalling] /\ UNCHANGED <<tracked, pool, depth>>
    BY <1>6 DEF Register, RegisterFails, Unregister, CallRests
  <2>3. calling'[c] = NoCalling /\ \A d \in Connections \ {c} : calling'[d] = calling[d]
    BY <1>a, <2>2 DEF HostTypeOK
  <2>4. HostTypeOK'
    <3>1. served' \subseteq Projects
      BY <1>6, <1>a, <2>1 DEF Register, RegisterFails, Unregister, HostTypeOK
    <3> QED
      BY <1>a, <2>2, <3>1, CallingTypes DEF HostTypeOK
  <2>5. pool # "none" /\ HasPool
    BY <2>1 DEF HostInv, HasPool
  <2>6. /\ \A q \in Projects \ {p}, o \in {"register", "unregister"} : Half(o, q)' <=> Half(o, q)
        /\ \A o \in {"register", "unregister"} : Half(o, p)' => Half(o, p)
        /\ Half(op, p)
        /\ \A o \in {"register", "unregister"} \ {op} : Half(o, p)' <=> Half(o, p)
    <3>1. calling'[c].op = "idle"
      BY <2>3, CallingTypes
    <3>2. ASSUME NEW q \in Projects, NEW o \in {"register", "unregister"}
          PROVE  Half(o, q)' => Half(o, q)
      BY <2>3, <3>1, <3>2 DEF Half
    <3>3. ASSUME NEW q \in Projects, NEW o \in {"register", "unregister"}, q # p \/ o # op, Half(o, q)
          PROVE  Half(o, q)'
      <4>1. PICK d \in Connections : calling[d].op = o /\ calling[d].project = q
        BY <3>3 DEF Half
      <4>2. d # c
        BY <2>1, <3>3, <4>1
      <4> QED
        BY <2>3, <4>1, <4>2 DEF Half
    <3> QED
      BY <2>1, <3>2, <3>3 DEF Half
  <2>7. HalvesAgree'
    <3>1. CASE Register(c)
      BY <2>1, <2>2, <2>5, <2>6, <3>1 DEF Register, HalvesAgree, HostInv
    <3>2. CASE RegisterFails(c)
      BY <2>1, <2>2, <2>5, <2>6, <3>2 DEF RegisterFails, HalvesAgree, HostInv
    <3>3. CASE Unregister(c)
      BY <2>1, <2>2, <2>5, <2>6, <3>3 DEF Unregister, HalvesAgree, HostInv
    <3> QED
      BY <1>6, <3>1, <3>2, <3>3
  <2> QED
    BY <2>2, <2>4, <2>5, <2>7 DEF HostInv
<1>7. ASSUME NEW c \in Connections, NEW x \in Callings,
             calling[c].op \notin {"register", "unregister"},
             x.op \notin {"register", "unregister"},
             calling' = [calling EXCEPT ![c] = x],
             UNCHANGED <<tracked, served, pool, depth, muddled>>
      PROVE  HostInv'
  <2>1. /\ \A op \in {"register", "unregister"}, p \in Projects : Half(op, p)' <=> Half(op, p)
        /\ calling' \in [Connections -> Callings]
        /\ \A d \in Connections : calling[d].op \notin {"register", "unregister"}
              => calling'[d].op \notin {"register", "unregister"}
    BY <1>7, <1>a, NoHalfMoves
  <2>2. HostTypeOK'
    BY <1>7, <1>a, <2>1 DEF HostTypeOK
  <2> QED
    BY <1>7, <2>1, <2>2, NothingMoves
<1>8. ASSUME NEW c \in Connections, DrainStart(c) PROVE HostInv'
  BY <1>7, <1>8, <1>a, CallingTypes DEF DrainStart, HostTypeOK
<1>9. ASSUME NEW c \in Connections, DrainReturns(c) PROVE HostInv'
  BY <1>7, <1>9, CallingTypes DEF DrainReturns, CallRests
<1>10. ASSUME NEW c \in Connections, NEW p \in Projects, NEW readable \in BOOLEAN,
              DrainRead(c, p, readable)
       PROVE  HostInv'
  <2> DEFINE x == [calling[c] EXCEPT !.left = @ \ {p},
                                     !.queued = IF readable THEN @ + depth[p] ELSE @,
                                     !.unread = @ \/ ~readable]
  <2>1. calling[c] \in [op: {"drain"}, project: {NoProject}, left: SUBSET Projects, queued: Int,
                        unread: BOOLEAN]
    BY <1>10, <1>a DEF DrainRead, HostTypeOK, Callings
  <2>2. depth[p] \in Int
    BY <1>a DEF HostTypeOK
  <2>3. x \in [op: {"drain"}, project: {NoProject}, left: SUBSET Projects, queued: Int,
               unread: BOOLEAN]
    <3> DEFINE y == calling[c]
               q == IF readable THEN y.queued + depth[p] ELSE y.queued
               u == y.unread \/ ~readable
               l == y.left \ {p}
    <3>1. q \in Int /\ l \in SUBSET Projects
      BY <2>1, <2>2
    <3>2. u \in BOOLEAN
      OBVIOUS
    <3>3. x = [y EXCEPT !.left = l, !.queued = q, !.unread = u]
      OBVIOUS
    <3> HIDE DEF x, q, u, l
    <3> QED
      BY <2>1, <3>1, <3>2, <3>3
  <2>4. x \in Callings /\ x.op = "drain"
    BY <2>3 DEF Callings
  <2>5. calling' = [calling EXCEPT ![c] = x]
    BY <1>10 DEF DrainRead
  <2> HIDE DEF x
  <2> QED
    BY <1>7, <1>10, <2>4, <2>5 DEF DrainRead
<1>11. ASSUME NEW c \in Connections, NEW timeUp \in BOOLEAN, DrainRound(c, timeUp) PROVE HostInv'
  <2> DEFINE x == IF calling[c].queued = 0 \/ timeUp THEN [calling[c] EXCEPT !.op = "drained"]
                  ELSE [NoCalling EXCEPT !.op = "drain", !.left = served]
  <2>1. calling[c] \in [op: {"drain"}, project: {NoProject}, left: SUBSET Projects, queued: Int,
                        unread: BOOLEAN]
    BY <1>11, <1>a DEF DrainRound, HostTypeOK, Callings
  <2>2. [calling[c] EXCEPT !.op = "drained"] \in Callings
        /\ [calling[c] EXCEPT !.op = "drained"].op = "drained"
    BY <2>1 DEF Callings
  <2>3. x \in Callings /\ x.op \in {"drain", "drained"}
    BY <1>a, <2>2, CallingTypes DEF HostTypeOK
  <2>4. calling' = [calling EXCEPT ![c] = x]
    BY <1>11 DEF DrainRound
  <2> HIDE DEF x
  <2> QED
    BY <1>7, <1>11, <2>3, <2>4 DEF DrainRound
<1>12. CASE UNCHANGED hostVars
  <2>1. HostTypeOK' /\ \A op \in {"register", "unregister"}, p \in Projects : Half(op, p)' <=> Half(op, p)
    BY <1>12, <1>a DEF hostVars, HostTypeOK, Half
  <2> QED
    BY <1>12, <2>1, NothingMoves DEF hostVars
<1> QED
  BY <1>1, <1>2, <1>3, <1>4, <1>5, <1>6, <1>8, <1>9, <1>10, <1>11, <1>12 DEF HostNext

(* The session table never exceeds its limit, and whatever connections do     *)
(* between the two halves of their calls, a project no call is working on is  *)
(* served exactly when it is tracked, but for the three causes SessionAgrees  *)
(* names.                                                                    *)
THEOREM SessionsAgree == HostSpec => []SessionAgrees
<1>1. HostInv => SessionAgrees
  BY DEF HostInv, HalvesAgree, SessionAgrees, Quiet, Half
<1> QED
  BY <1>1, InitHost, HostStep, PTL DEF HostSpec

-----------------------------------------------------------------------------
(* WebServer: the inductive invariant.                                       *)

WebOps == {"create", "open", "export", "steps", "health", "jobs", "import"}
RoleNames == {"none", "viewer", "member", "admin", "owner"}
Ids(ac) == {x.id : x \in ac}

ConnRows ==
    [pc: {"idle", "entry", "install", "authorize", "runtime", "run"},
     account: Accounts \cup {NoOne}, op: WebOps, names: SUBSET Accounts,
     left: Seq(Accounts), held: SUBSET (Accounts \X RoleNames)]
AuditLines == [actor: Accounts, action: WebOps \cup {"auth"}]

(* A role that op asks for was among the roles held in w; job.list asks for   *)
(* none.                                                                     *)
Suffices(op) ==
    IF Policy[op].access = "mutate" THEN {"member", "admin", "owner"} ELSE Range(Roles)
Sanctioned(held, op, w) == op = "jobs" \/ \E h \in held : h[1] = w /\ h[2] \in Suffices(op)

(* What a request carries is true of the accounts and roles: the role an      *)
(* account has now is among those it held, a workspace is still to be        *)
(* authorized or was, and past the authorization all of them were.           *)
AskTrue(account, op, names, left, held, mb) ==
    /\ {left[i] : i \in 1..Len(left)} \subseteq names
    /\ \A w \in names :
          /\ <<w, mb[w][account]>> \in held
          /\ Sanctioned(held, op, w) \/ w \in {left[i] : i \in 1..Len(left)}
PastTrue(op, names, held) ==
    Policy[op].access # "none" /\ \A w \in names : Sanctioned(held, op, w)

ConnTrue(r, ac, mb) ==
    /\ r.pc # "idle" => r.account \in Ids(ac)
    /\ r.pc = "authorize" => AskTrue(r.account, r.op, r.names, r.left, r.held, mb)
    /\ r.pc \in {"runtime", "run"} => PastTrue(r.op, r.names, r.held)

RunTrue(x, ac) ==
    x.account \in Ids(ac) /\ x.op \in WebOps /\ PastTrue(x.op, x.names, x.held)

(* The requests of an account between the audit row and the run.             *)
AuditSet(au, a, op) == {i \in 1..Len(au) : au[i] = [actor |-> a, action |-> op]}
RunSet(rn, a, op) == {x \in rn : x.account = a /\ x.op = op}
OwedSet(cn, a, op) ==
    {c \in Conns : cn[c].pc \in {"runtime", "run"} /\ cn[c].account = a /\ cn[c].op = op}

(* Every run and every request past its audit row has an audit row.          *)
Booked(au, rn, cn) ==
    \A a \in Accounts, op \in WebOps : Policy[op].audited =>
        Cardinality(AuditSet(au, a, op)) >=
            Cardinality(RunSet(rn, a, op)) + Cardinality(OwedSet(cn, a, op))

ServerInv ==
    /\ accounts \subseteq [id: Accounts, email: Emails] /\ IsFiniteSet(accounts)
    /\ \A x, y \in accounts : x.email = y.email => x = y
    /\ membership \in [Accounts -> [Accounts -> RoleNames]]
    /\ \A t \in tokens : t.account \in Ids(accounts)
    /\ audit \in Seq(AuditLines)
    /\ IsFiniteSet(runtimes) /\ Cardinality(runtimes) <= RuntimeMax
    /\ conn \in [Conns -> ConnRows]
    /\ \A c \in Conns : ConnTrue(conn[c], accounts, membership)
    /\ IsFiniteSet(ran)
    /\ \A x \in ran : RunTrue(x, accounts)
    /\ Booked(audit, ran, conn)

-----------------------------------------------------------------------------
(* WebServer: ids, roles and counts.                                         *)

(* While there are fewer accounts than ids, the id drawn is not in use.      *)
LEMMA FreshIdIsFresh ==
    ASSUME accounts \subseteq [id: Accounts, email: Emails], IsFiniteSet(accounts),
           Cardinality(accounts) < Cardinality(Accounts)
    PROVE  FreshId \in Accounts /\ FreshId \notin Ids(accounts)
<1>1. \E a \in Accounts : a \notin Ids(accounts)
  <2> SUFFICES ASSUME \A a \in Accounts : \E x \in accounts : x.id = a
               PROVE  FALSE
    BY DEF Ids
  <2> DEFINE f == [a \in Accounts |-> CHOOSE x \in accounts : x.id = a]
  <2>1. \A a \in Accounts : f[a] \in accounts /\ f[a].id = a
    OBVIOUS
  <2>2. f \in [Accounts -> accounts]
    BY <2>1
  <2> HIDE DEF f
  <2>3. \E a, b \in Accounts : a # b /\ f[a] = f[b]
    BY <2>2, ServerAssumption, FS_PigeonHole
  <2> QED
    BY <2>1, <2>3
<1> QED
  BY <1>1 DEF FreshId, Ids

(* The access each operation asks for and whether it leaves an audit row.    *)
LEMMA PolicyOf ==
    \A op \in WebOps : Policy[op].access \in {"mutate", "read", "any", "none"}
BY DEF WebOps, Policy

(* A role of at least the rank that is asked for is one of those that do.    *)
LEMMA RankSuffices ==
    ASSUME NEW role \in RoleNames, role # "none", NEW op \in WebOps,
           Rank(role) >= Rank(Required(Policy[op].access))
    PROVE  role \in Suffices(op)
<1>1. Rank("viewer") = 1 /\ Rank("member") = 2
  BY DEF Rank, Roles
<1>2. role \in {"viewer", "member", "admin", "owner"}
  BY DEF RoleNames
<1>3. role \in Range(Roles)
  BY <1>2 DEF Range, Roles
<1>4. CASE Policy[op].access = "mutate"
  BY <1>1, <1>2, <1>4 DEF Required, Suffices
<1>5. CASE Policy[op].access # "mutate"
  BY <1>3, <1>5 DEF Suffices
<1> QED
  BY <1>4, <1>5

(* The sets that are counted are finite.                                     *)
LEMMA FiniteCounts ==
    ASSUME NEW au \in Seq(AuditLines), NEW rn, IsFiniteSet(rn), NEW cn, NEW a, NEW op
    PROVE  /\ IsFiniteSet(AuditSet(au, a, op)) /\ Cardinality(AuditSet(au, a, op)) \in Nat
           /\ IsFiniteSet(RunSet(rn, a, op)) /\ Cardinality(RunSet(rn, a, op)) \in Nat
           /\ IsFiniteSet(OwedSet(cn, a, op)) /\ Cardinality(OwedSet(cn, a, op)) \in Nat
<1>1. IsFiniteSet(1..Len(au))
  BY FS_Interval
<1>2. IsFiniteSet(AuditSet(au, a, op))
  BY <1>1, FS_Subset DEF AuditSet
<1>3. IsFiniteSet(RunSet(rn, a, op))
  BY FS_Subset DEF RunSet
<1>4. IsFiniteSet(OwedSet(cn, a, op))
  BY ServerAssumption, FS_Subset DEF OwedSet
<1> QED
  BY <1>2, <1>3, <1>4, FS_CardinalityType

(* A larger set is not smaller.                                              *)
LEMMA Fewer ==
    ASSUME NEW S, NEW T, IsFiniteSet(T), S \subseteq T
    PROVE  Cardinality(S) <= Cardinality(T)
BY FS_Subset

(* A request that hangs, or moves on the other side of the audit row, owes    *)
(* nothing new.                                                              *)
LEMMA BookedAgain ==
    ASSUME NEW au \in Seq(AuditLines), NEW rn, IsFiniteSet(rn), NEW cn \in [Conns -> ConnRows],
           Booked(au, rn, cn), NEW dn,
           \A c \in Conns : dn[c].pc \in {"runtime", "run"} =>
              /\ cn[c].pc \in {"runtime", "run"}
              /\ dn[c].account = cn[c].account /\ dn[c].op = cn[c].op
    PROVE  Booked(au, rn, dn)
<1> SUFFICES ASSUME NEW a \in Accounts, NEW op \in WebOps, Policy[op].audited
             PROVE  Cardinality(AuditSet(au, a, op)) >=
                      Cardinality(RunSet(rn, a, op)) + Cardinality(OwedSet(dn, a, op))
  BY DEF Booked
<1>1. OwedSet(dn, a, op) \subseteq OwedSet(cn, a, op)
  BY DEF OwedSet
<1>2. IsFiniteSet(OwedSet(cn, a, op)) /\ Cardinality(OwedSet(cn, a, op)) \in Nat
      /\ Cardinality(OwedSet(dn, a, op)) \in Nat /\ Cardinality(RunSet(rn, a, op)) \in Nat
      /\ Cardinality(AuditSet(au, a, op)) \in Nat
  BY FiniteCounts
<1>3. Cardinality(OwedSet(dn, a, op)) <= Cardinality(OwedSet(cn, a, op))
  BY <1>1, <1>2, Fewer
<1>4. Cardinality(AuditSet(au, a, op)) >=
        Cardinality(RunSet(rn, a, op)) + Cardinality(OwedSet(cn, a, op))
  BY DEF Booked
<1> QED
  BY <1>2, <1>3, <1>4

(* One audit row more is one more of its kind and of no other.               *)
LEMMA AuditGrows ==
    ASSUME NEW au \in Seq(AuditLines), NEW line \in AuditLines, NEW a, NEW op
    PROVE  AuditSet(Append(au, line), a, op) =
             IF line = [actor |-> a, action |-> op]
             THEN AuditSet(au, a, op) \cup {Len(au) + 1} ELSE AuditSet(au, a, op)
<1> DEFINE n == Len(au)
           bu == Append(au, line)
<1>1. n \in Nat /\ Len(bu) = n + 1 /\ bu[n + 1] = line /\ \A i \in 1..n : bu[i] = au[i]
  BY AppendProperties
<1>2. 1..(n + 1) = 1..n \cup {n + 1}
  BY <1>1
<1> HIDE DEF n, bu
<1>3. AuditSet(bu, a, op) = {i \in 1..(n + 1) : bu[i] = [actor |-> a, action |-> op]}
  BY <1>1 DEF AuditSet
<1>4. AuditSet(au, a, op) = {i \in 1..n : au[i] = [actor |-> a, action |-> op]}
  BY DEF AuditSet, n
<1> QED
  BY <1>1, <1>2, <1>3, <1>4 DEF n, bu

(* An audit row more keeps the books: it may only be ahead of the runs.      *)
LEMMA BookedAudit ==
    ASSUME NEW au \in Seq(AuditLines), NEW line \in AuditLines, NEW rn, IsFiniteSet(rn),
           NEW cn, Booked(au, rn, cn)
    PROVE  Booked(Append(au, line), rn, cn)
<1> SUFFICES ASSUME NEW a \in Accounts, NEW op \in WebOps, Policy[op].audited
             PROVE  Cardinality(AuditSet(Append(au, line), a, op)) >=
                      Cardinality(RunSet(rn, a, op)) + Cardinality(OwedSet(cn, a, op))
  BY DEF Booked
<1>1. Append(au, line) \in Seq(AuditLines)
  BY AppendProperties
<1>2. AuditSet(au, a, op) \subseteq AuditSet(Append(au, line), a, op)
  BY AuditGrows
<1>3. /\ IsFiniteSet(AuditSet(Append(au, line), a, op))
      /\ Cardinality(AuditSet(Append(au, line), a, op)) \in Nat
  BY <1>1, FiniteCounts
<1>4. Cardinality(AuditSet(au, a, op)) <= Cardinality(AuditSet(Append(au, line), a, op))
  BY <1>2, <1>3, Fewer
<1>5. /\ Cardinality(AuditSet(au, a, op)) \in Nat /\ Cardinality(RunSet(rn, a, op)) \in Nat
      /\ Cardinality(OwedSet(cn, a, op)) \in Nat
  BY FiniteCounts
<1>6. Cardinality(AuditSet(au, a, op)) >=
        Cardinality(RunSet(rn, a, op)) + Cardinality(OwedSet(cn, a, op))
  BY DEF Booked
<1> QED
  BY <1>3, <1>4, <1>5, <1>6

(* The audit log when account acc asks for o.                                *)
Entered(au, acc, o) ==
    IF Policy[o].audited THEN Append(au, [actor |-> acc, action |-> o]) ELSE au

(* A request passes its audit row, and is owed one run.                      *)
LEMMA BookedOwes ==
    ASSUME NEW au \in Seq(AuditLines), NEW rn, IsFiniteSet(rn), NEW cn, Booked(au, rn, cn),
           NEW c \in Conns, NEW acc \in Accounts, NEW o \in WebOps, NEW dn,
           \A d \in Conns \ {c} : dn[d] = cn[d],
           cn[c].pc = "authorize", dn[c].account = acc, dn[c].op = o
    PROVE  Booked(Entered(au, acc, o), rn, dn)
<1> DEFINE line == [actor |-> acc, action |-> o]
           bu == Entered(au, acc, o)
<1>b. bu = IF Policy[o].audited THEN Append(au, line) ELSE au
  BY DEF Entered
<1> HIDE DEF bu
<1>1. line \in AuditLines
  BY DEF AuditLines
<1> SUFFICES ASSUME NEW a \in Accounts, NEW op \in WebOps, Policy[op].audited
             PROVE  Cardinality(AuditSet(bu, a, op)) >=
                      Cardinality(RunSet(rn, a, op)) + Cardinality(OwedSet(dn, a, op))
  BY DEF Booked, bu
<1>2. bu \in Seq(AuditLines)
  BY <1>1, <1>b, AppendProperties
<1>3. /\ IsFiniteSet(AuditSet(au, a, op)) /\ Cardinality(AuditSet(au, a, op)) \in Nat
      /\ IsFiniteSet(AuditSet(bu, a, op)) /\ Cardinality(AuditSet(bu, a, op)) \in Nat
      /\ Cardinality(RunSet(rn, a, op)) \in Nat
      /\ IsFiniteSet(OwedSet(cn, a, op)) /\ Cardinality(OwedSet(cn, a, op)) \in Nat
      /\ Cardinality(OwedSet(dn, a, op)) \in Nat
  BY <1>2, FiniteCounts
<1>4. Cardinality(AuditSet(au, a, op)) >=
        Cardinality(RunSet(rn, a, op)) + Cardinality(OwedSet(cn, a, op))
  BY DEF Booked
<1>5. CASE a = acc /\ op = o
  <2>1. AuditSet(bu, a, op) = AuditSet(au, a, op) \cup {Len(au) + 1}
    BY <1>1, <1>5, <1>b, AuditGrows
  <2>2. Len(au) + 1 \notin AuditSet(au, a, op)
    BY DEF AuditSet
  <2>3. Cardinality(AuditSet(bu, a, op)) = Cardinality(AuditSet(au, a, op)) + 1
    BY <1>3, <2>1, <2>2, FS_AddElement
  <2>4. OwedSet(dn, a, op) \subseteq OwedSet(cn, a, op) \cup {c}
    BY DEF OwedSet
  <2>5. /\ IsFiniteSet(OwedSet(cn, a, op) \cup {c})
        /\ Cardinality(OwedSet(cn, a, op) \cup {c}) =
             IF c \in OwedSet(cn, a, op) THEN Cardinality(OwedSet(cn, a, op))
             ELSE Cardinality(OwedSet(cn, a, op)) + 1
    BY <1>3, FS_AddElement
  <2>6. Cardinality(OwedSet(dn, a, op)) <= Cardinality(OwedSet(cn, a, op) \cup {c})
    BY <2>4, <2>5, Fewer
  <2> QED
    BY <1>3, <1>4, <2>3, <2>5, <2>6
<1>6. CASE ~(a = acc /\ op = o)
  <2>1. OwedSet(dn, a, op) \subseteq OwedSet(cn, a, op)
    BY <1>6 DEF OwedSet
  <2>2. AuditSet(au, a, op) \subseteq AuditSet(bu, a, op)
    <3>1. CASE Policy[o].audited
      BY <1>1, <1>b, <3>1, AuditGrows
    <3>2. CASE ~Policy[o].audited
      BY <1>b, <3>2
    <3> QED
      BY <3>1, <3>2
  <2>3. Cardinality(OwedSet(dn, a, op)) <= Cardinality(OwedSet(cn, a, op))
    BY <1>3, <2>1, Fewer
  <2>4. Cardinality(AuditSet(au, a, op)) <= Cardinality(AuditSet(bu, a, op))
    BY <1>3, <2>2, Fewer
  <2> QED
    BY <1>3, <1>4, <2>3, <2>4
<1> QED
  BY <1>5, <1>6

(* A request that was owed its run has it.                                   *)
LEMMA BookedRun ==
    ASSUME NEW au \in Seq(AuditLines), NEW rn, IsFiniteSet(rn), NEW cn, Booked(au, rn, cn),
           NEW c \in Conns, cn[c].pc = "run", NEW x, x.account = cn[c].account, x.op = cn[c].op,
           NEW dn, \A d \in Conns \ {c} : dn[d] = cn[d], dn[c].pc = "idle"
    PROVE  Booked(au, rn \cup {x}, dn)
<1> DEFINE qn == rn \cup {x}
<1> SUFFICES ASSUME NEW a \in Accounts, NEW op \in WebOps, Policy[op].audited
             PROVE  Cardinality(AuditSet(au, a, op)) >=
                      Cardinality(RunSet(qn, a, op)) + Cardinality(OwedSet(dn, a, op))
  BY DEF Booked
<1>1. IsFiniteSet(qn)
  BY FS_AddElement
<1> HIDE DEF qn
<1>2. /\ IsFiniteSet(RunSet(rn, a, op)) /\ Cardinality(RunSet(rn, a, op)) \in Nat
      /\ IsFiniteSet(OwedSet(cn, a, op)) /\ Cardinality(OwedSet(cn, a, op)) \in Nat
      /\ Cardinality(OwedSet(dn, a, op)) \in Nat /\ Cardinality(AuditSet(au, a, op)) \in Nat
  BY FiniteCounts
<1>3. Cardinality(RunSet(qn, a, op)) \in Nat
  BY <1>1, FiniteCounts
<1>4. Cardinality(AuditSet(au, a, op)) >=
        Cardinality(RunSet(rn, a, op)) + Cardinality(OwedSet(cn, a, op))
  BY DEF Booked
<1>5. CASE a = x.account /\ op = x.op
  <2>1. RunSet(qn, a, op) \subseteq RunSet(rn, a, op) \cup {x}
    BY DEF RunSet, qn
  <2>2. /\ IsFiniteSet(RunSet(rn, a, op) \cup {x})
        /\ Cardinality(RunSet(rn, a, op) \cup {x}) =
             IF x \in RunSet(rn, a, op) THEN Cardinality(RunSet(rn, a, op))
             ELSE Cardinality(RunSet(rn, a, op)) + 1
    BY <1>2, FS_AddElement
  <2>3. Cardinality(RunSet(qn, a, op)) <= Cardinality(RunSet(rn, a, op) \cup {x})
    BY <2>1, <2>2, Fewer
  <2>4. c \in OwedSet(cn, a, op) /\ OwedSet(dn, a, op) \subseteq OwedSet(cn, a, op) \ {c}
    BY <1>5 DEF OwedSet
  <2>5. /\ IsFiniteSet(OwedSet(cn, a, op) \ {c})
        /\ Cardinality(OwedSet(cn, a, op) \ {c}) = Cardinality(OwedSet(cn, a, op)) - 1
    BY <1>2, <2>4, FS_RemoveElement
  <2>6. Cardinality(OwedSet(dn, a, op)) <= Cardinality(OwedSet(cn, a, op) \ {c})
    BY <2>4, <2>5, Fewer
  <2> QED
    BY <1>2, <1>3, <1>4, <2>2, <2>3, <2>5, <2>6
<1>6. CASE ~(a = x.account /\ op = x.op)
  <2>1. RunSet(qn, a, op) = RunSet(rn, a, op)
    BY <1>6 DEF RunSet, qn
  <2>2. OwedSet(dn, a, op) \subseteq OwedSet(cn, a, op)
    BY <1>6 DEF OwedSet
  <2>3. Cardinality(OwedSet(dn, a, op)) <= Cardinality(OwedSet(cn, a, op))
    BY <1>2, <2>2, Fewer
  <2> QED
    BY <1>2, <1>4, <2>1, <2>3
<1> QED
  BY <1>5, <1>6

-----------------------------------------------------------------------------
(* WebServer: what a request carries.                                        *)

(* A connection at rest carries nothing that could be false.                 *)
LEMMA AtRestTrue ==
    /\ NoConn \in ConnRows /\ NoConn.pc = "idle"
    /\ \A ac, mb : ConnTrue(NoConn, ac, mb)
<1>1. <<>> \in Seq(Accounts) /\ "health" \in WebOps
  BY DEF WebOps
<1>2. NoConn \in ConnRows
  BY <1>1 DEF NoConn, ConnRows
<1>3. NoConn.pc = "idle"
  BY DEF NoConn
<1> QED
  BY <1>2, <1>3 DEF ConnTrue

(* The authorized workspace comes off the list.                              *)
LEMMA AskNext ==
    ASSUME NEW account, NEW op, NEW names, NEW left \in Seq(Accounts), NEW held, NEW mb,
           left # <<>>, AskTrue(account, op, names, left, held, mb),
           Sanctioned(held, op, Head(left))
    PROVE  Tail(left) \in Seq(Accounts) /\ AskTrue(account, op, names, Tail(left), held, mb)
<1> DEFINE rest == Tail(left)
           n == Len(left)
           m == Len(rest)
<1>1. /\ rest \in Seq(Accounts) /\ n \in Nat /\ m \in Nat /\ n = m + 1 /\ left[1] = Head(left)
      /\ \A i \in 1..m : rest[i] = left[i + 1]
  BY HeadTailProperties
<1> HIDE DEF rest, n, m
<1>2. \A i \in 1..n : i = 1 \/ i - 1 \in 1..m
  BY <1>1
<1>3. \A i \in 1..m : i + 1 \in 1..n
  BY <1>1
<1>4. {rest[i] : i \in 1..m} \subseteq {left[i] : i \in 1..n}
  BY <1>1, <1>3
<1>5. ASSUME NEW w \in {left[i] : i \in 1..n}, w # Head(left)
      PROVE  w \in {rest[i] : i \in 1..m}
  <2>1. PICK i \in 1..n : w = left[i]
    OBVIOUS
  <2>2. i - 1 \in 1..m /\ (i - 1) + 1 = i
    BY <1>1, <1>2, <1>5, <2>1
  <2>3. rest[i - 1] = left[i]
    BY <1>1, <2>2
  <2> QED
    BY <2>1, <2>2, <2>3
<1>6. AskTrue(account, op, names, rest, held, mb)
  BY <1>4, <1>5 DEF AskTrue, n, m
<1> QED
  BY <1>1, <1>6 DEF rest

(* The facts of a connection that does not move survive new accounts and      *)
(* roles of others.                                                          *)
LEMMA ConnKept ==
    ASSUME NEW r, NEW ac, NEW bc, NEW mb, NEW nb, ConnTrue(r, ac, mb), Ids(ac) \subseteq Ids(bc),
           r.pc = "authorize" => \A w \in r.names : nb[w][r.account] = mb[w][r.account]
    PROVE  ConnTrue(r, bc, nb)
<1>1. r.pc = "authorize" => AskTrue(r.account, r.op, r.names, r.left, r.held, nb)
  <2> DEFINE account == r.account
             names == r.names
             left == r.left
             held == r.held
  <2> HIDE DEF account, names, left, held
  <2>1. ASSUME AskTrue(account, r.op, names, left, held, mb),
               \A w \in names : nb[w][account] = mb[w][account]
        PROVE  AskTrue(account, r.op, names, left, held, nb)
    BY <2>1 DEF AskTrue
  <2> QED
    BY <2>1 DEF ConnTrue, account, names, left, held
<1> QED
  BY <1>1 DEF ConnTrue

(* One connection moves and nothing it depends on does.                      *)
LEMMA ConnMoves ==
    ASSUME ServerInv, NEW c \in Conns, NEW r \in ConnRows, ConnTrue(r, accounts, membership),
           ConnAt(c, r), UNCHANGED <<accounts, membership>>
    PROVE  /\ conn' \in [Conns -> ConnRows]
           /\ \A d \in Conns : ConnTrue(conn'[d], accounts', membership')
           /\ conn'[c] = r /\ \A d \in Conns \ {c} : conn'[d] = conn[d]
BY DEF ServerInv, ConnAt

(* A connection moves on its own side of the audit row.                      *)
LEMMA ConnMovesBooked ==
    ASSUME ServerInv, NEW c \in Conns, NEW r \in ConnRows, ConnTrue(r, accounts, membership),
           ConnAt(c, r), UNCHANGED <<accounts, membership, ran, audit>>,
           r.pc \in {"runtime", "run"} =>
              /\ conn[c].pc \in {"runtime", "run"}
              /\ r.account = conn[c].account /\ r.op = conn[c].op,
           \A t \in tokens' : t.account \in Ids(accounts),
           IsFiniteSet(runtimes') /\ Cardinality(runtimes') <= RuntimeMax
    PROVE  ServerInv'
<1>1. /\ conn' \in [Conns -> ConnRows]
      /\ \A d \in Conns : ConnTrue(conn'[d], accounts', membership')
      /\ conn'[c] = r /\ \A d \in Conns \ {c} : conn'[d] = conn[d]
  BY ConnMoves
<1>2. \A d \in Conns : conn'[d].pc \in {"runtime", "run"} =>
         /\ conn[d].pc \in {"runtime", "run"}
         /\ conn'[d].account = conn[d].account /\ conn'[d].op = conn[d].op
  BY <1>1
<1>3. Booked(audit, ran, conn')
  BY <1>2, BookedAgain DEF ServerInv
<1> QED
  BY <1>1, <1>3 DEF ServerInv

(* Every step of a request, and of what happens beside it, keeps the          *)
(* invariant.                                                                *)
LEMMA ServerStep == ServerInv /\ [ServerNext]_serverVars => ServerInv'
<1> SUFFICES ASSUME ServerInv, [ServerNext]_serverVars PROVE ServerInv'
  OBVIOUS
<1>a. ASSUME NEW c \in Conns PROVE conn[c] \in ConnRows /\ ConnTrue(conn[c], accounts, membership)
  BY DEF ServerInv
<1>1. ASSUME NEW c \in Conns, NEW e \in Emails, CreateAccount(c, e) PROVE ServerInv'
  <2> DEFINE r == [NoConn EXCEPT !.pc = "entry", !.account = FreshId]
             x == [id |-> FreshId, email |-> e]
  <2>1. FreshId \in Accounts /\ FreshId \notin Ids(accounts)
    BY <1>1, FreshIdIsFresh DEF CreateAccount, ServerInv
  <2>2. r \in ConnRows /\ r.pc = "entry" /\ r.account = FreshId
    BY <2>1, AtRestTrue DEF ConnRows
  <2>3. accounts' = accounts \cup {x} /\ ~Taken(e) /\ UNCHANGED <<tokens, audit, runtimes, ran>>
        /\ conn' = [conn EXCEPT ![c] = r]
        /\ membership' = [membership EXCEPT ![FreshId][FreshId] = "owner"]
    BY <1>1 DEF CreateAccount, ConnAt
  <2> HIDE DEF r
  <2>4. x \in [id: Accounts, email: Emails] /\ x.id = FreshId /\ x.email = e
    BY <2>1
  <2> HIDE DEF x
  <2>5. Ids(accounts') = Ids(accounts) \cup {FreshId}
    BY <2>3, <2>4 DEF Ids
  <2>6. /\ accounts' \subseteq [id: Accounts, email: Emails]
        /\ \A y, z \in accounts' : y.email = z.email => y = z
    BY <2>3, <2>4 DEF ServerInv, Taken
  <2>7. IsFiniteSet(accounts')
    BY <2>3, FS_AddElement DEF ServerInv
  <2>8. "owner" \in RoleNames
    BY DEF RoleNames
  <2>9. membership' \in [Accounts -> [Accounts -> RoleNames]]
    BY <2>1, <2>3, <2>8 DEF ServerInv
  <2>10. ASSUME NEW v \in Accounts, NEW a \in Accounts, a # FreshId
         PROVE  membership'[v][a] = membership[v][a]
    BY <2>1, <2>3, <2>10 DEF ServerInv
  <2>11. conn' \in [Conns -> ConnRows]
    BY <2>2, <2>3 DEF ServerInv
  <2>12. ASSUME NEW d \in Conns PROVE ConnTrue(conn'[d], accounts', membership')
    <3>1. CASE d = c
      <4>1. conn'[d] = r
        BY <2>3, <3>1 DEF ServerInv
      <4> QED
        BY <2>2, <2>5, <4>1 DEF ConnTrue
    <3>2. CASE d # c
      <4>1. conn'[d] = conn[d]
        BY <2>3, <3>2 DEF ServerInv
      <4>2. conn[d].pc = "authorize" => conn[d].account \in Accounts /\ conn[d].account # FreshId
        <5>1. Ids(accounts) \subseteq Accounts
          BY DEF ServerInv, Ids
        <5>2. conn[d].pc = "authorize" => conn[d].account \in Ids(accounts)
          BY <1>a DEF ConnTrue
        <5> QED
          BY <2>1, <5>1, <5>2
      <4>3. conn[d].names \subseteq Accounts
        BY <1>a DEF ConnRows
      <4>4. conn[d].pc = "authorize" =>
              \A w \in conn[d].names : membership'[w][conn[d].account] = membership[w][conn[d].account]
        BY <2>10, <4>2, <4>3
      <4> QED
        BY <1>a, <2>5, <4>1, <4>4, ConnKept
    <3> QED
      BY <3>1, <3>2
  <2>13. \A d \in Conns : conn'[d].pc \in {"runtime", "run"} =>
           /\ conn[d].pc \in {"runtime", "run"}
           /\ conn'[d].account = conn[d].account /\ conn'[d].op = conn[d].op
    BY <2>2, <2>3 DEF ServerInv
  <2>14. Booked(audit, ran, conn')
    BY <2>13, BookedAgain DEF ServerInv
  <2>15. (\A t \in tokens : t.account \in Ids(accounts')) /\ \A y \in ran : RunTrue(y, accounts')
    BY <2>5 DEF ServerInv, RunTrue
  <2> QED
    BY <2>3, <2>6, <2>7, <2>9, <2>11, <2>12, <2>14, <2>15 DEF ServerInv
<1>2. ASSUME NEW c \in Conns, NEW e \in Emails, Login(c, e) PROVE ServerInv'
  <2>1. PICK x \in accounts : ConnAt(c, [NoConn EXCEPT !.pc = "entry", !.account = x.id])
    BY <1>2 DEF Login
  <2> DEFINE r == [NoConn EXCEPT !.pc = "entry", !.account = x.id]
  <2>2. x.id \in Accounts /\ x.id \in Ids(accounts)
    BY DEF ServerInv, Ids
  <2>3. r \in ConnRows /\ r.pc = "entry" /\ r.account = x.id
    BY <2>2, AtRestTrue DEF ConnRows
  <2>4. ConnAt(c, r)
    BY <2>1
  <2> HIDE DEF r
  <2>5. ConnTrue(r, accounts, membership)
    BY <2>2, <2>3 DEF ConnTrue
  <2> QED
    BY <1>2, <2>3, <2>4, <2>5, ConnMovesBooked DEF Login, ServerInv
<1>3. ASSUME NEW c \in Conns, AuditEntry(c) PROVE ServerInv'
  <2> DEFINE k == conn[c]
             r == [k EXCEPT !.pc = "install"]
             line == [actor |-> k.account, action |-> "auth"]
  <2>1. k \in ConnRows /\ ConnTrue(k, accounts, membership) /\ k.pc = "entry"
    BY <1>3, <1>a DEF AuditEntry
  <2>2. k.account \in Ids(accounts) /\ k.account \in Accounts
    BY <2>1 DEF ConnTrue, ServerInv, Ids
  <2>3. audit' = Append(audit, line) /\ ConnAt(c, r)
    BY <1>3 DEF AuditEntry
  <2>4. line \in AuditLines
    BY <2>2 DEF AuditLines
  <2> HIDE DEF k, line
  <2>5. r \in ConnRows /\ r.pc = "install" /\ r.account = k.account
    BY <2>1 DEF ConnRows
  <2> HIDE DEF r
  <2>6. ConnTrue(r, accounts, membership)
    BY <2>2, <2>5 DEF ConnTrue
  <2>7. UNCHANGED <<accounts, membership, tokens, runtimes, ran>>
    BY <1>3 DEF AuditEntry
  <2>8. /\ conn' \in [Conns -> ConnRows]
        /\ \A d \in Conns : ConnTrue(conn'[d], accounts', membership')
        /\ conn'[c] = r /\ \A d \in Conns \ {c} : conn'[d] = conn[d]
    BY <2>3, <2>5, <2>6, <2>7, ConnMoves
  <2>9. Booked(audit, ran, conn')
    <3>1. \A d \in Conns : conn'[d].pc \in {"runtime", "run"} =>
             /\ conn[d].pc \in {"runtime", "run"}
             /\ conn'[d].account = conn[d].account /\ conn'[d].op = conn[d].op
      BY <2>5, <2>8
    <3> QED
      BY <3>1, BookedAgain DEF ServerInv
  <2>10. Booked(audit', ran, conn') /\ audit' \in Seq(AuditLines)
    BY <2>3, <2>4, <2>9, BookedAudit, AppendProperties DEF ServerInv
  <2> QED
    BY <2>7, <2>8, <2>10 DEF ServerInv
<1>4. ASSUME NEW c \in Conns, InstallSession(c) PROVE ServerInv'
  <2>1. conn[c].account \in Ids(accounts)
    BY <1>4, <1>a DEF InstallSession, ConnTrue
  <2>2. \A t \in tokens' : t.account \in Ids(accounts)
    BY <1>4, <2>1 DEF InstallSession, ServerInv
  <2> QED
    BY <1>4, <2>2, AtRestTrue, ConnMovesBooked DEF InstallSession, Hangs, ServerInv
<1>5. ASSUME NEW c \in Conns, NEW token, NEW op \in Requested, NEW w \in Accounts,
             NEW out \in Accounts, Authenticate(c, token, op, w, out)
      PROVE  ServerInv'
  <2> DEFINE targets == Targets(op, w, out)
             left == Asked(op, targets)
  <2>1. PICK t \in tokens :
          IF SessionLive(t)
          THEN /\ ConnAt(c, [pc |-> "authorize", account |-> t.account, op |-> op,
                             names |-> Range(targets), left |-> left,
                             held |-> {<<v, membership[v][t.account]>> : v \in Range(targets)}])
               /\ UNCHANGED tokens
          ELSE /\ tokens' = tokens \ {t}
               /\ UNCHANGED conn
    BY <1>5 DEF Authenticate
  <2>2. UNCHANGED <<accounts, membership, audit, runtimes, ran>>
    BY <1>5 DEF Authenticate
  <2>3. CASE ~SessionLive(t)
    BY <2>1, <2>2, <2>3 DEF ServerInv
  <2>4. CASE SessionLive(t)
    <3> DEFINE names == Range(targets)
               held == {<<v, membership[v][t.account]>> : v \in names}
               r == [pc |-> "authorize", account |-> t.account, op |-> op, names |-> names,
                     left |-> left, held |-> held]
    <3>1. targets \in Seq(Accounts) /\ left \in Seq(Accounts)
      BY DEF Targets, Asked
    <3>2. names = {targets[i] : i \in 1..Len(targets)} /\ names \subseteq Accounts
      <4> HIDE DEF targets
      <4>1. DOMAIN targets = 1..Len(targets) /\ \A i \in 1..Len(targets) : targets[i] \in Accounts
        BY <3>1
      <4> QED
        BY <4>1 DEF Range
    <3>a. /\ left = targets \/ left = <<>>
          /\ left = targets \/ op = "jobs" \/ names = {}
      <4>1. op = "health" => targets = <<>>
        BY DEF Targets
      <4>2. Policy[op].access = "any" => op \in {"health", "jobs"}
        BY ServerAssumption DEF Policy
      <4>3. targets = <<>> => names = {}
        BY DEF Range
      <4> QED
        BY <4>1, <4>2, <4>3 DEF Asked
    <3>3. t.account \in Ids(accounts) /\ t.account \in Accounts /\ op \in WebOps
      BY ServerAssumption DEF ServerInv, Ids, WebOps
    <3> HIDE DEF left, names, targets
    <3>4. held \subseteq Accounts \X RoleNames
      BY <3>2, <3>3 DEF ServerInv
    <3>5. AskTrue(t.account, op, names, left, held, membership)
      <4>1. {left[i] : i \in 1..Len(left)} \subseteq names
        <5>1. CASE left = targets
          BY <3>2, <5>1
        <5>2. CASE left = <<>>
          BY <5>2
        <5> QED
          BY <3>a, <5>1, <5>2
      <4>2. ASSUME NEW v \in names
            PROVE  Sanctioned(held, op, v) \/ v \in {left[i] : i \in 1..Len(left)}
        BY <3>2, <3>a DEF Sanctioned
      <4> QED
        BY <4>1, <4>2 DEF AskTrue
    <3>6. ConnAt(c, r)
      BY <2>1, <2>4 DEF names
    <3> HIDE DEF held
    <3>7. /\ r \in ConnRows /\ r.pc = "authorize" /\ r.account = t.account /\ r.op = op
          /\ r.names = names /\ r.left = left /\ r.held = held
      BY <3>1, <3>2, <3>3, <3>4 DEF ConnRows
    <3> HIDE DEF r
    <3>8. ConnTrue(r, accounts, membership)
      BY <3>3, <3>5, <3>7 DEF ConnTrue
    <3>9. tokens' = tokens
      BY <2>1, <2>4
    <3> QED
      BY <2>2, <3>6, <3>7, <3>8, <3>9, ConnMovesBooked DEF ServerInv
  <2> QED
    BY <2>3, <2>4
<1>6. ASSUME NEW c \in Conns, AuthorizePath(c) PROVE ServerInv'
  <2> DEFINE k == conn[c]
             w == Head(k.left)
             role == membership[w][k.account]
  <2>1. k \in ConnRows /\ ConnTrue(k, accounts, membership) /\ k.pc = "authorize" /\ k.left # <<>>
    BY <1>6, <1>a DEF AuthorizePath
  <2>2. UNCHANGED <<accounts, membership, tokens, audit, runtimes, ran>>
    BY <1>6 DEF AuthorizePath
  <2>3. CASE Hangs(c)
    BY <2>2, <2>3, AtRestTrue, ConnMovesBooked DEF Hangs, ServerInv
  <2>4. CASE /\ role # "none" /\ Rank(role) >= Rank(Required(Policy[k.op].access))
             /\ ConnAt(c, [k EXCEPT !.left = Tail(k.left)])
    <3> DEFINE r == [k EXCEPT !.left = Tail(k.left)]
    <3>1. k.left \in Seq(Accounts) /\ k.op \in WebOps /\ k.names \subseteq Accounts
      BY <2>1 DEF ConnRows
    <3>2. k.account \in Ids(accounts) /\ k.account \in Accounts
      BY <2>1 DEF ConnTrue, ServerInv, Ids
    <3>3. AskTrue(k.account, k.op, k.names, k.left, k.held, membership)
      BY <2>1 DEF ConnTrue
    <3>4. w \in k.names
      <4> DEFINE left == k.left
      <4>1. left \in Seq(Accounts) /\ left # <<>> /\ {left[i] : i \in 1..Len(left)} \subseteq k.names
        BY <2>1, <3>1, <3>3 DEF AskTrue
      <4> HIDE DEF left
      <4>2. 1 \in 1..Len(left) /\ Head(left) = left[1]
        BY <4>1, HeadTailProperties
      <4>3. Head(left) \in k.names
        BY <4>1, <4>2
      <4> QED
        BY <4>3 DEF left
    <3>5. <<w, role>> \in k.held
      BY <3>3, <3>4 DEF AskTrue
    <3>6. role \in RoleNames
      BY <3>1, <3>2, <3>4 DEF ServerInv
    <3>7. role \in Suffices(k.op)
      BY <2>4, <3>1, <3>6, RankSuffices
    <3>8. Sanctioned(k.held, k.op, w)
      BY <3>5, <3>7 DEF Sanctioned
    <3>9. /\ Tail(k.left) \in Seq(Accounts)
          /\ AskTrue(k.account, k.op, k.names, Tail(k.left), k.held, membership)
      BY <2>1, <3>1, <3>3, <3>8, AskNext
    <3>10. ConnAt(c, r)
      BY <2>4
    <3> HIDE DEF k
    <3>11. /\ r \in ConnRows /\ r.pc = k.pc /\ r.account = k.account /\ r.op = k.op
           /\ r.names = k.names /\ r.left = Tail(k.left) /\ r.held = k.held
      BY <2>1, <3>9 DEF ConnRows
    <3> HIDE DEF r
    <3>12. ConnTrue(r, accounts, membership)
      BY <2>1, <3>2, <3>9, <3>11 DEF ConnTrue
    <3> QED
      BY <2>1, <2>2, <3>10, <3>11, <3>12, ConnMovesBooked DEF ServerInv
  <2> QED
    BY <1>6, <2>3, <2>4 DEF AuthorizePath
<1>7. ASSUME NEW c \in Conns, NoPolicy(c) \/ StatementFails(c) PROVE ServerInv'
  BY <1>7, AtRestTrue, ConnMovesBooked DEF NoPolicy, StatementFails, Hangs, ServerInv
<1>8. ASSUME NEW c \in Conns, AuditOperation(c) PROVE ServerInv'
  <2> DEFINE k == conn[c]
             r == [k EXCEPT !.pc = "runtime"]
             line == [actor |-> k.account, action |-> k.op]
  <2>1. /\ k \in ConnRows /\ ConnTrue(k, accounts, membership) /\ k.pc = "authorize"
        /\ k.left = <<>> /\ Policy[k.op].access # "none"
    BY <1>8, <1>a DEF AuditOperation
  <2>2. UNCHANGED <<accounts, membership, tokens, runtimes, ran>>
    BY <1>8 DEF AuditOperation
  <2>3. k.account \in Ids(accounts) /\ k.account \in Accounts /\ k.op \in WebOps
    BY <2>1 DEF ConnTrue, ServerInv, Ids, ConnRows
  <2>4. audit' = (IF Policy[k.op].audited THEN Append(audit, line) ELSE audit) /\ ConnAt(c, r)
    BY <1>8 DEF AuditOperation
  <2>5. PastTrue(k.op, k.names, k.held)
    <3>1. AskTrue(k.account, k.op, k.names, <<>>, k.held, membership)
      BY <2>1 DEF ConnTrue
    <3>2. 1..Len(<<>>) = {}
      OBVIOUS
    <3> QED
      BY <2>1, <3>1, <3>2 DEF AskTrue, PastTrue
  <2> HIDE DEF k
  <2>6. /\ r \in ConnRows /\ r.pc = "runtime" /\ r.account = k.account /\ r.op = k.op
        /\ r.names = k.names /\ r.held = k.held
    BY <2>1 DEF ConnRows
  <2> HIDE DEF r
  <2>7. ConnTrue(r, accounts, membership)
    BY <2>3, <2>5, <2>6 DEF ConnTrue
  <2>8. /\ conn' \in [Conns -> ConnRows]
        /\ \A d \in Conns : ConnTrue(conn'[d], accounts', membership')
        /\ conn'[c] = r /\ \A d \in Conns \ {c} : conn'[d] = conn[d]
    BY <2>2, <2>4, <2>6, <2>7, ConnMoves
  <2>9. conn[c].pc = "authorize"
    BY <2>1 DEF k
  <2>10. Booked(audit', ran, conn')
    <3> DEFINE acc == k.account
               o == k.op
               dn == conn'
    <3>1. audit \in Seq(AuditLines) /\ IsFiniteSet(ran) /\ Booked(audit, ran, conn)
      BY DEF ServerInv
    <3>2. /\ acc \in Accounts /\ o \in WebOps
          /\ audit' = Entered(audit, acc, o)
          /\ \A d \in Conns \ {c} : dn[d] = conn[d]
          /\ conn[c].pc = "authorize" /\ dn[c].account = acc /\ dn[c].op = o
      BY <2>3, <2>4, <2>6, <2>8, <2>9 DEF Entered
    <3> HIDE DEF acc, o, dn
    <3>3. Booked(Entered(audit, acc, o), ran, dn)
      BY <3>1, <3>2, BookedOwes
    <3> QED
      BY <3>2, <3>3 DEF dn
  <2>11. line \in AuditLines
    BY <2>3 DEF AuditLines
  <2> HIDE DEF line
  <2>12. audit' \in Seq(AuditLines)
    BY <2>4, <2>11, AppendProperties DEF ServerInv
  <2> QED
    BY <2>2, <2>8, <2>10, <2>12 DEF ServerInv
<1>9. ASSUME NEW c \in Conns, RuntimeForAccount(c) PROVE ServerInv'
  <2> DEFINE k == conn[c]
             r == [k EXCEPT !.pc = "run"]
  <2>1. k \in ConnRows /\ ConnTrue(k, accounts, membership) /\ k.pc = "runtime"
    BY <1>9, <1>a DEF RuntimeForAccount
  <2>2. UNCHANGED <<accounts, membership, tokens, audit, ran>>
    BY <1>9 DEF RuntimeForAccount
  <2>3. CASE RuntimesFull(k.account)
    BY <1>9, <2>2, <2>3, AtRestTrue, ConnMovesBooked DEF RuntimeForAccount, Hangs, ServerInv
  <2>4. CASE ~RuntimesFull(k.account)
    <3>1. ConnAt(c, r) /\ runtimes' = runtimes \cup {k.account}
      BY <1>9, <2>4 DEF RuntimeForAccount
    <3>2. IsFiniteSet(runtimes') /\ Cardinality(runtimes') <= RuntimeMax
      <4>1. /\ IsFiniteSet(runtimes \cup {k.account})
            /\ Cardinality(runtimes \cup {k.account}) =
                 IF k.account \in runtimes THEN Cardinality(runtimes) ELSE Cardinality(runtimes) + 1
        BY FS_AddElement DEF ServerInv
      <4>2. Cardinality(runtimes) \in Nat /\ RuntimeMax \in Nat /\ Cardinality(runtimes) <= RuntimeMax
        BY FS_CardinalityType, ServerAssumption DEF ServerInv
      <4> QED
        BY <2>4, <3>1, <4>1, <4>2 DEF RuntimesFull
    <3> HIDE DEF k
    <3>3. /\ r \in ConnRows /\ r.pc = "run" /\ r.account = k.account /\ r.op = k.op
          /\ r.names = k.names /\ r.held = k.held
      BY <2>1 DEF ConnRows
    <3> HIDE DEF r
    <3>4. ConnTrue(r, accounts, membership)
      BY <2>1, <3>3 DEF ConnTrue
    <3> QED
      BY <2>1, <2>2, <3>1, <3>2, <3>3, <3>4, ConnMovesBooked DEF ServerInv, k
  <2> QED
    BY <2>3, <2>4
<1>10. ASSUME NEW c \in Conns, Respond(c) PROVE ServerInv'
  <2> DEFINE k == conn[c]
             x == [n |-> Cardinality(ran), account |-> k.account, op |-> k.op,
                   names |-> k.names, held |-> k.held]
  <2>1. k \in ConnRows /\ ConnTrue(k, accounts, membership) /\ k.pc = "run"
    BY <1>10, <1>a DEF Respond
  <2>2. /\ UNCHANGED <<accounts, membership, tokens, audit, runtimes>>
        /\ ran' = ran \cup {x} /\ ConnAt(c, NoConn)
    BY <1>10 DEF Respond, Hangs
  <2>3. x.account = k.account /\ x.op = k.op /\ x.names = k.names /\ x.held = k.held
    OBVIOUS
  <2> HIDE DEF x
  <2>4. RunTrue(x, accounts)
    BY <2>1, <2>3 DEF ConnTrue, ConnRows, RunTrue
  <2>5. /\ conn' \in [Conns -> ConnRows]
        /\ \A d \in Conns : ConnTrue(conn'[d], accounts', membership')
        /\ conn'[c] = NoConn /\ \A d \in Conns \ {c} : conn'[d] = conn[d]
    BY <2>2, AtRestTrue, ConnMoves
  <2>6. conn'[c].pc = "idle"
    BY <2>5, AtRestTrue
  <2>7. Booked(audit, ran \cup {x}, conn')
    BY <2>1, <2>3, <2>5, <2>6, BookedRun DEF ServerInv
  <2>8. IsFiniteSet(ran \cup {x})
    BY FS_AddElement DEF ServerInv
  <2> QED
    BY <2>2, <2>4, <2>5, <2>7, <2>8 DEF ServerInv
<1>11. ASSUME NEW w \in Accounts, NEW a \in Accounts, NEW role \in Range(Roles),
              GrantMembership(w, a, role)
       PROVE  ServerInv'
  <2>1. role \in RoleNames
    BY DEF Range, Roles, RoleNames
  <2>2. /\ membership' = [membership EXCEPT ![w][a] = role]
        /\ conn' = [c \in Conns |->
                      IF conn[c].account = a /\ w \in conn[c].names
                      THEN [conn[c] EXCEPT !.held = conn[c].held \cup {<<w, role>>}] ELSE conn[c]]
        /\ UNCHANGED <<accounts, tokens, audit, runtimes, ran>>
    BY <1>11 DEF GrantMembership
  <2>3. membership' \in [Accounts -> [Accounts -> RoleNames]]
    BY <2>1, <2>2 DEF ServerInv
  <2>4. \A v, b \in Accounts : membership'[v][b] = IF v = w /\ b = a THEN role ELSE membership[v][b]
    BY <2>2 DEF ServerInv
  <2>5. ASSUME NEW c \in Conns
        PROVE  /\ conn'[c] \in ConnRows /\ ConnTrue(conn'[c], accounts', membership')
               /\ conn'[c].pc = conn[c].pc /\ conn'[c].account = conn[c].account
               /\ conn'[c].op = conn[c].op
    <3> DEFINE k == conn[c]
               held == k.held \cup {<<w, role>>}
               r == [k EXCEPT !.held = held]
    <3>1. k \in ConnRows /\ ConnTrue(k, accounts, membership)
      BY <1>a
    <3>2. /\ k.names \subseteq Accounts /\ k.held \subseteq Accounts \X RoleNames
          /\ k.pc # "idle" => k.account \in Accounts
      BY <3>1 DEF ConnRows, ConnTrue, ServerInv, Ids
    <3>3. CASE k.account = a /\ w \in k.names
      <4>1. conn'[c] = r
        BY <2>2, <3>3
      <4>2. held \subseteq Accounts \X RoleNames /\ k.held \subseteq held
        BY <2>1, <3>2
      <4>3. <<w, role>> \in held
        OBVIOUS
      <4> HIDE DEF k, held
      <4>4. /\ r \in ConnRows /\ r.pc = k.pc /\ r.account = k.account /\ r.op = k.op
            /\ r.names = k.names /\ r.left = k.left /\ r.held = held
        BY <3>1, <4>2 DEF ConnRows
      <4> HIDE DEF r
      <4>5. \A v : Sanctioned(k.held, k.op, v) => Sanctioned(held, k.op, v)
        BY <4>2 DEF Sanctioned
      <4>6. ASSUME k.pc = "authorize"
            PROVE  AskTrue(k.account, k.op, k.names, k.left, held, membership')
        <5> DEFINE left == k.left
        <5>1. AskTrue(k.account, k.op, k.names, left, k.held, membership)
          BY <3>1, <4>6 DEF ConnTrue
        <5> HIDE DEF left
        <5>2. ASSUME NEW v \in k.names PROVE <<v, membership'[v][k.account]>> \in held
          <6>1. <<v, membership[v][k.account]>> \in held
            BY <4>2, <5>1 DEF AskTrue
          <6>2. membership'[v][k.account] = IF v = w THEN role ELSE membership[v][k.account]
            BY <2>4, <3>2, <3>3
          <6> QED
            BY <4>3, <6>1, <6>2
        <5>3. AskTrue(k.account, k.op, k.names, left, held, membership')
          BY <4>5, <5>1, <5>2 DEF AskTrue
        <5> QED
          BY <5>3 DEF left
      <4>7. PastTrue(k.op, k.names, k.held) => PastTrue(k.op, k.names, held)
        BY <4>5 DEF PastTrue
      <4>8. ConnTrue(r, accounts', membership')
        BY <2>2, <3>1, <4>4, <4>6, <4>7 DEF ConnTrue
      <4> QED
        BY <4>1, <4>4, <4>8 DEF k
    <3>4. CASE ~(k.account = a /\ w \in k.names)
      <4>1. conn'[c] = k
        BY <2>2, <3>4
      <4>2. k.pc = "authorize" =>
              \A v \in k.names : membership'[v][k.account] = membership[v][k.account]
        BY <2>4, <3>2, <3>4
      <4>3. Ids(accounts) \subseteq Ids(accounts')
        BY <2>2
      <4>4. ConnTrue(k, accounts', membership')
        BY <3>1, <4>2, <4>3, ConnKept
      <4> QED
        BY <3>1, <4>1, <4>4
    <3> QED
      BY <3>3, <3>4
  <2>6. conn' \in [Conns -> ConnRows]
    BY <2>2, <2>5
  <2>7. Booked(audit, ran, conn')
    BY <2>5, BookedAgain DEF ServerInv
  <2> QED
    BY <2>2, <2>3, <2>5, <2>6, <2>7 DEF ServerInv
<1>12. ASSUME ServerKilled PROVE ServerInv'
  <2>1. \A c \in Conns : conn'[c] = NoConn
    BY <1>12 DEF ServerKilled
  <2>2. conn' \in [Conns -> ConnRows]
    BY <1>12, AtRestTrue DEF ServerKilled
  <2>3. \A c \in Conns : conn'[c].pc = "idle" /\ ConnTrue(conn'[c], accounts', membership')
    BY <2>1, AtRestTrue
  <2>4. Booked(audit, ran, conn')
    BY <2>3, BookedAgain DEF ServerInv
  <2>5. IsFiniteSet({}) /\ Cardinality({}) = 0 /\ 0 <= RuntimeMax
    BY FS_EmptySet, ServerAssumption
  <2> QED
    BY <1>12, <2>2, <2>3, <2>4, <2>5 DEF ServerKilled, ServerInv
<1>13. ASSUME NEW token, Logout(token) PROVE ServerInv'
  BY <1>13 DEF Logout, ServerInv
<1>14. CASE ServerTick \/ UNCHANGED serverVars
  BY <1>14 DEF ServerTick, serverVars, ServerInv
<1> QED
  BY <1>1, <1>2, <1>3, <1>4, <1>5, <1>6, <1>7, <1>8, <1>9, <1>10, <1>11, <1>12, <1>13, <1>14
     DEF ServerNext

(* What the api host is given was sanctioned and can be accounted for,        *)
(* whatever signups, grants, expiries, failed statements and kills come       *)
(* between the steps of a request, and no more accounts have a runtime than   *)
(* the bound.                                                                *)
THEOREM RequestsAreSanctioned == ServerSpec => []RequestsSanctioned
<1>1. ServerInit => ServerInv
  <2> SUFFICES ASSUME ServerInit PROVE ServerInv
    OBVIOUS
  <2>1. IsFiniteSet({}) /\ Cardinality({}) = 0 /\ 0 <= RuntimeMax
    BY FS_EmptySet, ServerAssumption
  <2>2. "none" \in RoleNames /\ <<>> \in Seq(AuditLines)
    BY DEF RoleNames
  <2>3. conn \in [Conns -> ConnRows] /\ \A c \in Conns : conn[c].pc = "idle"
    BY AtRestTrue DEF ServerInit
  <2>4. \A c \in Conns : ConnTrue(conn[c], accounts, membership)
    BY AtRestTrue DEF ServerInit
  <2>5. Booked(audit, ran, conn)
    <3> SUFFICES ASSUME NEW a \in Accounts, NEW op \in WebOps
                 PROVE  Cardinality(AuditSet(audit, a, op)) >=
                          Cardinality(RunSet(ran, a, op)) + Cardinality(OwedSet(conn, a, op))
      BY DEF Booked
    <3>1. RunSet(ran, a, op) = {} /\ OwedSet(conn, a, op) = {}
      BY <2>3 DEF RunSet, OwedSet, ServerInit
    <3>2. audit \in Seq(AuditLines) /\ IsFiniteSet(ran)
      BY <2>1, <2>2 DEF ServerInit
    <3>3. Cardinality(AuditSet(audit, a, op)) \in Nat
      BY <3>2, FiniteCounts
    <3> QED
      BY <2>1, <3>1, <3>3
  <2>6. membership \in [Accounts -> [Accounts -> RoleNames]]
    BY <2>2 DEF ServerInit
  <2> QED
    BY <2>1, <2>2, <2>3, <2>4, <2>5, <2>6 DEF ServerInit, ServerInv
<1>2. ServerInv => RequestsSanctioned
  <2> SUFFICES ASSUME ServerInv PROVE RequestsSanctioned
    OBVIOUS
  <2>1. ASSUME NEW x \in ran, Policy[x.op].audited
        PROVE  AuditRows(x.account, x.op) >= RunsOf(x.account, x.op)
    <3> DEFINE a == x.account
               op == x.op
    <3>1. a \in Accounts /\ op \in WebOps
      BY DEF ServerInv, RunTrue, Ids
    <3>2. audit \in Seq(AuditLines) /\ IsFiniteSet(ran) /\ DOMAIN audit = 1..Len(audit)
      BY DEF ServerInv
    <3>3. /\ Cardinality(AuditSet(audit, a, op)) \in Nat /\ Cardinality(RunSet(ran, a, op)) \in Nat
          /\ Cardinality(OwedSet(conn, a, op)) \in Nat
      BY <3>2, FiniteCounts
    <3>4. Cardinality(AuditSet(audit, a, op)) >=
            Cardinality(RunSet(ran, a, op)) + Cardinality(OwedSet(conn, a, op))
      BY <2>1, <3>1 DEF ServerInv, Booked
    <3>5. AuditRows(a, op) = Cardinality(AuditSet(audit, a, op))
      BY <3>2 DEF AuditRows, AuditSet
    <3>6. RunsOf(a, op) = Cardinality(RunSet(ran, a, op))
      BY DEF RunsOf, RunSet
    <3> QED
      BY <3>3, <3>4, <3>5, <3>6
  <2>2. ASSUME NEW x \in ran
        PROVE  /\ x.account \in {y.id : y \in accounts}
               /\ x.op # "jobs" => \A w \in x.names : \E h \in x.held :
                    h[1] = w /\ h[2] \in IF Policy[x.op].access = "mutate"
                                        THEN {"member", "admin", "owner"} ELSE Range(Roles)
               /\ Policy[x.op].access # "none"
    BY DEF ServerInv, RunTrue, PastTrue, Sanctioned, Suffices, Ids
  <2> QED
    BY <2>1, <2>2 DEF ServerInv, RequestsSanctioned
<1> QED
  BY <1>1, <1>2, ServerStep, PTL DEF ServerSpec

=============================================================================
