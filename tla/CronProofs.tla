------------------------------ MODULE CronProofs ------------------------------
(***************************************************************************)
(* Proofs about Cron and CronSearch.  Cron: for every set of schedules and   *)
(* firing instants, every scan limit, any number of processes that tick and  *)
(* any number of registrations, toggles and faults; what a tick carries from *)
(* its reads to its appends is true of the rows of every schedule that no    *)
(* other tick fired meanwhile.  CronSearch: for every calendar, expression and  *)
(* start, and every zone whose gap is a whole hour.                          *)
(***************************************************************************)
EXTENDS Cron, CronSearch, FiniteSetTheorems, NaturalsInduction,
        WellFoundedInduction, TLAPS

-----------------------------------------------------------------------------
(* The inductive invariants.                                                 *)

Ticks == [pc: {"idle", "next", "fire", "kill"}, now: Instants, rows: [Crons -> Rows \cup {NoRow}],
          todo: SUBSET Crons, due: Instants \cup {NoFire}, kill: SUBSET Instants,
          victim: Instants \cup {NoFire}]

(* The shape of what a tick carries, and the firing it found owed.           *)
TickShape(k) ==
    /\ k.todo \subseteq {c \in Crons : k.rows[c] # NoRow}
    /\ k.pc # "idle" <=> k.todo # {}
    /\ k.due # NoFire <=> k.pc \in {"fire", "kill"}
    /\ k.victim # NoFire <=> k.pc = "kill"
    /\ \A c \in Crons : k.rows[c] # NoRow => k.rows[c].policy \in Policies[c]
    /\ k.pc \in {"fire", "kill"} => k.due \in Elapsed(k.rows[Min(k.todo)], k.now)

CronTyped ==
    /\ now \in Instants
    /\ crons \in [Crons -> Rows \cup {NoRow}]
    /\ \A c \in Crons : crons[c] # NoRow => crons[c].policy \in Policies[c]
    /\ jobs \in [JobIds -> JobStates]
    /\ registers \in [Crons -> Nat]
    /\ tick \in [Tickers -> Ticks]
    /\ \A t \in Tickers : TickShape(tick[t]) /\ tick[t].now <= now
    /\ \A t \in Tickers : \A c \in tick[t].todo : crons[c] # NoRow

(* The row of schedule c is still the one the tick read.                     *)
SameRow(row, k, c) ==
    /\ row # NoRow
    /\ row.schedule = k.rows[c].schedule
    /\ row.registered = k.rows[c].registered
    /\ row.lastFired = k.rows[c].lastFired

(* What a tick decided about schedule c, given the job rows jb: under Skip    *)
(* and CancelPrevious the jobs in the queue are the ones it is about to      *)
(* retire, and those it retires had been enqueued.                           *)
Retiring(k, c, jb, cx) ==
    /\ "Queue" \notin Policies[c] /\ c \notin cx =>
          \A i \in Instants : jb[<<c, i>>] = "queued" => i \in k.kill \/ i = k.victim
    /\ \A i \in k.kill : jb[<<c, i>>] # "absent"
    /\ k.victim # NoFire => jb[<<c, k.victim>>] # "absent"

(* A schedule whose row only one registration and one tick at a time wrote.  *)
Kept(c, rg, cx) == rg[c] <= 1 /\ c \notin cx

TickTrue(k, cr, jb, rg, cx) ==
    /\ \A c \in k.todo : Kept(c, rg, cx) => SameRow(cr[c], k, c)
    /\ k.pc \in {"fire", "kill"} => Retiring(k, Min(k.todo), jb, cx)

(* Such a schedule never fired past its watermark.                           *)
Marked(c, cr, jb, rg, cx) ==
    /\ rg[c] = 0 => cr[c] = NoRow
    /\ rg[c] = 0 => \A i \in Instants : jb[<<c, i>>] = "absent"
    /\ Kept(c, rg, cx) => \A i \in Instants : jb[<<c, i>>] # "absent" =>
          cr[c] # NoRow /\ i <= Watermark(cr[c])

AtMostOne(c, jb, cx) ==
    "Queue" \notin Policies[c] /\ c \notin cx =>
        \A i, k \in Instants : jb[<<c, i>>] = "queued" /\ jb[<<c, k>>] = "queued" => i = k

(* SupersededHasSuccessor for one schedule.                                  *)
Followed(c, cr, jb, rg, cx, at) ==
    Kept(c, rg, cx) => \A i \in Instants : jb[<<c, i>>] = "superseded" =>
        \/ \E k \in Instants : k > i /\ jb[<<c, k>>] # "absent"
        \/ \E f \in Elapsed(cr[c], at) : f > i

CronTrue(c, cr, jb, rg, cx, at) ==
    Marked(c, cr, jb, rg, cx) /\ AtMostOne(c, jb, cx) /\ Followed(c, cr, jb, rg, cx, at)

CronInv ==
    /\ CronTyped
    /\ \A t \in Tickers : TickTrue(tick[t], crons, jobs, registers, crossed)
    /\ \A c \in Crons : CronTrue(c, crons, jobs, registers, crossed, now)

-----------------------------------------------------------------------------
(* Least and greatest elements.                                              *)

(* A nonempty set of natural numbers has a least element.                    *)
LEMMA MinIsMember ==
    ASSUME NEW T, T \subseteq Nat, T # {}
    PROVE  Min(T) \in T /\ \A y \in T : Min(T) <= y
<1> DEFINE Less == {ss \in Nat \X Nat : ss[1] < ss[2]}
<1>1. IsWellFoundedOn(Less, Nat)
  BY NatLessThanWellFounded, Zenon DEF OpToRel
<1> HIDE DEF Less
<1>2. PICK m \in T : \A y \in T : ~(<<y, m>> \in Less)
  BY <1>1, WFMin
<1>3. \A y \in T : ~(y < m)
  BY <1>2 DEF Less
<1>4. \A y \in T : m <= y
  BY <1>2, <1>3
<1> QED
  BY <1>2, <1>4 DEF Min

(* A nonempty set of instants has a greatest element.                        *)
LEMMA MaxIsMember ==
    ASSUME NEW T, T \subseteq Instants, T # {}
    PROVE  Max(T) \in T
<1> DEFINE U == {MaxTime - x : x \in T}
<1>0. MaxTime \in Nat
  BY ConstantsAssumption
<1>1. U \subseteq Nat /\ U # {}
  <2>1. \A x \in T : x \in 0..MaxTime
    BY DEF Instants
  <2>2. \A x \in T : MaxTime - x \in Nat
    BY <1>0, <2>1
  <2> QED
    BY <2>2
<1> DEFINE m == Min(U)
<1>2. m \in U /\ \A y \in U : m <= y
  <2> HIDE DEF U
  <2> QED
    BY <1>1, MinIsMember
<1> HIDE DEF m
<1>4. PICK x \in T : m = MaxTime - x
  BY <1>2
<1>5. \A y \in T : MaxTime - x <= MaxTime - y
  BY <1>2, <1>4
<1>6. \A y \in T : x >= y
  BY <1>0, <1>5 DEF Instants
<1> QED
  BY <1>4, <1>6 DEF Max

(* The watermark of a row is an instant.                                     *)
LEMMA WatermarkType ==
    ASSUME NEW row \in Rows
    PROVE  Watermark(row) \in Instants
BY DEF Watermark, Rows

(* The firing a tick finds owed has elapsed, and is not the absence of one.  *)
LEMMA DueElapsed ==
    ASSUME NEW row \in Rows, NEW at \in Instants, DueFiring(row, at) # NoFire
    PROVE  DueFiring(row, at) \in Elapsed(row, at) /\ DueFiring(row, at) \in Instants
<1> DEFINE scanned == {f \in Elapsed(row, at) :
                         Cardinality({g \in Elapsed(row, at) : g <= f}) <= ScanMax}
<1>1. Elapsed(row, at) \subseteq Instants
  BY ConstantsAssumption DEF Elapsed, Rows, Instants
<1>2. scanned \subseteq Elapsed(row, at)
  OBVIOUS
<1>3. DueFiring(row, at) = IF scanned = {} THEN NoFire ELSE Max(scanned)
  BY DEF DueFiring
<1> HIDE DEF scanned
<1>4. scanned # {} /\ DueFiring(row, at) = Max(scanned)
  BY <1>3
<1>5. Max(scanned) \in scanned
  BY <1>1, <1>2, <1>4, MaxIsMember
<1> QED
  BY <1>1, <1>2, <1>4, <1>5

-----------------------------------------------------------------------------
(* What the steps of a tick make of what it carries, field by field.         *)

Began(at, rows, todo) == [Idle EXCEPT !.pc = "next", !.now = at, !.rows = rows, !.todo = todo]
Passed(k) ==
    IF k.todo \ {Min(k.todo)} = {} THEN Idle
    ELSE [k EXCEPT !.pc = "next", !.todo = k.todo \ {Min(k.todo)}, !.due = NoFire, !.kill = {}]
Firing(k, due, kill) == [k EXCEPT !.pc = "fire", !.due = due, !.kill = kill]
Chosen(k, i) == [k EXCEPT !.pc = "kill", !.kill = k.kill \ {i}, !.victim = i]
Dropped(k, i) == [k EXCEPT !.kill = k.kill \ {i}]
Retired(k) == [k EXCEPT !.pc = "fire", !.victim = NoFire]

(* A ticker at rest.                                                         *)
LEMMA IdleShape ==
    /\ Idle \in Ticks /\ TickShape(Idle) /\ Idle.now = 0
    /\ Idle.pc = "idle" /\ Idle.todo = {} /\ Idle.due = NoFire /\ Idle.kill = {} /\ Idle.victim = NoFire
<1>1. 0 \in Instants
  BY ConstantsAssumption DEF Instants
<1>2. [c \in Crons |-> NoRow] \in [Crons -> Rows \cup {NoRow}]
  OBVIOUS
<1>3. Idle \in Ticks
  BY <1>1, <1>2 DEF Idle, Ticks
<1>4. TickShape(Idle)
  BY DEF Idle, TickShape
<1> QED
  BY <1>3, <1>4 DEF Idle

(* A tick that begins.                                                       *)
LEMMA BeganShape ==
    ASSUME NEW at \in Instants, NEW rows \in [Crons -> Rows \cup {NoRow}],
           \A c \in Crons : rows[c] # NoRow => rows[c].policy \in Policies[c],
           NEW todo \in SUBSET Crons, todo # {}, \A c \in todo : rows[c] # NoRow
    PROVE  /\ Began(at, rows, todo) \in Ticks /\ TickShape(Began(at, rows, todo))
           /\ Began(at, rows, todo).now = at /\ Began(at, rows, todo).rows = rows
           /\ Began(at, rows, todo).todo = todo /\ Began(at, rows, todo).pc = "next"
<1> DEFINE k == Began(at, rows, todo)
<1>1. /\ k \in Ticks /\ k.now = at /\ k.rows = rows /\ k.todo = todo /\ k.pc = "next"
      /\ k.due = NoFire /\ k.victim = NoFire
  BY IdleShape DEF Began, Ticks
<1> HIDE DEF k
<1>2. TickShape(k)
  BY <1>1 DEF TickShape
<1> QED
  BY <1>1, <1>2 DEF k

(* A tick that is through with a schedule goes to the next, or rests.        *)
LEMMA PassedShape ==
    ASSUME NEW k \in Ticks, TickShape(k), k.pc \in {"next", "fire"}
    PROVE  /\ Passed(k) \in Ticks /\ TickShape(Passed(k))
           /\ Passed(k).pc \in {"idle", "next"}
           /\ Passed(k).todo = k.todo \ {Min(k.todo)}
           /\ Passed(k) = Idle \/ (Passed(k).now = k.now /\ Passed(k).rows = k.rows)
<1> DEFINE rest == k.todo \ {Min(k.todo)}
<1>1. CASE rest = {}
  BY <1>1, IdleShape DEF Passed
<1>2. CASE rest # {}
  <2> DEFINE n == [k EXCEPT !.pc = "next", !.todo = rest, !.due = NoFire, !.kill = {}]
  <2>1. Passed(k) = n
    BY <1>2 DEF Passed
  <2>2. /\ n \in Ticks /\ n.pc = "next" /\ n.todo = rest /\ n.due = NoFire /\ n.now = k.now /\ n.rows = k.rows
        /\ n.victim = k.victim
    BY DEF Ticks
  <2> HIDE DEF n
  <2>3. TickShape(n)
    BY <1>2, <2>2 DEF TickShape
  <2> QED
    BY <2>1, <2>2, <2>3
<1> QED
  BY <1>1, <1>2

(* A tick that found a firing owed.                                          *)
LEMMA FiringShape ==
    ASSUME NEW k \in Ticks, TickShape(k), k.pc = "next",
           NEW due \in Instants, due \in Elapsed(k.rows[Min(k.todo)], k.now),
           NEW kill \in SUBSET Instants
    PROVE  /\ Firing(k, due, kill) \in Ticks /\ TickShape(Firing(k, due, kill))
           /\ Firing(k, due, kill).pc = "fire" /\ Firing(k, due, kill).kill = kill
           /\ Firing(k, due, kill).due = due /\ Firing(k, due, kill).victim = NoFire
           /\ Firing(k, due, kill).todo = k.todo
           /\ Firing(k, due, kill).now = k.now /\ Firing(k, due, kill).rows = k.rows
<1> DEFINE n == Firing(k, due, kill)
<1>1. /\ n \in Ticks /\ n.pc = "fire" /\ n.due = due /\ n.kill = kill /\ n.todo = k.todo
      /\ n.now = k.now /\ n.rows = k.rows /\ n.victim = k.victim
  BY DEF Firing, Ticks
<1>2. due # NoFire
  BY ConstantsAssumption
<1> HIDE DEF n
<1>3. TickShape(n) /\ n.victim = NoFire
  BY <1>1, <1>2 DEF TickShape
<1> QED
  BY <1>1, <1>3 DEF n

(* A tick that picks a job to retire, or leaves one that has finished.       *)
LEMMA ChosenShape ==
    ASSUME NEW k \in Ticks, TickShape(k), k.pc = "fire", NEW i \in k.kill
    PROVE  /\ Chosen(k, i) \in Ticks /\ TickShape(Chosen(k, i))
           /\ Chosen(k, i).pc = "kill" /\ Chosen(k, i).kill = k.kill \ {i} /\ Chosen(k, i).victim = i
           /\ Chosen(k, i).todo = k.todo /\ Chosen(k, i).now = k.now /\ Chosen(k, i).rows = k.rows
           /\ Dropped(k, i) \in Ticks /\ TickShape(Dropped(k, i))
           /\ Dropped(k, i).pc = "fire" /\ Dropped(k, i).kill = k.kill \ {i}
           /\ Dropped(k, i).victim = k.victim
           /\ Dropped(k, i).todo = k.todo /\ Dropped(k, i).now = k.now /\ Dropped(k, i).rows = k.rows
<1> DEFINE n == Chosen(k, i)
           d == Dropped(k, i)
<1>0. i \in Instants /\ i # NoFire
  BY ConstantsAssumption DEF Ticks
<1>1. /\ n \in Ticks /\ n.pc = "kill" /\ n.kill = k.kill \ {i} /\ n.victim = i
      /\ n.todo = k.todo /\ n.now = k.now /\ n.rows = k.rows /\ n.due = k.due
  BY <1>0 DEF Chosen, Ticks
<1>2. /\ d \in Ticks /\ d.pc = "fire" /\ d.kill = k.kill \ {i} /\ d.victim = k.victim
      /\ d.todo = k.todo /\ d.now = k.now /\ d.rows = k.rows /\ d.due = k.due
  BY DEF Dropped, Ticks
<1> HIDE DEF n, d
<1>3. TickShape(n)
  BY <1>0, <1>1 DEF TickShape
<1>4. TickShape(d)
  BY <1>2 DEF TickShape
<1> QED
  BY <1>1, <1>2, <1>3, <1>4 DEF n, d

(* A tick that has retired a job.                                            *)
LEMMA RetiredShape ==
    ASSUME NEW k \in Ticks, TickShape(k), k.pc = "kill"
    PROVE  /\ Retired(k) \in Ticks /\ TickShape(Retired(k))
           /\ Retired(k).pc = "fire" /\ Retired(k).kill = k.kill /\ Retired(k).victim = NoFire
           /\ Retired(k).todo = k.todo /\ Retired(k).now = k.now /\ Retired(k).rows = k.rows
<1> DEFINE n == Retired(k)
<1>1. /\ n \in Ticks /\ n.pc = "fire" /\ n.kill = k.kill /\ n.victim = NoFire
      /\ n.todo = k.todo /\ n.now = k.now /\ n.rows = k.rows /\ n.due = k.due
  BY DEF Retired, Ticks
<1> HIDE DEF n
<1>2. TickShape(n)
  BY <1>1 DEF TickShape
<1> QED
  BY <1>1, <1>2 DEF n

-----------------------------------------------------------------------------
(* Type correctness, for any number of tickers.                              *)

(* The schedule a tick is at is one it has still to do, with the row it read.*)
LEMMA CurrentRow ==
    ASSUME NEW k \in Ticks, TickShape(k), k.pc # "idle"
    PROVE  /\ Min(k.todo) \in k.todo /\ Min(k.todo) \in Crons
           /\ k.rows[Min(k.todo)] \in Rows
           /\ k.rows[Min(k.todo)].policy \in Policies[Min(k.todo)]
<1>1. k.todo \subseteq Crons /\ Crons \subseteq Nat /\ k.todo # {}
  BY ConstantsAssumption DEF Ticks, TickShape
<1>2. Min(k.todo) \in k.todo
  <2> HIDE DEF Ticks
  <2> QED
    BY <1>1, MinIsMember
<1>3. k.rows \in [Crons -> Rows \cup {NoRow}]
  BY DEF Ticks
<1> QED
  BY <1>1, <1>2, <1>3 DEF TickShape

(* A tick that goes on keeps the types of them all.                          *)
LEMMA TickGoesOn ==
    ASSUME CronTyped, NEW t \in Tickers, NEW k \in Ticks, TickShape(k), k.now <= now,
           \A c \in k.todo : crons[c] # NoRow, \A c \in Crons : crons[c] # NoRow => crons'[c] # NoRow,
           tick' = [tick EXCEPT ![t] = k], now' = now
    PROVE  /\ tick' \in [Tickers -> Ticks]
           /\ \A u \in Tickers : \A c \in tick'[u].todo : crons'[c] # NoRow
           /\ \A u \in Tickers : TickShape(tick'[u]) /\ tick'[u].now <= now'
           /\ tick'[t] = k
           /\ \A u \in Tickers : u # t => tick'[u] = tick[u]
<1>1. tick' \in [Tickers -> Ticks] /\ tick'[t] = k /\ \A u \in Tickers : u # t => tick'[u] = tick[u]
  BY DEF CronTyped
<1>2. \A u \in Tickers : \A c \in tick[u].todo : c \in Crons
  BY DEF CronTyped, TickShape
<1>3. \A c \in k.todo : c \in Crons
  BY DEF TickShape
<1> QED
  BY <1>1, <1>2, <1>3 DEF CronTyped

(* The steps of a tick in terms of what it carries.                          *)
LEMMA TickSteps ==
    ASSUME NEW t \in Tickers
    PROVE  /\ NextSchedule(t) <=> tick' = [tick EXCEPT ![t] = Passed(tick[t])]
           /\ SupersedeAppend(t) => tick' = [tick EXCEPT ![t] = Retired(tick[t])]
<1>1. NextSchedule(t) <=> tick' = [tick EXCEPT ![t] = Passed(tick[t])]
  BY DEF NextSchedule, Passed, Current
<1>2. SupersedeAppend(t) => tick' = [tick EXCEPT ![t] = Retired(tick[t])]
  BY DEF SupersedeAppend, Retired
<1> QED
  BY <1>1, <1>2

(* TickOne either passes the schedule or carries a firing that has elapsed.  *)
LEMMA TickOneStep ==
    ASSUME CronTyped, NEW t \in Tickers, TickOne(t)
    PROVE  LET k == tick[t]
               c == Min(tick[t].todo)
           IN /\ k \in Ticks /\ TickShape(k) /\ k.pc = "next" /\ k.now <= now
              /\ c \in k.todo /\ c \in Crons
              /\ \/ tick' = [tick EXCEPT ![t] = Passed(k)]
                 \/ \E due \in Elapsed(k.rows[c], k.now), kill \in SUBSET Instants :
                       /\ due \in Instants
                       /\ tick' = [tick EXCEPT ![t] = Firing(k, due, kill)]
                       /\ k.rows[c].policy = "Skip" => Live(c) = {}
                       /\ kill = IF k.rows[c].policy = "CancelPrevious" THEN Live(c) ELSE {}
              /\ k.rows[c].policy \in Policies[c]
<1> DEFINE k == tick[t]
           c == Min(k.todo)
           row == k.rows[c]
           due == DueFiring(row, k.now)
           kill == IF row.policy = "CancelPrevious" THEN Live(c) ELSE {}
<1>1. k \in Ticks /\ TickShape(k) /\ k.now <= now
  BY DEF CronTyped
<1>2. k.pc = "next"
  BY DEF TickOne
<1>3. c \in k.todo /\ c \in Crons /\ row \in Rows /\ row.policy \in Policies[c]
  BY <1>1, <1>2, CurrentRow
<1>4. k.now \in Instants
  BY <1>1 DEF Ticks
<1>5. kill \in SUBSET Instants
  BY DEF Live
<1>6. CASE NextSchedule(t)
  BY <1>1, <1>2, <1>3, <1>6, TickSteps
<1>7. CASE ~NextSchedule(t)
  <2>1. /\ due # NoFire /\ ~(row.policy = "Skip" /\ Live(c) # {})
        /\ tick' = [tick EXCEPT ![t] = [@ EXCEPT !.pc = "fire", !.due = due, !.kill = kill]]
    BY <1>7 DEF TickOne, Current
  <2>2. tick' = [tick EXCEPT ![t] = Firing(k, due, kill)]
    BY <2>1 DEF Firing
  <2>3. due \in Elapsed(row, k.now) /\ due \in Instants
    BY <1>3, <1>4, <2>1, DueElapsed
  <2> HIDE DEF due, kill
  <2>4. \E d \in Elapsed(k.rows[c], k.now), x \in SUBSET Instants :
           /\ d \in Instants
           /\ tick' = [tick EXCEPT ![t] = Firing(k, d, x)]
           /\ k.rows[c].policy = "Skip" => Live(c) = {}
           /\ x = IF k.rows[c].policy = "CancelPrevious" THEN Live(c) ELSE {}
    <3>1. kill = IF k.rows[c].policy = "CancelPrevious" THEN Live(c) ELSE {}
      BY DEF kill
    <3> QED
      BY <1>5, <2>1, <2>2, <2>3, <3>1
  <2> QED
    BY <1>1, <1>2, <1>3, <2>4
<1> QED
  BY <1>6, <1>7

(* Every step keeps the types.                                               *)
LEMMA TypedStep == CronTyped /\ [Next]_vars => CronTyped'
<1> SUFFICES ASSUME CronTyped, [Next]_vars PROVE CronTyped'
  OBVIOUS
<1>a. 0 \in Instants /\ MaxTime \in Nat /\ (\A i \in Instants : 0 <= i)
  BY ConstantsAssumption DEF Instants
<1>c. Idle.now <= now
  BY <1>a, IdleShape DEF CronTyped
<1>1. ASSUME NEW c \in Crons, NEW s \in Schedules, NEW e \in BOOLEAN, NEW p \in Policies[c], Register(c, s, p, e)
      PROVE  CronTyped'
  <2>1. p \in OverlapPolicies
    BY ConstantsAssumption
  <2> DEFINE r == RegisteredRow(s, p, e)
  <2>2. r \in Rows /\ r.policy = p /\ r # NoRow
    BY <2>1, ConstantsAssumption DEF RegisteredRow, Rows, CronTyped
  <2> HIDE DEF r
  <2>3. /\ crons' = [crons EXCEPT ![c] = r]
        /\ registers' = [registers EXCEPT ![c] = @ + 1]
        /\ UNCHANGED <<now, jobs, tick>>
    BY <1>1 DEF Register, r
  <2> QED
    BY <2>2, <2>3 DEF CronTyped
<1>2. ASSUME NEW c \in Crons, NEW e \in BOOLEAN, SetEnabled(c, e)
      PROVE  CronTyped'
  <2>1. crons[c] \in Rows
    BY <1>2 DEF SetEnabled, CronTyped
  <2> DEFINE r == [crons[c] EXCEPT !.enabled = e]
  <2>2. r \in Rows /\ r.policy = crons[c].policy /\ r # NoRow
    BY <2>1, ConstantsAssumption DEF Rows
  <2>3. /\ crons' = [crons EXCEPT ![c] = r]
        /\ crons[c] # NoRow
        /\ UNCHANGED <<now, jobs, tick, registers>>
    BY <1>2 DEF SetEnabled
  <2> HIDE DEF r
  <2> QED
    BY <2>2, <2>3 DEF CronTyped
<1>3. ASSUME NEW t \in Tickers, TickBegin(t)
      PROVE  CronTyped'
  <2> DEFINE todo == {c \in Crons : crons[c] # NoRow /\ crons[c].enabled}
             k == Began(now, crons, todo)
  <2>1. tick' = [tick EXCEPT ![t] = k] /\ todo # {} /\ UNCHANGED <<now, crons, jobs, registers>>
    BY <1>3 DEF TickBegin, Began
  <2>2. todo \in SUBSET Crons /\ \A c \in todo : crons[c] # NoRow
    OBVIOUS
  <2> HIDE DEF todo
  <2>3. k \in Ticks /\ TickShape(k) /\ k.now = now /\ k.todo = todo
    BY <2>1, <2>2, BeganShape DEF CronTyped
  <2>4. k.now <= now
    BY <2>3 DEF CronTyped, Instants
  <2> HIDE DEF k
  <2> QED
    BY <2>1, <2>2, <2>3, <2>4, TickGoesOn DEF CronTyped
<1>4. ASSUME NEW t \in Tickers, TickOne(t)
      PROVE  CronTyped'
  <2> DEFINE k == tick[t]
             c == Min(k.todo)
  <2>1. /\ k \in Ticks /\ TickShape(k) /\ k.pc = "next" /\ k.now <= now
        /\ \/ tick' = [tick EXCEPT ![t] = Passed(k)]
           \/ \E due \in Elapsed(k.rows[c], k.now), kill \in SUBSET Instants :
                 due \in Instants /\ tick' = [tick EXCEPT ![t] = Firing(k, due, kill)]
    BY <1>4, TickOneStep
  <2>2. UNCHANGED <<now, crons, jobs, registers>>
    BY <1>4 DEF TickOne
  <2>3. CASE tick' = [tick EXCEPT ![t] = Passed(k)]
    <3>1. /\ Passed(k) \in Ticks /\ TickShape(Passed(k)) /\ Passed(k).now <= now
          /\ \A d \in Passed(k).todo : crons[d] # NoRow
      BY <1>c, <2>1, PassedShape DEF CronTyped
    <3> QED
      BY <2>2, <2>3, <3>1, TickGoesOn DEF CronTyped
  <2>4. ASSUME NEW due \in Elapsed(k.rows[c], k.now), NEW kill \in SUBSET Instants,
               due \in Instants, tick' = [tick EXCEPT ![t] = Firing(k, due, kill)]
        PROVE  CronTyped'
    <3>1. /\ Firing(k, due, kill) \in Ticks /\ TickShape(Firing(k, due, kill)) /\ Firing(k, due, kill).now <= now
          /\ \A d \in Firing(k, due, kill).todo : crons[d] # NoRow
      BY <2>1, <2>4, FiringShape DEF CronTyped
    <3> QED
      BY <2>2, <2>4, <3>1, TickGoesOn DEF CronTyped
  <2> QED
    BY <2>1, <2>3, <2>4
<1>5. ASSUME NEW t \in Tickers, NEW i \in tick[t].kill, SupersedeRead(t, i)
      PROVE  CronTyped'
  <2> DEFINE k == tick[t]
  <2>1. k \in Ticks /\ TickShape(k) /\ k.now <= now /\ k.pc = "fire"
    BY <1>5 DEF CronTyped, SupersedeRead
  <2>2. UNCHANGED <<now, crons, jobs, registers>>
    BY <1>5 DEF SupersedeRead
  <2>3. tick' = [tick EXCEPT ![t] = Chosen(k, i)] \/ tick' = [tick EXCEPT ![t] = Dropped(k, i)]
    BY <1>5 DEF SupersedeRead, Chosen, Dropped
  <2>4. /\ Chosen(k, i) \in Ticks /\ TickShape(Chosen(k, i)) /\ Chosen(k, i).now <= now
        /\ Dropped(k, i) \in Ticks /\ TickShape(Dropped(k, i)) /\ Dropped(k, i).now <= now
        /\ Chosen(k, i).todo = k.todo /\ Dropped(k, i).todo = k.todo
    BY <1>5, <2>1, ChosenShape
  <2> QED
    BY <2>2, <2>3, <2>4, TickGoesOn DEF CronTyped
<1>6. ASSUME NEW t \in Tickers, SupersedeAppend(t)
      PROVE  CronTyped'
  <2> DEFINE k == tick[t]
  <2>1. k \in Ticks /\ TickShape(k) /\ k.now <= now /\ k.pc = "kill"
    BY <1>6 DEF CronTyped, SupersedeAppend
  <2>2. /\ UNCHANGED <<now, crons, registers>>
        /\ jobs' = [jobs EXCEPT ![<<Current(t), k.victim>>] = "superseded"]
        /\ tick' = [tick EXCEPT ![t] = Retired(k)]
    BY <1>6, TickSteps DEF SupersedeAppend
  <2>3. jobs' \in [JobIds -> JobStates]
    BY <2>2 DEF CronTyped, JobStates
  <2>4. Retired(k) \in Ticks /\ TickShape(Retired(k)) /\ Retired(k).now <= now /\ Retired(k).todo = k.todo
    BY <2>1, RetiredShape
  <2> QED
    BY <2>2, <2>3, <2>4, TickGoesOn DEF CronTyped
<1>7. ASSUME NEW t \in Tickers, Enqueue(t)
      PROVE  CronTyped'
  <2> DEFINE k == tick[t]
             c == Min(k.todo)
             j == <<c, k.due>>
  <2>1. k \in Ticks /\ TickShape(k) /\ k.now <= now /\ k.pc = "fire"
    BY <1>7 DEF CronTyped, Enqueue
  <2>2. /\ UNCHANGED <<now, registers>>
        /\ tick' = [tick EXCEPT ![t] = Passed(k)]
        /\ \/ jobs' = [jobs EXCEPT ![j] = "queued"] /\ crons' = [crons EXCEPT ![c].lastFired = k.due]
           \/ UNCHANGED <<jobs, crons>>
    BY <1>7, TickSteps DEF Enqueue, Current
  <2>3. jobs' \in [JobIds -> JobStates]
    BY <2>2 DEF CronTyped, JobStates
  <2>4. /\ Passed(k) \in Ticks /\ TickShape(Passed(k)) /\ Passed(k).now <= now
        /\ \A d \in Passed(k).todo : crons[d] # NoRow
    BY <1>c, <2>1, PassedShape DEF CronTyped
  <2>5. c \in Crons /\ k.due \in Instants /\ crons[c] \in Rows
    BY <2>1, CurrentRow DEF Ticks, TickShape, CronTyped
  <2>6. /\ crons' \in [Crons -> Rows \cup {NoRow}]
        /\ \A d \in Crons : crons'[d] # NoRow => crons'[d].policy \in Policies[d]
        /\ \A d \in Crons : crons[d] # NoRow => crons'[d] # NoRow
    <3>1. CASE UNCHANGED crons
      BY <3>1 DEF CronTyped
    <3>2. CASE crons' = [crons EXCEPT ![c].lastFired = k.due] /\ crons[c] \in Rows
      <4> DEFINE r == [crons[c] EXCEPT !.lastFired = k.due]
      <4>1. r \in Rows /\ r.policy = crons[c].policy /\ crons' = [crons EXCEPT ![c] = r] /\ r # NoRow
        BY ConstantsAssumption, <2>5, <3>2 DEF Rows
      <4>2. crons[c] # NoRow
        BY <3>2, ConstantsAssumption
      <4> HIDE DEF r
      <4> QED
        BY <2>5, <4>1, <4>2 DEF CronTyped
    <3> QED
      BY <2>2, <2>5, <3>1, <3>2 DEF CronTyped
  <2> QED
    BY <2>2, <2>3, <2>4, <2>6, TickGoesOn DEF CronTyped
<1>8. ASSUME NEW t \in Tickers, TickFault(t)
      PROVE  CronTyped'
  BY <1>8, <1>c, IdleShape, TickGoesOn DEF CronTyped, TickFault
<1>9. ASSUME NEW j \in JobIds, FinishJob(j)
      PROVE  CronTyped'
  BY <1>9 DEF CronTyped, FinishJob, JobStates
<1>10. ASSUME Advance
       PROVE  CronTyped'
  <2>1. now' \in Instants /\ \A t \in Tickers : tick[t].now <= now'
    BY <1>10, <1>a DEF Advance, Instants, CronTyped, Ticks
  <2> QED
    BY <1>10, <2>1 DEF Advance, CronTyped
<1>11. CASE UNCHANGED vars
  BY <1>11 DEF vars, CronTyped
<1> QED
  BY <1>1, <1>2, <1>3, <1>4, <1>5, <1>6, <1>7, <1>8, <1>9, <1>10, <1>11 DEF Next, TickNext

(* The first states have the types.                                          *)
LEMMA TypedInit == Init => CronTyped
<1> SUFFICES ASSUME Init PROVE CronTyped
  OBVIOUS
<1>1. now \in Instants /\ 0 <= now
  BY ConstantsAssumption DEF Init, Instants
<1>2. tick \in [Tickers -> Ticks] /\ \A t \in Tickers : tick[t] = Idle
  BY IdleShape DEF Init
<1>3. \A t \in Tickers : TickShape(tick[t]) /\ tick[t].now <= now /\ tick[t].todo = {}
  BY <1>1, <1>2, IdleShape
<1>4. jobs \in [JobIds -> JobStates]
  BY DEF Init, JobStates
<1> QED
  BY <1>1, <1>2, <1>3, <1>4 DEF Init, CronTyped

(* The rows and what every tick carries keep their types, whatever number of *)
(* processes tick the project: a tick has a schedule to do exactly while it  *)
(* is under way, a firing exactly while it fires, a victim exactly between   *)
(* the read and the append of supersede.                                     *)
THEOREM TickTyped == Spec => []TypeOK
<1>1. CronTyped => TypeOK
  BY DEF CronTyped, TypeOK, TickShape, Ticks
<1> QED
  BY <1>1, TypedInit, TypedStep, PTL DEF Spec

-----------------------------------------------------------------------------
(* What a tick decided stays true until it appends, or another one fired.    *)

(* Rows that agree with one another owe the same firings.                    *)
LEMMA SameRowOwes ==
    ASSUME NEW row, NEW k, NEW c, SameRow(row, k, c), NEW at \in Instants, NEW later \in Instants, at <= later
    PROVE  /\ Watermark(row) = Watermark(k.rows[c])
           /\ \A f \in Elapsed(k.rows[c], at) : f \in Fires[row.schedule] /\ Watermark(row) < f
           /\ k.rows[c] \in Rows => Elapsed(k.rows[c], at) \subseteq Elapsed(row, later)
<1>1. Watermark(row) = Watermark(k.rows[c])
  BY DEF SameRow, Watermark
<1>2. ASSUME k.rows[c] \in Rows
      PROVE  Elapsed(k.rows[c], at) \subseteq Elapsed(row, later)
  <2>1. \A f \in Fires[row.schedule] : f \in Int
    BY <1>2, ConstantsAssumption DEF Rows, SameRow
  <2> QED
    BY <1>1, <2>1 DEF Elapsed, SameRow, Instants
<1> QED
  BY <1>1, <1>2 DEF Elapsed, SameRow

(* More firings have elapsed later on.                                       *)
LEMMA ElapsedGrows ==
    ASSUME NEW row \in Rows, NEW at \in Instants, NEW later \in Instants, at <= later
    PROVE  Elapsed(row, at) \subseteq Elapsed(row, later)
<1>1. \A f \in Fires[row.schedule] : f \in Int
  BY ConstantsAssumption DEF Rows
<1> QED
  BY <1>1 DEF Elapsed, Instants

(* A schedule of which neither row nor jobs nor count change stays true.     *)
LEMMA Untouched ==
    ASSUME NEW c \in Crons, NEW cr, NEW jb, NEW rg, NEW cx, NEW at, CronTrue(c, cr, jb, rg, cx, at),
           NEW cr2, NEW jb2, NEW rg2, NEW cx2, cr2[c] = cr[c], rg2[c] = rg[c], cx \subseteq cx2,
           \A i \in Instants : jb2[<<c, i>>] = jb[<<c, i>>]
    PROVE  CronTrue(c, cr2, jb2, rg2, cx2, at)
BY DEF CronTrue, Marked, AtMostOne, Followed, Kept

(* A job that goes on without coming back into the queue or being retired.   *)
LEMMA JobGoesOn ==
    ASSUME NEW c \in Crons, NEW cr, NEW jb, NEW rg, NEW cx, NEW at, CronTrue(c, cr, jb, rg, cx, at), NEW jb2,
           \A i \in Instants : jb2[<<c, i>>] # "absent" <=> jb[<<c, i>>] # "absent",
           \A i \in Instants : jb2[<<c, i>>] = "queued" => jb[<<c, i>>] = "queued",
           \A i \in Instants : jb2[<<c, i>>] = "superseded" => jb[<<c, i>>] = "superseded"
    PROVE  CronTrue(c, cr, jb2, rg, cx, at)
BY DEF CronTrue, Marked, AtMostOne, Followed

(* What a tick carries stays true while jobs go on.                          *)
LEMMA TickStays ==
    ASSUME NEW k \in Ticks, TickShape(k), NEW cr, NEW jb, NEW rg, NEW cx, TickTrue(k, cr, jb, rg, cx), NEW jb2,
           \A c \in Crons, i \in Instants : jb[<<c, i>>] # "absent" => jb2[<<c, i>>] # "absent",
           \A c \in Crons, i \in Instants : jb2[<<c, i>>] = "queued" => jb[<<c, i>>] = "queued"
    PROVE  TickTrue(k, cr, jb2, rg, cx)
<1>1. CASE k.pc \in {"fire", "kill"}
  <2>1. Min(k.todo) \in Crons /\ k.kill \subseteq Instants /\ k.victim \in Instants \cup {NoFire}
    BY <1>1, CurrentRow DEF Ticks
  <2>2. Retiring(k, Min(k.todo), jb2, cx)
    BY <1>1, <2>1 DEF TickTrue, Retiring
  <2> QED
    BY <2>2 DEF TickTrue
<1>2. CASE k.pc \notin {"fire", "kill"}
  BY <1>2 DEF TickTrue
<1> QED
  BY <1>1, <1>2

(* A step of one ticker leaves what the others carry.                        *)
LEMMA OthersStay ==
    ASSUME CronTyped, NEW t \in Tickers, TickNext(t) \/ TickFault(t), NEW u \in Tickers, u # t
    PROVE  tick'[u] = tick[u]
<1>1. tick \in [Tickers -> Ticks]
  BY DEF CronTyped
<1>2. \E x : tick' = [tick EXCEPT ![t] = x]
  <2>1. CASE TickFault(t)
    BY <2>1 DEF TickFault
  <2>2. CASE TickBegin(t)
    BY <2>2 DEF TickBegin
  <2>3. CASE TickOne(t)
    BY <2>3 DEF TickOne, NextSchedule
  <2>4. ASSUME NEW i \in tick[t].kill, SupersedeRead(t, i) PROVE \E x : tick' = [tick EXCEPT ![t] = x]
    BY <2>4 DEF SupersedeRead
  <2>5. CASE SupersedeAppend(t)
    BY <2>5, TickSteps
  <2>6. CASE Enqueue(t)
    BY <2>6 DEF Enqueue, NextSchedule
  <2> QED
    BY <2>1, <2>2, <2>3, <2>4, <2>5, <2>6 DEF TickNext
<1> QED
  BY <1>1, <1>2

(* A step of a ticker that changes no row: the invariant stays if what the   *)
(* tick now carries is true of the rows.                                     *)
LEMMA QuietTick ==
    ASSUME CronInv, CronTyped', NEW t \in Tickers, NEW k, tick'[t] = k,
           TickNext(t) \/ TickFault(t),
           UNCHANGED <<now, crons, jobs, registers, crossed>>, TickTrue(k, crons, jobs, registers, crossed)
    PROVE  CronInv'
<1>1. \A u \in Tickers : TickTrue(tick'[u], crons', jobs', registers', crossed')
  BY OthersStay DEF CronInv
<1>2. \A c \in Crons : CronTrue(c, crons', jobs', registers', crossed', now')
  BY DEF CronInv
<1> QED
  BY <1>1, <1>2 DEF CronInv

(* The next schedule of a tick.                                              *)
LEMMA PassedTrue ==
    ASSUME NEW k \in Ticks, TickShape(k), k.pc \in {"next", "fire"},
           NEW cr, NEW jb, NEW rg, NEW cx,
           \A c \in k.todo : c # Min(k.todo) => (Kept(c, rg, cx) => SameRow(cr[c], k, c))
    PROVE  TickTrue(Passed(k), cr, jb, rg, cx)
<1>1. /\ Passed(k).pc \in {"idle", "next"}
      /\ Passed(k).todo = k.todo \ {Min(k.todo)}
      /\ Passed(k) = Idle \/ Passed(k).rows = k.rows
  BY PassedShape
<1>2. CASE Passed(k) = Idle
  BY <1>2, IdleShape DEF TickTrue
<1>3. CASE Passed(k).rows = k.rows
  <2>1. \A c \in k.todo \ {Min(k.todo)} : Kept(c, rg, cx) => SameRow(cr[c], Passed(k), c)
    BY <1>3 DEF SameRow
  <2> QED
    BY <1>1, <2>1 DEF TickTrue
<1> QED
  BY <1>1, <1>2, <1>3

(* A registration.                                                           *)
LEMMA RegisterStep ==
    ASSUME CronInv, CronTyped', NEW c \in Crons, NEW s \in Schedules, NEW e \in BOOLEAN,
           NEW p \in Policies[c], Register(c, s, p, e)
    PROVE  CronInv'
<1>1. /\ registers' = [registers EXCEPT ![c] = @ + 1]
      /\ \A d \in Crons : d # c => crons'[d] = crons[d] /\ registers'[d] = registers[d]
      /\ registers \in [Crons -> Nat]
      /\ UNCHANGED <<now, jobs, tick, crossed>>
  BY DEF Register, CronInv, CronTyped
<1>2. registers'[c] = registers[c] + 1 /\ registers[c] \in Nat
  BY <1>1
<1>3. ASSUME NEW d \in Crons
      PROVE  CronTrue(d, crons', jobs', registers', crossed', now')
  <2>1. CronTrue(d, crons, jobs, registers, crossed, now)
    BY DEF CronInv
  <2>2. CASE d # c
    BY <1>1, <2>1, <2>2, Untouched
  <2>3. CASE d = c /\ registers[c] = 0
    <3>1. \A i \in Instants : jobs[<<c, i>>] = "absent"
      BY <2>1, <2>3 DEF CronTrue, Marked
    <3> QED
      BY <1>1, <1>2, <2>3, <3>1 DEF CronTrue, Marked, AtMostOne, Followed, Kept
  <2>4. CASE d = c /\ registers[c] # 0
    <3>1. ~(registers'[c] <= 1) /\ registers'[c] # 0
      BY <1>2, <2>4
    <3> QED
      BY <1>1, <2>1, <2>4, <3>1 DEF CronTrue, Marked, AtMostOne, Followed, Kept
  <2> QED
    BY <2>2, <2>3, <2>4
<1>4. ASSUME NEW t \in Tickers
      PROVE  TickTrue(tick'[t], crons', jobs', registers', crossed')
  <2> DEFINE k == tick[t]
  <2>1. k \in Ticks /\ TickShape(k) /\ TickTrue(k, crons, jobs, registers, crossed) /\ tick'[t] = k
    BY <1>1 DEF CronInv, CronTyped
  <2>2. \A d \in k.todo : d \in Crons /\ crons[d] # NoRow
    BY DEF CronInv, CronTyped, TickShape
  <2>3. c \in k.todo => registers[c] # 0
    BY <2>2 DEF CronInv, CronTrue, Marked
  <2>4. \A d \in k.todo : registers'[d] <= 1 => crons'[d] = crons[d] /\ registers'[d] = registers[d]
    BY <1>1, <1>2, <2>2, <2>3
  <2> HIDE DEF k
  <2> QED
    BY <1>1, <2>1, <2>4 DEF TickTrue, Kept
<1> QED
  BY <1>3, <1>4 DEF CronInv

(* An enablement change.                                                     *)
LEMMA SetEnabledStep ==
    ASSUME CronInv, CronTyped', NEW c \in Crons, NEW e \in BOOLEAN, SetEnabled(c, e)
    PROVE  CronInv'
<1>1. /\ \A d \in Crons : d # c => crons'[d] = crons[d]
      /\ crons[c] \in Rows /\ crons[c] # NoRow
      /\ crons'[c] = [crons[c] EXCEPT !.enabled = e]
      /\ UNCHANGED <<now, jobs, tick, registers, crossed>>
  BY DEF SetEnabled, CronInv, CronTyped
<1>2. /\ crons'[c].schedule = crons[c].schedule /\ crons'[c].registered = crons[c].registered
      /\ crons'[c].lastFired = crons[c].lastFired /\ crons'[c] # NoRow
  BY <1>1, ConstantsAssumption DEF Rows
<1>3. /\ Watermark(crons'[c]) = Watermark(crons[c])
      /\ Elapsed(crons'[c], now) = Elapsed(crons[c], now)
  BY <1>2 DEF Watermark, Elapsed
<1>4. ASSUME NEW d \in Crons
      PROVE  CronTrue(d, crons', jobs', registers', crossed', now')
  <2>1. CronTrue(d, crons, jobs, registers, crossed, now)
    BY DEF CronInv
  <2>2. CASE d # c
    BY <1>1, <2>1, <2>2, Untouched
  <2>3. CASE d = c
    BY <1>1, <1>2, <1>3, <2>1, <2>3 DEF CronTrue, Marked, AtMostOne, Followed
  <2> QED
    BY <2>2, <2>3
<1>5. ASSUME NEW t \in Tickers
      PROVE  TickTrue(tick'[t], crons', jobs', registers', crossed')
  <2> DEFINE k == tick[t]
  <2>1. k.todo \subseteq Crons /\ TickTrue(k, crons, jobs, registers, crossed) /\ tick'[t] = k
    BY <1>1 DEF CronInv, CronTyped, TickShape
  <2>2. \A d \in Crons : SameRow(crons[d], k, d) => SameRow(crons'[d], k, d)
    BY <1>1, <1>2 DEF SameRow
  <2> HIDE DEF k
  <2> QED
    BY <1>1, <2>1, <2>2 DEF TickTrue
<1> QED
  BY <1>4, <1>5 DEF CronInv

(* The steps of the tick that change no row.                                 *)
LEMMA QuietSteps ==
    ASSUME CronInv, CronTyped', NEW t \in Tickers,
           \/ TickBegin(t) \/ TickOne(t) \/ TickFault(t)
           \/ \E i \in tick[t].kill : SupersedeRead(t, i)
    PROVE  CronInv'
<1> DEFINE k == tick[t]
<1>0. CronTyped /\ k \in Ticks /\ TickShape(k) /\ TickTrue(k, crons, jobs, registers, crossed)
  BY DEF CronInv, CronTyped
<1>a. TickNext(t) \/ TickFault(t)
  BY DEF TickNext
<1>1. CASE TickBegin(t)
  <2> DEFINE todo == {c \in Crons : crons[c] # NoRow /\ crons[c].enabled}
             n == Began(now, crons, todo)
  <2>1. tick' = [tick EXCEPT ![t] = n] /\ todo # {} /\ UNCHANGED <<now, crons, jobs, registers, crossed>>
    BY <1>1 DEF TickBegin, Began
  <2>2. todo \in SUBSET Crons /\ \A c \in todo : crons[c] # NoRow
    OBVIOUS
  <2> HIDE DEF todo
  <2>3. n.rows = crons /\ n.todo = todo /\ n.pc = "next" /\ tick'[t] = n
    BY <1>0, <2>1, <2>2, BeganShape DEF CronTyped
  <2> HIDE DEF n
  <2>4. TickTrue(n, crons, jobs, registers, crossed)
    BY <2>2, <2>3 DEF TickTrue, SameRow
  <2> QED
    BY <2>1, <2>3, <2>4, QuietTick, <1>a
<1>2. CASE TickOne(t)
  <2> DEFINE c == Min(k.todo)
  <2>1. /\ k.pc = "next" /\ c \in k.todo /\ c \in Crons /\ k.rows[c].policy \in Policies[c]
        /\ \/ tick' = [tick EXCEPT ![t] = Passed(k)]
           \/ \E due \in Elapsed(k.rows[c], k.now), kill \in SUBSET Instants :
                 /\ due \in Instants
                 /\ tick' = [tick EXCEPT ![t] = Firing(k, due, kill)]
                 /\ k.rows[c].policy = "Skip" => Live(c) = {}
                 /\ kill = IF k.rows[c].policy = "CancelPrevious" THEN Live(c) ELSE {}
    BY <1>0, <1>2, TickOneStep
  <2>2. UNCHANGED <<now, crons, jobs, registers, crossed>>
    BY <1>2 DEF TickOne
  <2>3. CASE tick' = [tick EXCEPT ![t] = Passed(k)]
    <3>1. TickTrue(Passed(k), crons, jobs, registers, crossed)
      BY <1>0, <2>1, PassedTrue DEF TickTrue
    <3>2. tick'[t] = Passed(k)
      BY <1>0, <2>3 DEF CronTyped
    <3> QED
      BY <2>2, <3>1, <3>2, QuietTick, <1>a
  <2>4. ASSUME NEW due \in Elapsed(k.rows[c], k.now), NEW kill \in SUBSET Instants,
               due \in Instants, tick' = [tick EXCEPT ![t] = Firing(k, due, kill)],
               k.rows[c].policy = "Skip" => Live(c) = {},
               kill = IF k.rows[c].policy = "CancelPrevious" THEN Live(c) ELSE {}
        PROVE  CronInv'
    <3> DEFINE n == Firing(k, due, kill)
    <3>1. n.todo = k.todo /\ n.rows = k.rows /\ n.kill = kill /\ n.victim = NoFire /\ tick'[t] = n
      <4>1. k \in Ticks /\ TickShape(k)
        BY <1>0 DEF CronTyped
      <4>2. n.todo = k.todo /\ n.rows = k.rows /\ n.kill = kill /\ n.victim = NoFire
        BY <2>1, <2>4, <4>1, FiringShape
      <4>3. tick'[t] = n
        BY <1>0, <2>4 DEF CronTyped
      <4> QED
        BY <4>2, <4>3
    <3>2. "Queue" \notin Policies[c] => k.rows[c].policy \in {"Skip", "CancelPrevious"}
      BY <2>1, ConstantsAssumption DEF OverlapPolicies
    <3>3. "Queue" \notin Policies[c] => \A i \in Live(c) : i \in kill
      BY <2>4, <3>2
    <3>4. \A i \in kill : i \in Live(c)
      BY <2>4
    <3> HIDE DEF n
    <3>5. Retiring(n, c, jobs, crossed)
      BY <3>1, <3>3, <3>4 DEF Retiring, Live
    <3>6. \A d \in k.todo : Kept(d, registers, crossed) => SameRow(crons[d], n, d)
      BY <1>0, <3>1 DEF TickTrue, SameRow
    <3>7. TickTrue(n, crons, jobs, registers, crossed)
      BY <3>1, <3>5, <3>6 DEF TickTrue
    <3> QED
      BY <2>2, <3>1, <3>7, QuietTick, <1>a
  <2> QED
    BY <2>1, <2>3, <2>4
<1>3. CASE TickFault(t)
  <2>1. tick'[t] = Idle /\ UNCHANGED <<now, crons, jobs, registers, crossed>>
    BY <1>0, <1>3 DEF TickFault, CronTyped
  <2>2. TickTrue(Idle, crons, jobs, registers, crossed)
    BY IdleShape DEF TickTrue
  <2> QED
    BY <2>1, <2>2, QuietTick, <1>a
<1>4. ASSUME NEW i \in k.kill, SupersedeRead(t, i)
      PROVE  CronInv'
  <2> DEFINE c == Min(k.todo)
  <2>1. k.pc = "fire" /\ UNCHANGED <<now, crons, jobs, registers, crossed>>
    BY <1>4 DEF SupersedeRead
  <2>2. IF jobs[<<c, i>>] = "queued" THEN tick'[t] = Chosen(k, i) ELSE tick'[t] = Dropped(k, i)
    BY <1>0, <1>4 DEF SupersedeRead, Chosen, Dropped, Current, CronTyped
  <2>3. /\ Chosen(k, i).kill = k.kill \ {i} /\ Chosen(k, i).victim = i
        /\ Chosen(k, i).todo = k.todo /\ Chosen(k, i).rows = k.rows
        /\ Dropped(k, i).kill = k.kill \ {i} /\ Dropped(k, i).victim = k.victim
        /\ Dropped(k, i).todo = k.todo /\ Dropped(k, i).rows = k.rows
    BY <1>0, <1>4, <2>1, ChosenShape
  <2>4. k.victim = NoFire /\ NoFire \notin Instants
    BY <1>0, <2>1, ConstantsAssumption DEF TickShape
  <2>5. Retiring(k, c, jobs, crossed) /\ \A d \in k.todo : Kept(d, registers, crossed) => SameRow(crons[d], k, d)
    BY <1>0, <2>1 DEF TickTrue
  <2>6. CASE jobs[<<c, i>>] = "queued"
    <3> DEFINE n == Chosen(k, i)
    <3>1. n.kill = k.kill \ {i} /\ n.victim = i /\ n.todo = k.todo /\ n.rows = k.rows /\ tick'[t] = n
      BY <2>2, <2>3, <2>6
    <3> HIDE DEF n
    <3>2. Retiring(n, c, jobs, crossed)
      BY <2>4, <2>5, <2>6, <3>1 DEF Retiring
    <3>3. TickTrue(n, crons, jobs, registers, crossed)
      BY <2>5, <3>1, <3>2 DEF TickTrue, SameRow
    <3> QED
      BY <2>1, <3>1, <3>3, QuietTick, <1>a
  <2>7. CASE jobs[<<c, i>>] # "queued"
    <3> DEFINE n == Dropped(k, i)
    <3>1. n.kill = k.kill \ {i} /\ n.victim = k.victim /\ n.todo = k.todo /\ n.rows = k.rows /\ tick'[t] = n
      BY <2>2, <2>3, <2>7
    <3> HIDE DEF n
    <3>2. Retiring(n, c, jobs, crossed)
      BY <2>4, <2>5, <2>7, <3>1 DEF Retiring
    <3>3. TickTrue(n, crons, jobs, registers, crossed)
      BY <2>5, <3>1, <3>2 DEF TickTrue, SameRow
    <3> QED
      BY <2>1, <3>1, <3>3, QuietTick, <1>a
  <2> QED
    BY <2>6, <2>7
<1> QED
  BY <1>1, <1>2, <1>3, <1>4

(* A retirement: the firing that replaces the job is still owed.             *)
LEMMA SupersedeAppendStep ==
    ASSUME CronInv, CronTyped', NEW t \in Tickers, SupersedeAppend(t)
    PROVE  CronInv'
<1> DEFINE k == tick[t]
           c == Min(k.todo)
           v == k.victim
<1>0. /\ CronTyped /\ k \in Ticks /\ TickShape(k) /\ TickTrue(k, crons, jobs, registers, crossed)
      /\ k.pc = "kill" /\ k.now <= now
  BY DEF CronInv, CronTyped, SupersedeAppend
<1>1. c \in k.todo /\ c \in Crons /\ k.rows[c] \in Rows
  BY <1>0, CurrentRow
<1>2. v \in Instants /\ v # NoFire
  BY <1>0 DEF Ticks, TickShape
<1>3. UNCHANGED <<now, crons, registers, crossed>> /\ jobs \in [JobIds -> JobStates]
  BY <1>0 DEF SupersedeAppend, CronTyped
<1>4. /\ jobs'[<<c, v>>] = "superseded"
      /\ \A d \in Crons, i \in Instants : <<d, i>> # <<c, v>> => jobs'[<<d, i>>] = jobs[<<d, i>>]
  <2>1. jobs' = [jobs EXCEPT ![<<c, v>>] = "superseded"]
    BY DEF SupersedeAppend, Current
  <2>2. \A d \in Crons, i \in Instants : <<d, i>> \in JobIds
    BY DEF JobIds
  <2> QED
    BY <1>1, <1>2, <1>3, <2>1, <2>2
<1>5. Retiring(k, c, jobs, crossed) /\ \A d \in k.todo : Kept(d, registers, crossed) => SameRow(crons[d], k, d)
  BY <1>0 DEF TickTrue
<1>6. jobs[<<c, v>>] # "absent"
  BY <1>2, <1>5 DEF Retiring
<1>7. ASSUME NEW d \in Crons
      PROVE  CronTrue(d, crons', jobs', registers', crossed', now')
  <2>1. CronTrue(d, crons, jobs, registers, crossed, now)
    BY DEF CronInv
  <2>2. CASE d # c
    BY <1>3, <1>4, <2>1, <2>2, Untouched
  <2>3. CASE d = c
    <3>1. \A i \in Instants : jobs'[<<c, i>>] # "absent" <=> jobs[<<c, i>>] # "absent"
      BY <1>1, <1>4, <1>6
    <3>2. Marked(c, crons', jobs', registers', crossed')
      BY <1>3, <2>1, <2>3, <3>1 DEF CronTrue, Marked
    <3>3. \A i \in Instants : jobs'[<<c, i>>] = "queued" => jobs[<<c, i>>] = "queued"
      BY <1>1, <1>4
    <3>4. AtMostOne(c, jobs', crossed')
      BY <1>3, <2>1, <2>3, <3>3 DEF CronTrue, AtMostOne
    <3>5. ASSUME Kept(c, registers, crossed)
          PROVE  \E f \in Elapsed(crons[c], now) : f > v
      <4>1. SameRow(crons[c], k, c) /\ k.now \in Instants /\ now \in Instants
        BY <1>0, <1>1, <1>5, <3>5 DEF Ticks, CronTyped
      <4>2. k.due \in Elapsed(k.rows[c], k.now)
        BY <1>0 DEF TickShape
      <4>3. k.due \in Elapsed(crons[c], now) /\ Watermark(crons[c]) < k.due
        BY <1>0, <1>1, <4>1, <4>2, SameRowOwes
      <4>4. v <= Watermark(crons[c]) /\ crons[c] # NoRow
        BY <1>2, <1>6, <2>1, <2>3, <3>5 DEF CronTrue, Marked
      <4>5. Watermark(crons[c]) \in Instants
        BY <1>0, <1>1, <4>4, WatermarkType DEF CronTyped
      <4>6. k.due \in Instants
        BY <1>0 DEF Ticks, TickShape
      <4>7. k.due > v
        BY <1>2, <4>3, <4>4, <4>5, <4>6 DEF Instants
      <4> QED
        BY <4>3, <4>7
    <3>6. Followed(c, crons', jobs', registers', crossed', now')
      <4> SUFFICES ASSUME Kept(c, registers, crossed), NEW i \in Instants, jobs'[<<c, i>>] = "superseded"
                   PROVE  \/ \E m \in Instants : m > i /\ jobs'[<<c, m>>] # "absent"
                          \/ \E f \in Elapsed(crons[c], now) : f > i
        BY <1>3 DEF Followed
      <4>1. CASE i = v
        BY <3>5, <4>1
      <4>2. CASE i # v
        <5>1. jobs[<<c, i>>] = "superseded"
          BY <1>1, <1>4, <4>2
        <5> QED
          BY <2>1, <2>3, <3>1, <5>1 DEF CronTrue, Followed
      <4> QED
        BY <4>1, <4>2
    <3> QED
      BY <2>3, <3>2, <3>4, <3>6 DEF CronTrue
  <2> QED
    BY <2>2, <2>3
<1>8. TickTrue(tick'[t], crons', jobs', registers', crossed')
  <2> DEFINE n == Retired(k)
  <2>1. tick'[t] = n
    BY <1>0, TickSteps DEF CronTyped
  <2>2. n.kill = k.kill /\ n.victim = NoFire /\ n.todo = k.todo /\ n.rows = k.rows
    BY <1>0, RetiredShape
  <2> HIDE DEF n
  <2>3. \A i \in Instants : jobs'[<<c, i>>] = "queued" => jobs[<<c, i>>] = "queued" /\ i # v
    BY <1>1, <1>4
  <2>4. \A i \in Instants : jobs[<<c, i>>] # "absent" => jobs'[<<c, i>>] # "absent"
    BY <1>1, <1>4
  <2>5. k.kill \subseteq Instants
    BY <1>0 DEF Ticks
  <2>6. Retiring(n, c, jobs', crossed')
    BY <1>3, <1>5, <2>2, <2>3, <2>4, <2>5 DEF Retiring
  <2> QED
    BY <1>3, <1>5, <2>1, <2>2, <2>6 DEF TickTrue, SameRow
<1>9. ASSUME NEW u \in Tickers, u # t
      PROVE  TickTrue(tick'[u], crons', jobs', registers', crossed')
  <2>1. tick[u] \in Ticks /\ TickShape(tick[u]) /\ TickTrue(tick[u], crons, jobs, registers, crossed)
    BY DEF CronInv, CronTyped
  <2>2. tick'[u] = tick[u]
    BY <1>0, <1>9, OthersStay DEF TickNext
  <2>3. /\ \A d \in Crons, i \in Instants : jobs[<<d, i>>] # "absent" => jobs'[<<d, i>>] # "absent"
        /\ \A d \in Crons, i \in Instants : jobs'[<<d, i>>] = "queued" => jobs[<<d, i>>] = "queued"
    BY <1>4
  <2> QED
    BY <1>3, <2>1, <2>2, <2>3, TickStays
<1> QED
  BY <1>7, <1>8, <1>9 DEF CronInv

(* An enqueue: nothing of the schedule is left in the queue, and the firing  *)
(* lies past every instant that has a job.                                   *)
LEMMA EnqueueStep ==
    ASSUME CronInv, CronTyped', NEW t \in Tickers, Enqueue(t)
    PROVE  CronInv'
<1> DEFINE k == tick[t]
           c == Min(k.todo)
           due == k.due
<1>0. /\ CronTyped /\ k \in Ticks /\ TickShape(k) /\ TickTrue(k, crons, jobs, registers, crossed)
      /\ k.pc = "fire" /\ k.now <= now /\ k.kill = {} /\ k.victim = NoFire
  BY DEF CronInv, CronTyped, Enqueue, TickShape
<1>1. c \in k.todo /\ c \in Crons /\ k.rows[c] \in Rows /\ due \in Instants
  BY <1>0, CurrentRow DEF Ticks, TickShape
<1>2. UNCHANGED <<now, registers>> /\ tick'[t] = Passed(k)
  BY <1>0, TickSteps DEF Enqueue, CronTyped
<1>3. Retiring(k, c, jobs, crossed) /\ \A d \in k.todo : Kept(d, registers, crossed) => SameRow(crons[d], k, d)
  BY <1>0 DEF TickTrue
<1>4. CASE UNCHANGED <<jobs, crons, crossed>>
  <2>1. TickTrue(Passed(k), crons, jobs, registers, crossed)
    BY <1>0, <1>3, PassedTrue
  <2> QED
    BY <1>2, <1>4, <2>1, QuietTick DEF TickNext
<1>5. CASE ~UNCHANGED <<jobs, crons, crossed>>
  <2>1. /\ jobs' = [jobs EXCEPT ![<<c, due>>] = "queued"]
        /\ crons' = [crons EXCEPT ![c].lastFired = due]
        /\ jobs[<<c, due>>] = "absent"
        /\ Crosses(t, c)
    BY <1>5 DEF Enqueue, Current
  <2>2. crons[c] \in Rows /\ crons[c] # NoRow
    BY <1>0, <1>1, ConstantsAssumption DEF CronTyped
  <2>3. /\ jobs'[<<c, due>>] = "queued"
        /\ \A d \in Crons, i \in Instants : <<d, i>> # <<c, due>> => jobs'[<<d, i>>] = jobs[<<d, i>>]
    <3>1. \A d \in Crons, i \in Instants : <<d, i>> \in JobIds
      BY DEF JobIds
    <3> QED
      BY <1>0, <1>1, <2>1, <3>1 DEF CronTyped
  <2>4. /\ \A d \in Crons : d # c => crons'[d] = crons[d]
        /\ crons'[c] # NoRow /\ Watermark(crons'[c]) = due
    <3>1. crons'[c] = [crons[c] EXCEPT !.lastFired = due] /\ \A d \in Crons : d # c => crons'[d] = crons[d]
      BY <1>0, <1>1, <2>1 DEF CronTyped
    <3>2. crons'[c].lastFired = due /\ crons'[c] \in Rows
      BY <1>1, <2>2, <3>1 DEF Rows
    <3> QED
      BY <1>1, <3>1, <3>2, ConstantsAssumption DEF Watermark
  <2>a. crossed \subseteq crossed' /\ \A u \in Tickers : u # t /\ c \in tick[u].todo => c \in crossed'
    BY <2>1 DEF Crosses
  <2>5. "Queue" \notin Policies[c] /\ c \notin crossed => \A i \in Instants : jobs[<<c, i>>] # "queued"
    BY <1>0, <1>3, ConstantsAssumption DEF Retiring
  <2>6. ASSUME Kept(c, registers, crossed), NEW i \in Instants, jobs[<<c, i>>] # "absent"
        PROVE  i < due
    <3>1. SameRow(crons[c], k, c) /\ k.now \in Instants /\ now \in Instants
      BY <1>0, <1>1, <1>3, <2>6 DEF Ticks, CronTyped
    <3>2. due \in Elapsed(k.rows[c], k.now)
      BY <1>0 DEF TickShape
    <3>3. Watermark(crons[c]) < due
      BY <1>0, <3>1, <3>2, SameRowOwes
    <3>4. i <= Watermark(crons[c])
      BY <1>1, <2>6 DEF CronInv, CronTrue, Marked
    <3>5. Watermark(crons[c]) \in Instants
      BY <2>2, WatermarkType
    <3> QED
      BY <1>1, <3>3, <3>4, <3>5 DEF Instants
  <2>7. ASSUME NEW d \in Crons
        PROVE  CronTrue(d, crons', jobs', registers', crossed', now')
    <3>1. CronTrue(d, crons, jobs, registers, crossed, now)
      BY DEF CronInv
    <3>2. CASE d # c
      BY <1>2, <2>3, <2>4, <2>a, <3>1, <3>2, Untouched
    <3>3. CASE d = c
      <4>1. Marked(c, crons', jobs', registers', crossed')
        <5>1. registers[c] = 0 => crons[c] = NoRow
          BY <3>1, <3>3 DEF CronTrue, Marked
        <5>2. Kept(c, registers, crossed) => \A i \in Instants : jobs'[<<c, i>>] # "absent" => i <= due
          BY <1>1, <2>3, <2>6 DEF Instants
        <5> QED
          BY <1>2, <2>2, <2>4, <2>a, <5>1, <5>2 DEF Marked, Kept
      <4>2. AtMostOne(c, jobs', crossed')
        <5>1. "Queue" \notin Policies[c] /\ c \notin crossed => \A i \in Instants : jobs'[<<c, i>>] = "queued" => i = due
          BY <1>1, <2>3, <2>5
        <5> QED
          BY <2>a, <5>1 DEF AtMostOne
      <4>3. Followed(c, crons', jobs', registers', crossed', now')
        <5>1. ASSUME Kept(c, registers, crossed), NEW i \in Instants, jobs'[<<c, i>>] = "superseded"
              PROVE  \E m \in Instants : m > i /\ jobs'[<<c, m>>] # "absent"
          <6>1. jobs[<<c, i>>] # "absent"
            BY <1>1, <2>3, <5>1
          <6>2. i < due
            BY <2>6, <5>1, <6>1
          <6> QED
            BY <1>1, <2>3, <6>2 DEF Instants
        <5> QED
          BY <1>2, <2>a, <5>1 DEF Followed, Kept
      <4> QED
        BY <3>3, <4>1, <4>2, <4>3 DEF CronTrue
    <3> QED
      BY <3>2, <3>3
  <2>8. TickTrue(tick'[t], crons', jobs', registers', crossed')
    <3>1. \A d \in k.todo : d # c => crons'[d] = crons[d]
      BY <1>0, <2>4 DEF TickShape
    <3>2. \A d \in k.todo : d # Min(k.todo) => (Kept(d, registers', crossed') => SameRow(crons'[d], k, d))
      BY <1>2, <1>3, <2>a, <3>1 DEF Kept
    <3>3. TickTrue(Passed(k), crons', jobs', registers', crossed')
      BY <1>0, <3>2, PassedTrue
    <3> QED
      BY <1>2, <3>3
  <2>9. ASSUME NEW u \in Tickers, u # t
        PROVE  TickTrue(tick'[u], crons', jobs', registers', crossed')
    <3> DEFINE n == tick[u]
    <3>1. n \in Ticks /\ TickShape(n) /\ TickTrue(n, crons, jobs, registers, crossed) /\ n.todo \subseteq Crons
      BY DEF CronInv, CronTyped, TickShape
    <3>2. tick'[u] = n
      BY <1>0, <2>9, OthersStay DEF TickNext
    <3>3. c \in n.todo => c \in crossed'
      BY <2>9, <2>a
    <3> HIDE DEF n
    <3>4. \A d \in n.todo : Kept(d, registers', crossed') => SameRow(crons'[d], n, d)
      BY <1>2, <2>4, <2>a, <3>1, <3>3 DEF TickTrue, Kept
    <3>5. ASSUME n.pc \in {"fire", "kill"} PROVE Retiring(n, Min(n.todo), jobs', crossed')
      <4>1. /\ Min(n.todo) \in n.todo /\ Min(n.todo) \in Crons
            /\ n.kill \subseteq Instants /\ n.victim \in Instants \cup {NoFire}
        BY <3>1, <3>5, CurrentRow DEF Ticks
      <4>2. Retiring(n, Min(n.todo), jobs, crossed)
        BY <3>1, <3>5 DEF TickTrue
      <4>3. \A d \in Crons, i \in Instants : jobs[<<d, i>>] # "absent" => jobs'[<<d, i>>] # "absent"
        BY <2>3
      <4>4. Min(n.todo) # c => \A i \in Instants : jobs'[<<Min(n.todo), i>>] = jobs[<<Min(n.todo), i>>]
        BY <2>3, <4>1
      <4> QED
        BY <2>a, <3>3, <4>1, <4>2, <4>3, <4>4 DEF Retiring
    <3> QED
      BY <3>2, <3>4, <3>5 DEF TickTrue
  <2> QED
    BY <2>7, <2>8, <2>9 DEF CronInv
<1> QED
  BY <1>4, <1>5

(* A worker's outcome and the clock.                                         *)
LEMMA OutsideStep ==
    ASSUME CronInv, CronTyped', (\E j \in JobIds : FinishJob(j)) \/ Advance
    PROVE  CronInv'
<1>0. CronTyped
  BY DEF CronInv
<1>1. ASSUME NEW j \in JobIds, FinishJob(j)
      PROVE  CronInv'
  <2>1. UNCHANGED <<now, crons, tick, registers, crossed>>
    BY <1>1 DEF FinishJob
  <2>2. \A x \in JobIds : /\ jobs'[x] # "absent" <=> jobs[x] # "absent"
                          /\ jobs'[x] = "queued" => jobs[x] = "queued"
                          /\ jobs'[x] = "superseded" => jobs[x] = "superseded"
    BY <1>0, <1>1 DEF FinishJob, CronTyped
  <2>3. \A c \in Crons, i \in Instants : /\ jobs'[<<c, i>>] # "absent" <=> jobs[<<c, i>>] # "absent"
                                         /\ jobs'[<<c, i>>] = "queued" => jobs[<<c, i>>] = "queued"
                                         /\ jobs'[<<c, i>>] = "superseded" => jobs[<<c, i>>] = "superseded"
    BY <2>2 DEF JobIds
  <2>4. ASSUME NEW c \in Crons
        PROVE  CronTrue(c, crons', jobs', registers', crossed', now')
    <3>1. CronTrue(c, crons, jobs, registers, crossed, now)
      BY DEF CronInv
    <3> QED
      BY <2>1, <2>3, <3>1, JobGoesOn
  <2>5. ASSUME NEW t \in Tickers
        PROVE  TickTrue(tick'[t], crons', jobs', registers', crossed')
    <3>1. tick[t] \in Ticks /\ TickShape(tick[t]) /\ TickTrue(tick[t], crons, jobs, registers, crossed)
      BY <1>0 DEF CronInv, CronTyped
    <3> QED
      BY <2>1, <2>3, <3>1, TickStays
  <2> QED
    BY <2>4, <2>5 DEF CronInv
<1>2. ASSUME Advance
      PROVE  CronInv'
  <2>1. UNCHANGED <<crons, jobs, tick, registers, crossed>> /\ now \in Instants /\ now' \in Instants /\ now <= now'
    BY <1>0, <1>2 DEF Advance, CronTyped, Instants
  <2>2. ASSUME NEW c \in Crons
        PROVE  CronTrue(c, crons', jobs', registers', crossed', now')
    <3>1. CronTrue(c, crons, jobs, registers, crossed, now)
      BY DEF CronInv
    <3>2. crons[c] \in Rows => Elapsed(crons[c], now) \subseteq Elapsed(crons[c], now')
      BY <2>1, ElapsedGrows
    <3>3. \A i \in Instants : Kept(c, registers, crossed) /\ jobs[<<c, i>>] # "absent" => crons[c] \in Rows
      BY <1>0, <3>1 DEF CronTrue, Marked, CronTyped
    <3>4. Followed(c, crons, jobs, registers, crossed, now')
      BY <3>1, <3>2, <3>3 DEF CronTrue, Followed
    <3> QED
      BY <2>1, <3>1, <3>4 DEF CronTrue
  <2>3. ASSUME NEW t \in Tickers
        PROVE  TickTrue(tick'[t], crons', jobs', registers', crossed')
    BY <2>1 DEF CronInv
  <2> QED
    BY <2>2, <2>3 DEF CronInv
<1> QED
  BY <1>1, <1>2

-----------------------------------------------------------------------------
(* The rows and what the ticks carry.                                        *)

(* However many processes tick, what a tick carries is true of the rows from *)
(* its reads to its appends for every schedule that no other tick fired      *)
(* meanwhile, and such a schedule, registered once, never fires an instant   *)
(* at or before its watermark.                                               *)
THEOREM TicksTrue == Spec => []CronInv
<1>1. Init => CronInv
  <2> SUFFICES ASSUME Init PROVE CronInv
    OBVIOUS
  <2>1. \A c \in Crons, i \in Instants : jobs[<<c, i>>] = "absent"
    BY DEF Init, JobIds
  <2>2. \A c \in Crons : CronTrue(c, crons, jobs, registers, crossed, now)
    BY <2>1 DEF Init, CronTrue, Marked, AtMostOne, Followed
  <2>3. \A t \in Tickers : TickTrue(tick[t], crons, jobs, registers, crossed)
    BY IdleShape DEF Init, TickTrue
  <2> QED
    BY <2>2, <2>3, TypedInit DEF CronInv
<1>2. CronInv /\ [Next]_vars => CronInv'
  <2> SUFFICES ASSUME CronInv, [Next]_vars PROVE CronInv'
    OBVIOUS
  <2>0. CronTyped'
    BY TypedStep DEF CronInv
  <2>1. ASSUME NEW c \in Crons, NEW s \in Schedules, NEW e \in BOOLEAN, NEW p \in Policies[c], Register(c, s, p, e)
        PROVE  CronInv'
    BY <2>0, <2>1, RegisterStep
  <2>2. ASSUME NEW c \in Crons, NEW e \in BOOLEAN, SetEnabled(c, e)
        PROVE  CronInv'
    BY <2>0, <2>2, SetEnabledStep
  <2>3. ASSUME NEW t \in Tickers, TickNext(t) \/ TickFault(t)
        PROVE  CronInv'
    BY <2>0, <2>3, QuietSteps, SupersedeAppendStep, EnqueueStep DEF TickNext
  <2>4. CASE (\E j \in JobIds : FinishJob(j)) \/ Advance
    BY <2>0, <2>4, OutsideStep
  <2>5. CASE UNCHANGED vars
    BY <2>0, <2>5 DEF vars, CronInv
  <2> QED
    BY <2>1, <2>2, <2>3, <2>4, <2>5 DEF Next
<1> QED
  BY <1>1, <1>2, PTL DEF Spec

-----------------------------------------------------------------------------
(* How many jobs the ticks of several processes leave in the queue.          *)

(* The tickers that are about to fire schedule c, and did not see any of the *)
(* jobs in S when they read the queue.                                       *)
Firers(c) == {u \in Tickers : tick[u].pc \in {"fire", "kill"} /\ Min(tick[u].todo) = c}
Unseen(S, c) == {u \in Firers(c) : \A i \in S : i \notin tick[u].kill /\ i # tick[u].victim}

(* Each of them may yet add one to those jobs.                               *)
CountTrue(c) ==
    \A S \in SUBSET Live(c) : Cardinality(S) + Cardinality(Unseen(S, c)) <= Cardinality(Tickers)

Counted == \A c \in Crons : "Queue" \notin Policies[c] => CountTrue(c)

LEMMA UnseenFinite ==
    ASSUME NEW S, NEW c
    PROVE  /\ IsFiniteSet(Unseen(S, c)) /\ Cardinality(Unseen(S, c)) \in Nat
           /\ Cardinality(Unseen(S, c)) <= Cardinality(Tickers) /\ Cardinality(Tickers) \in Nat
<1>1. Unseen(S, c) \subseteq Tickers /\ IsFiniteSet(Tickers)
  BY ConstantsAssumption DEF Unseen, Firers
<1> HIDE DEF Unseen
<1> QED
  BY <1>1, FS_Subset, FS_CardinalityType

LEMMA LiveFinite ==
    ASSUME NEW c, NEW S \in SUBSET Live(c)
    PROVE  IsFiniteSet(S) /\ Cardinality(S) \in Nat
<1>0. 0 \in Int /\ MaxTime \in Int
  BY ConstantsAssumption
<1>1. S \subseteq Instants /\ IsFiniteSet(Instants)
  <2>1. IsFiniteSet(0..MaxTime)
    BY <1>0, FS_Interval
  <2> QED
    BY <2>1 DEF Live, Instants
<1> QED
  BY <1>1, FS_Subset, FS_CardinalityType

(* A step after which the queue holds no new job of the schedule, and nobody *)
(* is about to fire it who was not before.                                   *)
LEMMA CountStays ==
    ASSUME NEW c, CountTrue(c), Live(c)' \subseteq Live(c),
           \A S \in SUBSET Live(c)' : Unseen(S, c)' \subseteq Unseen(S, c)
    PROVE  CountTrue(c)'
<1> SUFFICES ASSUME NEW S \in SUBSET Live(c)'
             PROVE  Cardinality(S) + Cardinality(Unseen(S, c)') <= Cardinality(Tickers)
  BY DEF CountTrue
<1>1. S \in SUBSET Live(c)
  OBVIOUS
<1>2. Cardinality(S) \in Nat
  BY <1>1, LiveFinite
<1>3. IsFiniteSet(Unseen(S, c)) /\ Cardinality(Unseen(S, c)) \in Nat /\ Cardinality(Tickers) \in Nat
  BY UnseenFinite
<1>4. Cardinality(Unseen(S, c)') \in Nat /\ Cardinality(Unseen(S, c)') <= Cardinality(Unseen(S, c))
  BY <1>3, FS_Subset, FS_CardinalityType
<1>5. Cardinality(S) + Cardinality(Unseen(S, c)) <= Cardinality(Tickers)
  BY <1>1 DEF CountTrue
<1> QED
  BY <1>2, <1>3, <1>4, <1>5

(* The steps of a tick, as far as firing is concerned: the tick does not     *)
(* come to fire a schedule without having seen its jobs.                     *)
LEMMA TickOneCounts ==
    ASSUME CronTyped, CronTyped', NEW t \in Tickers, TickOne(t), NEW c \in Crons, "Queue" \notin Policies[c], CountTrue(c)
    PROVE  CountTrue(c)'
<1> DEFINE k == tick[t]
<1>1. /\ k.pc = "next" /\ k \in Ticks /\ TickShape(k)
      /\ k.rows[Min(k.todo)].policy \in Policies[Min(k.todo)]
      /\ \/ tick' = [tick EXCEPT ![t] = Passed(k)]
         \/ \E due \in Elapsed(k.rows[Min(k.todo)], k.now), kill \in SUBSET Instants :
               /\ due \in Instants
               /\ tick' = [tick EXCEPT ![t] = Firing(k, due, kill)]
               /\ k.rows[Min(k.todo)].policy = "Skip" => Live(Min(k.todo)) = {}
               /\ kill = IF k.rows[Min(k.todo)].policy = "CancelPrevious" THEN Live(Min(k.todo)) ELSE {}
  BY TickOneStep
<1>2. Live(c)' = Live(c) /\ tick \in [Tickers -> Ticks]
  BY DEF TickOne, Live, CronTyped
<1>3. \A u \in Tickers : u # t => tick'[u] = tick[u]
  BY OthersStay DEF TickNext
<1>4. CASE tick' = [tick EXCEPT ![t] = Passed(k)]
  <2>1. tick'[t].pc \in {"idle", "next"}
    BY <1>1, <1>2, <1>4, PassedShape
  <2>2. \A S \in SUBSET Live(c)' : Unseen(S, c)' \subseteq Unseen(S, c)
    BY <1>3, <2>1 DEF Unseen, Firers
  <2> QED
    BY <1>2, <2>2, CountStays
<1>5. ASSUME NEW due \in Elapsed(k.rows[Min(k.todo)], k.now), NEW kill \in SUBSET Instants,
             due \in Instants, tick' = [tick EXCEPT ![t] = Firing(k, due, kill)],
             k.rows[Min(k.todo)].policy = "Skip" => Live(Min(k.todo)) = {},
             kill = IF k.rows[Min(k.todo)].policy = "CancelPrevious" THEN Live(Min(k.todo)) ELSE {}
      PROVE  CountTrue(c)'
  <2>1. tick'[t] = Firing(k, due, kill)
    BY <1>2, <1>5
  <2>2. tick'[t].todo = k.todo /\ tick'[t].kill = kill
    BY <1>1, <1>5, <2>1, FiringShape
  <2>3. CASE Min(k.todo) # c
    <3>1. \A S \in SUBSET Live(c)' : Unseen(S, c)' \subseteq Unseen(S, c)
      BY <1>3, <2>2, <2>3 DEF Unseen, Firers
    <3> QED
      BY <1>2, <3>1, CountStays
  <2>4. CASE Min(k.todo) = c
    <3>1. k.rows[c].policy \in {"Skip", "CancelPrevious"}
      BY <1>1, <2>4, ConstantsAssumption DEF OverlapPolicies
    <3>2. Live(c) \subseteq kill
      BY <1>5, <2>4, <3>1
    <3> SUFFICES ASSUME NEW S \in SUBSET Live(c)
                 PROVE  Cardinality(S) + Cardinality(Unseen(S, c)') <= Cardinality(Tickers)
      BY <1>2 DEF CountTrue
    <3>3. CASE S = {}
      <4>1. Cardinality(S) = 0
        BY <3>3, FS_EmptySet
      <4>2. Unseen(S, c)' \subseteq Tickers /\ IsFiniteSet(Tickers)
        BY ConstantsAssumption DEF Unseen, Firers
      <4>3. Cardinality(Unseen(S, c)') <= Cardinality(Tickers) /\ Cardinality(Unseen(S, c)') \in Nat
        BY <4>2, FS_Subset, FS_CardinalityType
      <4> QED
        BY <4>1, <4>3
    <3>4. CASE S # {}
      <4>1. t \notin Unseen(S, c)'
        BY <2>2, <3>2, <3>4 DEF Unseen
      <4>2. Unseen(S, c)' \subseteq Unseen(S, c)
        BY <1>3, <4>1 DEF Unseen, Firers
      <4>3. Cardinality(S) \in Nat
        BY LiveFinite
      <4>4. IsFiniteSet(Unseen(S, c)) /\ Cardinality(Unseen(S, c)) \in Nat /\ Cardinality(Tickers) \in Nat
        BY UnseenFinite
      <4>5. Cardinality(Unseen(S, c)') \in Nat /\ Cardinality(Unseen(S, c)') <= Cardinality(Unseen(S, c))
        BY <4>2, <4>4, FS_Subset, FS_CardinalityType
      <4>6. Cardinality(S) + Cardinality(Unseen(S, c)) <= Cardinality(Tickers)
        BY DEF CountTrue
      <4> QED
        BY <4>3, <4>4, <4>5, <4>6
    <3> QED
      BY <3>3, <3>4
  <2> QED
    BY <2>3, <2>4
<1> QED
  BY <1>1, <1>4, <1>5

(* The jobs a tick is through with are no longer in the queue.               *)
LEMMA SupersedeCounts ==
    ASSUME CronTyped, NEW t \in Tickers, NEW c \in Crons, CountTrue(c),
           SupersedeAppend(t) \/ \E i \in tick[t].kill : SupersedeRead(t, i)
    PROVE  CountTrue(c)'
<1> DEFINE k == tick[t]
<1>0. k \in Ticks /\ TickShape(k) /\ tick \in [Tickers -> Ticks] /\ jobs \in [JobIds -> JobStates]
  BY DEF CronTyped
<1>1. \A u \in Tickers : u # t => tick'[u] = tick[u]
  BY OthersStay DEF TickNext
<1>2. CASE SupersedeAppend(t)
  <2>1. k.pc = "kill" /\ tick'[t] = Retired(k) /\ jobs' = [jobs EXCEPT ![<<Min(k.todo), k.victim>>] = "superseded"]
    BY <1>0, <1>2, TickSteps DEF SupersedeAppend, Current
  <2>2. tick'[t].kill = k.kill /\ tick'[t].todo = k.todo
    BY <1>0, <2>1, RetiredShape
  <2>3. Min(k.todo) \in Crons /\ k.victim \in Instants
    BY <1>0, <2>1, CurrentRow DEF Ticks, TickShape
  <2>4. \A i \in Instants : <<c, i>> \in JobIds
    BY DEF JobIds
  <2>5. Live(c)' \subseteq Live(c) /\ (Min(k.todo) = c => k.victim \notin Live(c)')
    BY <1>0, <2>1, <2>3, <2>4 DEF Live
  <2>6. \A S \in SUBSET Live(c)' : Unseen(S, c)' \subseteq Unseen(S, c)
    BY <1>1, <2>1, <2>2, <2>5 DEF Unseen, Firers
  <2> QED
    BY <2>5, <2>6, CountStays
<1>3. ASSUME NEW i \in k.kill, SupersedeRead(t, i)
      PROVE  CountTrue(c)'
  <2>1. k.pc = "fire" /\ Live(c)' = Live(c)
    BY <1>3 DEF SupersedeRead, Live
  <2>2. IF jobs[<<Min(k.todo), i>>] = "queued" THEN tick'[t] = Chosen(k, i) ELSE tick'[t] = Dropped(k, i)
    BY <1>0, <1>3 DEF SupersedeRead, Chosen, Dropped, Current
  <2>3. /\ Chosen(k, i).kill = k.kill \ {i} /\ Chosen(k, i).victim = i /\ Chosen(k, i).todo = k.todo
        /\ Dropped(k, i).kill = k.kill \ {i} /\ Dropped(k, i).victim = k.victim /\ Dropped(k, i).todo = k.todo
    BY <1>0, <1>3, <2>1, ChosenShape
  <2>4. tick'[t].todo = k.todo /\ tick'[t].kill = k.kill \ {i}
    BY <2>2, <2>3
  <2>5. tick'[t].victim = i \/ jobs[<<Min(k.todo), i>>] # "queued"
    BY <2>2, <2>3
  <2>6. k.victim = NoFire /\ NoFire \notin Live(c)
    BY <1>0, <2>1, ConstantsAssumption DEF TickShape, Live
  <2>7. ASSUME NEW S \in SUBSET Live(c), t \in Unseen(S, c)' PROVE t \in Unseen(S, c)
    <3>1. Min(k.todo) = c /\ \A m \in S : m \notin k.kill \ {i} /\ m # tick'[t].victim
      BY <2>4, <2>7 DEF Unseen, Firers
    <3>2. i \notin S
      BY <2>5, <3>1 DEF Live
    <3> QED
      BY <2>1, <2>6, <3>1, <3>2 DEF Unseen, Firers
  <2>8. \A S \in SUBSET Live(c)' : Unseen(S, c)' \subseteq Unseen(S, c)
    BY <1>1, <2>1, <2>7 DEF Unseen, Firers
  <2> QED
    BY <2>1, <2>8, CountStays
<1> QED
  BY <1>2, <1>3

(* A ticker that enqueues one more is no longer about to.                    *)
LEMMA EnqueueCounts ==
    ASSUME CronTyped, NEW t \in Tickers, Enqueue(t), NEW c \in Crons, CountTrue(c)
    PROVE  CountTrue(c)'
<1> DEFINE k == tick[t]
           due == k.due
<1>0. k \in Ticks /\ TickShape(k) /\ tick \in [Tickers -> Ticks] /\ jobs \in [JobIds -> JobStates]
      /\ k.pc = "fire" /\ k.kill = {} /\ k.victim = NoFire
  BY DEF CronTyped, Enqueue, TickShape
<1>1. \A u \in Tickers : u # t => tick'[u] = tick[u]
  BY OthersStay DEF TickNext
<1>2. tick'[t].pc \in {"idle", "next"}
  <2>1. tick'[t] = Passed(k)
    BY <1>0, TickSteps DEF Enqueue
  <2> QED
    BY <1>0, <2>1, PassedShape
<1>3. Min(k.todo) \in Crons /\ due \in Instants
  BY <1>0, CurrentRow DEF Ticks, TickShape
<1>4. \A S : Unseen(S, c)' \subseteq Unseen(S, c) \ {t}
  BY <1>1, <1>2 DEF Unseen, Firers
<1>5. CASE Live(c)' \subseteq Live(c)
  BY <1>4, <1>5, CountStays
<1>6. CASE ~(Live(c)' \subseteq Live(c))
  <2>1. Min(k.todo) = c /\ Live(c)' = Live(c) \cup {due} /\ due \notin Live(c)
    <3>1. jobs' = jobs \/ (jobs[<<Min(k.todo), due>>] = "absent" /\ jobs' = [jobs EXCEPT ![<<Min(k.todo), due>>] = "queued"])
      BY DEF Enqueue, Current
    <3>2. \A i \in Instants : <<c, i>> \in JobIds
      BY DEF JobIds
    <3>3. jobs' # jobs
      BY <1>6 DEF Live
    <3>4. jobs[<<Min(k.todo), due>>] = "absent" /\ jobs' = [jobs EXCEPT ![<<Min(k.todo), due>>] = "queued"]
      BY <3>1, <3>3
    <3>5. Min(k.todo) # c => \A i \in Instants : jobs'[<<c, i>>] = jobs[<<c, i>>]
      BY <1>0, <3>2, <3>4
    <3>6. Min(k.todo) = c
      BY <1>6, <3>5 DEF Live
    <3>7. jobs'[<<c, due>>] = "queued" /\ \A i \in Instants : i # due => jobs'[<<c, i>>] = jobs[<<c, i>>]
      BY <1>0, <1>3, <3>2, <3>4, <3>6
    <3> QED
      BY <1>3, <3>4, <3>6, <3>7 DEF Live
  <2> SUFFICES ASSUME NEW S \in SUBSET Live(c)'
               PROVE  Cardinality(S) + Cardinality(Unseen(S, c)') <= Cardinality(Tickers)
    BY DEF CountTrue
  <2> DEFINE R == S \ {due}
  <2>2. R \in SUBSET Live(c) /\ NoFire \notin R
    BY <2>1, ConstantsAssumption DEF Live
  <2>3. t \in Unseen(R, c)
    BY <1>0, <2>1, <2>2 DEF Unseen, Firers
  <2>4. Unseen(S, c)' \subseteq Unseen(R, c) \ {t}
    BY <1>1, <1>2 DEF Unseen, Firers
  <2>5. IsFiniteSet(R) /\ Cardinality(R) \in Nat
    BY <2>2, LiveFinite
  <2>6. IsFiniteSet(Unseen(R, c)) /\ Cardinality(Unseen(R, c)) \in Nat /\ Cardinality(Tickers) \in Nat
    BY UnseenFinite
  <2>7. Cardinality(R) + Cardinality(Unseen(R, c)) <= Cardinality(Tickers)
    BY <2>2 DEF CountTrue
  <2>8. Cardinality(S) \in Nat /\ Cardinality(S) <= Cardinality(R) + 1
    <3>1. S \subseteq R \cup {due}
      OBVIOUS
    <3> HIDE DEF R
    <3>2. IsFiniteSet(R \cup {due}) /\ Cardinality(R \cup {due}) <= Cardinality(R) + 1
      BY <2>5, FS_AddElement
    <3> QED
      BY <2>5, <3>1, <3>2, FS_Subset, FS_CardinalityType
  <2>9. Cardinality(Unseen(S, c)') \in Nat /\ Cardinality(Unseen(S, c)') <= Cardinality(Unseen(R, c)) - 1
    <3>1. IsFiniteSet(Unseen(R, c) \ {t}) /\ Cardinality(Unseen(R, c) \ {t}) = Cardinality(Unseen(R, c)) - 1
      BY <2>3, <2>6, FS_RemoveElement
    <3> QED
      BY <2>4, <3>1, FS_Subset, FS_CardinalityType, ZenonT(40)
  <2> QED
    BY <2>5, <2>6, <2>7, <2>8, <2>9
<1> QED
  BY <1>5, <1>6

(* What is not a step of a tick that fires.                                  *)
LEMMA OtherCounts ==
    ASSUME CronTyped, NEW c \in Crons, CountTrue(c),
           \/ \E d \in Crons, s \in Schedules, e \in BOOLEAN : \E p \in Policies[d] : Register(d, s, p, e)
           \/ \E d \in Crons, e \in BOOLEAN : SetEnabled(d, e)
           \/ \E t \in Tickers : TickBegin(t) \/ TickFault(t)
           \/ (\E j \in JobIds : FinishJob(j)) \/ Advance \/ UNCHANGED vars
    PROVE  CountTrue(c)'
<1>0. tick \in [Tickers -> Ticks] /\ jobs \in [JobIds -> JobStates]
  BY DEF CronTyped
<1>1. CASE jobs' = jobs /\ tick' = tick
  <2>1. Live(c)' = Live(c) /\ \A S : Unseen(S, c)' = Unseen(S, c)
    BY <1>1 DEF Live, Unseen, Firers
  <2> QED
    BY <2>1, CountStays
<1>2. ASSUME NEW t \in Tickers, TickBegin(t) \/ TickFault(t)
      PROVE  CountTrue(c)'
  <2>1. \A u \in Tickers : u # t => tick'[u] = tick[u]
    BY <1>2, OthersStay DEF TickNext
  <2>2. tick'[t].pc \in {"idle", "next"}
    <3>1. CASE TickFault(t)
      BY <1>0, <3>1, IdleShape DEF TickFault
    <3>2. CASE TickBegin(t)
      BY <1>0, <3>2 DEF TickBegin, Idle
    <3> QED
      BY <1>2, <3>1, <3>2
  <2>3. Live(c)' = Live(c)
    BY <1>2 DEF TickBegin, TickFault, Live
  <2>4. \A S \in SUBSET Live(c)' : Unseen(S, c)' \subseteq Unseen(S, c)
    BY <2>1, <2>2 DEF Unseen, Firers
  <2> QED
    BY <2>3, <2>4, CountStays
<1>3. ASSUME NEW j \in JobIds, FinishJob(j)
      PROVE  CountTrue(c)'
  <2>1. \A i \in Instants : jobs'[<<c, i>>] = "queued" => jobs[<<c, i>>] = "queued"
    BY <1>0, <1>3 DEF FinishJob, JobIds
  <2>2. Live(c)' \subseteq Live(c) /\ \A S : Unseen(S, c)' = Unseen(S, c)
    BY <1>3, <2>1 DEF Live, Unseen, Firers, FinishJob
  <2> QED
    BY <2>2, CountStays
<1> QED
  BY <1>1, <1>2, <1>3 DEF Register, SetEnabled, Advance, vars

(* A schedule registered with Skip or CancelPrevious never has two jobs in   *)
(* the queue unless a tick fired it while another had it to do, and then     *)
(* never more than there are processes that tick.                            *)
THEOREM SchedulesNeverOverlap == Spec => []NoOverlap
<1>1. Init => Counted
  <2> SUFFICES ASSUME Init, NEW c \in Crons PROVE CountTrue(c)
    BY DEF Counted
  <2> SUFFICES ASSUME NEW S \in SUBSET Live(c)
               PROVE  Cardinality(S) + Cardinality(Unseen(S, c)) <= Cardinality(Tickers)
    BY DEF CountTrue
  <2>1. S = {}
    BY DEF Init, Live, JobIds
  <2>2. Cardinality(S) = 0
    BY <2>1, FS_EmptySet
  <2> QED
    BY <2>2, UnseenFinite
<1>2. CronTyped /\ CronTyped' /\ Counted /\ [Next]_vars => Counted'
  <2> SUFFICES ASSUME CronTyped, CronTyped', Counted, [Next]_vars, NEW c \in Crons, "Queue" \notin Policies[c]
               PROVE  CountTrue(c)'
    BY DEF Counted
  <2>1. CountTrue(c)
    BY DEF Counted
  <2>2. ASSUME NEW t \in Tickers, TickNext(t) \/ TickFault(t) PROVE CountTrue(c)'
    BY <2>1, <2>2, TickOneCounts, SupersedeCounts, EnqueueCounts, OtherCounts DEF TickNext
  <2> QED
    BY <2>1, <2>2, OtherCounts DEF Next
<1>3. CronInv /\ Counted => NoOverlap
  <2> SUFFICES ASSUME CronInv, Counted, NEW c \in Crons, "Queue" \notin Policies[c]
               PROVE  Cardinality(Live(c)) <= IF c \in crossed THEN Cardinality(Tickers) ELSE 1
    BY DEF NoOverlap
  <2>1. CASE c \in crossed
    <3>1. Cardinality(Live(c)) + Cardinality(Unseen(Live(c), c)) <= Cardinality(Tickers)
      BY DEF Counted, CountTrue
    <3>2. Live(c) \in SUBSET Live(c)
      OBVIOUS
    <3>3. Cardinality(Live(c)) \in Nat
      BY <3>2, LiveFinite
    <3>4. Cardinality(Unseen(Live(c), c)) \in Nat /\ Cardinality(Tickers) \in Nat
      BY UnseenFinite
    <3> QED
      BY <2>1, <3>1, <3>3, <3>4
  <2>2. CASE c \notin crossed
    <3>1. \A i, k \in Live(c) : i = k
      BY <2>2 DEF CronInv, CronTrue, AtMostOne, Live
    <3>2. CASE Live(c) = {}
      BY <2>2, <3>2, FS_EmptySet
    <3>3. ASSUME NEW x \in Live(c)
          PROVE  Cardinality(Live(c)) <= 1
      <4>1. Live(c) = {x}
        BY <3>1, <3>3
      <4> QED
        BY <4>1, FS_Singleton
    <3> QED
      BY <2>2, <3>2, <3>3
  <2> QED
    BY <2>1, <2>2
<1>4. CronInv => CronTyped
  BY DEF CronInv
<1> QED
  BY <1>1, <1>2, <1>3, <1>4, TicksTrue, PTL DEF Spec

(* However many processes tick the project, a job that CancelPrevious        *)
(* retired has a later job of its schedule, or a later firing is still owed, *)
(* even when the tick died between the retirement and the enqueue, if the    *)
(* schedule was registered once and no two ticks fired it at once.           *)
THEOREM RetiredIsReplaced == Spec => []SupersededHasSuccessor
<1>1. CronInv => SupersededHasSuccessor
  BY DEF CronInv, CronTrue, Followed, SupersededHasSuccessor, RegisteredOnce, Uncrossed, Kept
<1> QED
  BY <1>1, TicksTrue, PTL

-----------------------------------------------------------------------------
(* CronSearch: the calendar.                                                 *)

(* Division by a positive divisor.                                           *)
LEMMA Divided ==
    ASSUME NEW a \in Int, NEW d \in Nat, d > 0
    PROVE  /\ a \div d \in Int
           /\ a % d \in Int /\ 0 <= a % d /\ a % d < d
           /\ a = (a \div d) * d + (a % d)
           /\ a >= 0 => a \div d \in Nat
  OBVIOUS

(* A product grows with its factor.                                          *)
LEMMA Scaled ==
    ASSUME NEW a \in Int, NEW b \in Int, NEW d \in Nat, a <= b
    PROVE  a * d <= b * d
  OBVIOUS

(* The one way to write a number as a quotient and a rest.                   *)
LEMMA DividedOnce ==
    ASSUME NEW a \in Int, NEW q \in Int, NEW r \in Int, NEW d \in Nat, d > 0, 0 <= r, r < d, a = q * d + r
    PROVE  a \div d = q /\ a % d = r
  OBVIOUS

(* The number of whole hours since the start.                                *)
HoursTo(c) == c \div Minutes

(* The calendar's constants, one by one.                                     *)
LEMMA SearchConstants ==
    /\ Minutes \in Nat /\ Minutes > 0 /\ Hours \in Nat /\ Hours > 0 /\ Days \in Nat /\ Days > 0
    /\ StepMax \in Nat /\ StepMax > 0 /\ RunMax \in Nat /\ RunMax > 0
  BY SearchAssumption

(* The length of the zone's transition.                                      *)
Shift == zone.shift

LEMMA ZoneFacts ==
    ASSUME zone \in Zones
    PROVE  zone.kind \in {"fixed", "gap", "fold"} /\ Shift \in Nat /\ 0 < Shift
  BY SearchAssumption DEF Shift

(* A civil time is its day, its hour and its minute.                         *)
LEMMA Digits ==
    ASSUME NEW c \in Nat
    PROVE  /\ HoursTo(c) \in Nat /\ DayOf(c) \in Nat /\ HourOf(c) \in Nat /\ MinuteOf(c) \in Nat
           /\ HourOf(c) < Hours /\ MinuteOf(c) < Minutes
           /\ c = HoursTo(c) * Minutes + MinuteOf(c)
           /\ HoursTo(c) = DayOf(c) * Hours + HourOf(c)
<1> DEFINE h == c \div Minutes
<1> DEFINE m == c % Minutes
<1> DEFINE D == h \div Hours
<1> DEFINE r == h % Hours
<1>1. Minutes \in Nat /\ Minutes > 0 /\ Hours \in Nat /\ Hours > 0
  BY SearchConstants
<1>2. h \in Nat /\ m \in Int /\ 0 <= m /\ m < Minutes /\ c = h * Minutes + m
  BY <1>1, Divided
<1> HIDE DEF h, m
<1>3. D \in Nat /\ r \in Int /\ 0 <= r /\ r < Hours /\ h = D * Hours + r
  BY <1>1, <1>2, Divided
<1> HIDE DEF D, r
<1>4. c \div (Minutes * Hours) = D
  <2> DEFINE w == r * Minutes + m
  <2>1. r * Minutes \in Nat /\ w \in Int /\ 0 <= w
    BY <1>1, <1>2, <1>3
  <2>2. w < Minutes * Hours
    <3>1. r + 1 <= Hours /\ r + 1 \in Int
      BY <1>1, <1>3
    <3>2. (r + 1) * Minutes <= Hours * Minutes
      BY <1>1, <3>1, Scaled
    <3>3. (r + 1) * Minutes = r * Minutes + Minutes /\ Hours * Minutes = Minutes * Hours /\ Minutes * Hours \in Int
      BY <1>1, <1>3
    <3> QED
      BY <1>1, <1>2, <2>1, <3>2, <3>3
  <2>3. c = D * (Minutes * Hours) + w
    <3>1. h * Minutes = D * (Minutes * Hours) + r * Minutes
      BY <1>1, <1>3
    <3>2. D * (Minutes * Hours) \in Int /\ h * Minutes \in Int
      BY <1>1, <1>2, <1>3
    <3> QED
      BY <1>2, <2>1, <3>1, <3>2
  <2>4. Minutes * Hours \in Nat /\ Minutes * Hours > 0
    <3>1. 1 * Minutes <= Hours * Minutes
      BY <1>1, Scaled
    <3>2. Hours * Minutes = Minutes * Hours /\ Minutes * Hours \in Int
      BY <1>1
    <3> QED
      BY <1>1, <3>1, <3>2
  <2> HIDE DEF w
  <2> DEFINE p == Minutes * Hours
  <2> HIDE DEF p
  <2>5. p \in Nat /\ p > 0 /\ w < p /\ c = D * p + w
    BY <2>2, <2>3, <2>4 DEF p
  <2>6. c \div p = D
    BY <1>3, <2>1, <2>5, DividedOnce
  <2> QED
    BY <2>6 DEF p
<1> QED
  BY <1>2, <1>3, <1>4 DEF HoursTo, DayOf, HourOf, MinuteOf, h, m, D, r

(* The civil time of a day, an hour and a minute.                            *)
At(D, r, m) == (D * Hours + r) * Minutes + m

(* The digits of a civil time that is written with them.                     *)
LEMMA OfDigits ==
    ASSUME NEW c \in Nat, NEW D \in Nat, NEW r \in Nat, NEW m \in Nat, r < Hours, m < Minutes,
           c = At(D, r, m)
    PROVE  HoursTo(c) = D * Hours + r /\ DayOf(c) = D /\ HourOf(c) = r /\ MinuteOf(c) = m
<1>1. Minutes \in Nat /\ Minutes > 0 /\ Hours \in Nat /\ Hours > 0
  BY SearchConstants
<1> DEFINE h == D * Hours + r
<1>2. h \in Nat
  BY <1>1
<1>3. HoursTo(c) = h /\ MinuteOf(c) = m
  <2> HIDE DEF h
  <2>1. c = h * Minutes + m
    BY DEF h, At
  <2> QED
    BY <1>1, <1>2, <2>1, DividedOnce DEF HoursTo, MinuteOf
<1>4. HourOf(c) = r
  <2>1. h \div Hours = D /\ h % Hours = r
    BY <1>1, <1>2, DividedOnce
  <2> QED
    BY <1>3, <2>1 DEF HourOf, HoursTo
<1>5. HoursTo(c) = DayOf(c) * Hours + HourOf(c) /\ DayOf(c) \in Nat
  BY Digits
<1>6. DayOf(c) * Hours + r = D * Hours + r
  BY <1>3, <1>4, <1>5
<1>7. DayOf(c) = D
  <2>1. h \div Hours = DayOf(c)
    BY <1>1, <1>2, <1>3, <1>4, <1>5, DividedOnce
  <2>2. h \div Hours = D
    BY <1>1, <1>2, DividedOnce
  <2> QED
    BY <2>1, <2>2
<1> QED
  BY <1>3, <1>4, <1>7

(* start_of_next_hour.                                                       *)
LEMMA NextHourDigits ==
    ASSUME NEW c \in Nat, NEW n, n = StartOfNextHour(c)
    PROVE  /\ n \in Nat /\ n > c /\ HoursTo(n) = HoursTo(c) + 1 /\ MinuteOf(n) = 0
           /\ HourOf(c) < Hours - 1 => DayOf(n) = DayOf(c) /\ HourOf(n) = HourOf(c) + 1
           /\ HourOf(c) = Hours - 1 => DayOf(n) = DayOf(c) + 1 /\ HourOf(n) = 0
           /\ n = c + (Minutes - MinuteOf(c))
<1> DEFINE h == HoursTo(c)
<1> DEFINE D == DayOf(c)
<1> DEFINE r == HourOf(c)
<1> DEFINE m == MinuteOf(c)
<1>1. Minutes \in Nat /\ Minutes > 0 /\ Hours \in Nat /\ Hours > 0
  BY SearchConstants
<1>2. h \in Nat /\ D \in Nat /\ r \in Nat /\ m \in Nat /\ r < Hours /\ m < Minutes /\ c = h * Minutes + m /\ h = D * Hours + r
  BY Digits
<1>3. n = (h + 1) * Minutes
  BY DEF StartOfNextHour, HoursTo
<1> HIDE DEF h, D, r, m
<1>4. n = h * Minutes + Minutes /\ h * Minutes \in Nat
  BY <1>1, <1>2, <1>3
<1>5. n \in Nat /\ n > c /\ n = c + (Minutes - m)
  BY <1>1, <1>2, <1>4
<1>6. CASE r < Hours - 1
  <2>1. n = At(D, r + 1, 0)
    BY <1>1, <1>2, <1>3 DEF At
  <2>2. r + 1 \in Nat /\ r + 1 < Hours
    BY <1>1, <1>2, <1>6
  <2>3. HoursTo(n) = D * Hours + (r + 1) /\ DayOf(n) = D /\ HourOf(n) = r + 1 /\ MinuteOf(n) = 0
    BY <1>1, <1>2, <1>5, <2>1, <2>2, OfDigits
  <2>4. HoursTo(n) = h + 1
    BY <1>1, <1>2, <2>3
  <2> QED
    BY <1>1, <1>2, <1>5, <1>6, <2>3, <2>4 DEF h, D, r, m
<1>7. CASE r = Hours - 1
  <2>1. n = At(D + 1, 0, 0) /\ D + 1 \in Nat
    BY <1>1, <1>2, <1>3, <1>7 DEF At
  <2>2. HoursTo(n) = (D + 1) * Hours + 0 /\ DayOf(n) = D + 1 /\ HourOf(n) = 0 /\ MinuteOf(n) = 0
    BY <1>1, <1>2, <1>5, <2>1, OfDigits
  <2>3. HoursTo(n) = h + 1
    BY <1>1, <1>2, <1>7, <2>2
  <2> QED
    BY <1>1, <1>2, <1>5, <1>7, <2>2, <2>3 DEF h, D, r, m
<1> QED
  BY <1>1, <1>2, <1>6, <1>7

(* start_of_next_day.                                                        *)
LEMMA NextDayDigits ==
    ASSUME NEW c \in Nat, NEW n, n = StartOfNextDay(c)
    PROVE  /\ n \in Nat /\ n > c /\ HoursTo(n) > HoursTo(c)
           /\ DayOf(n) = DayOf(c) + 1 /\ HourOf(n) = 0 /\ MinuteOf(n) = 0
<1> DEFINE h == HoursTo(c)
<1> DEFINE D == DayOf(c)
<1> DEFINE r == HourOf(c)
<1> DEFINE m == MinuteOf(c)
<1>1. Minutes \in Nat /\ Minutes > 0 /\ Hours \in Nat /\ Hours > 0
  BY SearchConstants
<1>2. h \in Nat /\ D \in Nat /\ r \in Nat /\ m \in Nat /\ r < Hours /\ m < Minutes /\ c = h * Minutes + m /\ h = D * Hours + r
  BY Digits
<1>3. n = (D + 1) * Minutes * Hours
  BY DEF StartOfNextDay
<1> HIDE DEF h, D, r, m
<1>4. n = At(D + 1, 0, 0) /\ n \in Nat /\ D + 1 \in Nat
  BY <1>1, <1>2, <1>3 DEF At
<1>5. HoursTo(n) = (D + 1) * Hours + 0 /\ DayOf(n) = D + 1 /\ HourOf(n) = 0 /\ MinuteOf(n) = 0
  BY <1>1, <1>2, <1>4, OfDigits
<1>6. HoursTo(n) = D * Hours + Hours /\ D * Hours \in Nat /\ HoursTo(n) \in Nat
  BY <1>1, <1>2, <1>5
<1>7. HoursTo(n) > h
  BY <1>1, <1>2, <1>6
<1>8. n > c
  <2>1. (h + 1) * Minutes <= HoursTo(n) * Minutes
    BY <1>1, <1>2, <1>6, <1>7, Scaled
  <2>2. n = HoursTo(n) * Minutes
    BY <1>1, <1>2, <1>4, <1>5, <1>6 DEF At
  <2>3. (h + 1) * Minutes = h * Minutes + Minutes /\ h * Minutes \in Int
    BY <1>1, <1>2
  <2> QED
    BY <1>1, <1>2, <1>4, <2>1, <2>2, <2>3
<1> QED
  BY <1>4, <1>5, <1>7, <1>8 DEF h, D, r, m

(* The minute after one.                                                     *)
LEMMA NextMinuteDigits ==
    ASSUME NEW c \in Nat
    PROVE  /\ MinuteOf(c) < Minutes - 1 =>
                 /\ HoursTo(c + 1) = HoursTo(c) /\ DayOf(c + 1) = DayOf(c) /\ HourOf(c + 1) = HourOf(c)
                 /\ MinuteOf(c + 1) = MinuteOf(c) + 1
           /\ MinuteOf(c) = Minutes - 1 => c + 1 = StartOfNextHour(c)
<1> DEFINE h == HoursTo(c)
<1> DEFINE D == DayOf(c)
<1> DEFINE r == HourOf(c)
<1> DEFINE m == MinuteOf(c)
<1>1. Minutes \in Nat /\ Minutes > 0 /\ Hours \in Nat /\ Hours > 0
  BY SearchConstants
<1>2. h \in Nat /\ D \in Nat /\ r \in Nat /\ m \in Nat /\ r < Hours /\ m < Minutes /\ c = h * Minutes + m /\ h = D * Hours + r
  BY Digits
<1> HIDE DEF h, D, r, m
<1>3. ASSUME m < Minutes - 1
      PROVE  HoursTo(c + 1) = h /\ DayOf(c + 1) = D /\ HourOf(c + 1) = r /\ MinuteOf(c + 1) = m + 1
  <2>1. c + 1 = At(D, r, m + 1)
    <3>1. (D * Hours + r) * Minutes = h * Minutes /\ h * Minutes \in Int
      BY <1>1, <1>2
    <3> QED
      BY <1>1, <1>2, <3>1 DEF At
  <2>2. m + 1 \in Nat /\ m + 1 < Minutes /\ c + 1 \in Nat
    BY <1>1, <1>2, <1>3
  <2> QED
    BY <1>1, <1>2, <2>1, <2>2, OfDigits
<1>4. ASSUME m = Minutes - 1 PROVE c + 1 = StartOfNextHour(c)
  <2>1. StartOfNextHour(c) = c + (Minutes - m)
    BY NextHourDigits DEF m
  <2> QED
    BY <1>1, <1>2, <1>4, <2>1
<1> QED
  BY <1>3, <1>4 DEF h, D, r, m

(* The hours since the start give the day and the hour of the day.           *)
LEMMA HoursGiveDay ==
    ASSUME NEW c \in Nat, NEW x \in Nat, HoursTo(x) = HoursTo(c)
    PROVE  DayOf(x) = DayOf(c) /\ HourOf(x) = HourOf(c)
<1> DEFINE g == HoursTo(x)
<1>1. HourOf(x) = HourOf(c)
  BY DEF HourOf, HoursTo
<1>2. /\ g = DayOf(x) * Hours + HourOf(x) /\ g = DayOf(c) * Hours + HourOf(c) /\ g \in Nat
      /\ DayOf(x) \in Nat /\ DayOf(c) \in Nat /\ HourOf(c) \in Nat /\ HourOf(c) < Hours
  BY Digits
<1>3. Hours \in Nat /\ Hours > 0
  BY SearchConstants
<1> HIDE DEF g
<1>4. /\ g \in Int /\ DayOf(x) \in Int /\ DayOf(c) \in Int /\ HourOf(c) \in Int /\ 0 <= HourOf(c)
      /\ g = DayOf(x) * Hours + HourOf(c) /\ g = DayOf(c) * Hours + HourOf(c)
  BY <1>1, <1>2
<1>5. g \div Hours = DayOf(x)
  BY <1>2, <1>3, <1>4, DividedOnce, Zenon
<1>6. g \div Hours = DayOf(c)
  BY <1>2, <1>3, <1>4, DividedOnce, Zenon
<1> QED
  BY <1>1, <1>5, <1>6

(* The minutes of an hour, from one of them on.                              *)
LEMMA SameHour ==
    ASSUME NEW c \in Nat, NEW x \in Nat, c <= x, x < StartOfNextHour(c)
    PROVE  HoursTo(x) = HoursTo(c) /\ DayOf(x) = DayOf(c) /\ HourOf(x) = HourOf(c)
<1> DEFINE h == HoursTo(c)
<1>1. Minutes \in Nat /\ Minutes > 0
  BY SearchConstants
<1>2. h \in Nat /\ MinuteOf(c) \in Nat /\ c = h * Minutes + MinuteOf(c)
  BY Digits
<1>3. StartOfNextHour(c) = (h + 1) * Minutes
  BY DEF StartOfNextHour, HoursTo
<1> HIDE DEF h
<1>4. h * Minutes \in Int /\ (h + 1) * Minutes = h * Minutes + Minutes
  BY <1>1, <1>2
<1>5. x \div Minutes = h
  <2> DEFINE r == x - h * Minutes
  <2>1. r \in Int /\ 0 <= r /\ r < Minutes /\ x = h * Minutes + r
    BY <1>1, <1>2, <1>3, <1>4
  <2> HIDE DEF r
  <2>2. x \in Int /\ h \in Int
    BY <1>2
  <2> QED
    BY <1>1, <2>1, <2>2, DividedOnce, Zenon
<1>6. HoursTo(x) = HoursTo(c)
  BY <1>5 DEF h, HoursTo
<1> QED
  BY <1>6, HoursGiveDay

(* The minutes of a day, from one of them on.                                *)
LEMMA SameDay ==
    ASSUME NEW c \in Nat, NEW x \in Nat, c <= x, x < StartOfNextDay(c)
    PROVE  DayOf(x) = DayOf(c)
<1> DEFINE p == Minutes * Hours
<1> DEFINE D == DayOf(c)
<1>1. p \in Nat /\ p > 0
  <2>1. Minutes \in Nat /\ Minutes > 0 /\ Hours \in Nat /\ Hours > 0
    BY SearchConstants
  <2>2. 1 * Minutes <= Hours * Minutes
    BY <2>1, Scaled
  <2>3. Hours * Minutes = Minutes * Hours /\ Minutes * Hours \in Int
    BY <2>1
  <2> QED
    BY <2>1, <2>2, <2>3
<1>2. D \in Nat
  BY Digits
<1>3. StartOfNextDay(c) = (D + 1) * p
  <2>1. Minutes \in Nat /\ Hours \in Nat
    BY SearchConstants
  <2> QED
    BY <1>2, <2>1 DEF StartOfNextDay
<1>4. D = c \div p /\ DayOf(x) = x \div p
  BY DEF DayOf
<1> HIDE DEF p, D
<1>5. D * p <= c /\ D * p \in Int
  <2>1. c % p \in Int /\ 0 <= c % p /\ c = D * p + (c % p)
    BY <1>1, <1>4, Divided
  <2> QED
    BY <1>1, <1>2, <2>1
<1>6. (D + 1) * p = D * p + p
  BY <1>1, <1>2
<1>7. x \div p = D
  <2> DEFINE r == x - D * p
  <2>1. r \in Int /\ 0 <= r /\ r < p /\ x = D * p + r
    BY <1>1, <1>3, <1>5, <1>6
  <2> HIDE DEF r
  <2> QED
    BY <1>1, <1>2, <2>1, DividedOnce
<1> QED
  BY <1>4, <1>7 DEF D

(* Later civil times are not in an earlier hour.                             *)
LEMMA HoursGrow ==
    ASSUME NEW c \in Nat, NEW x \in Nat, c <= x
    PROVE  HoursTo(c) <= HoursTo(x)
<1>1. Minutes \in Nat /\ Minutes > 0
  BY SearchConstants
<1> DEFINE h == HoursTo(c)
<1> DEFINE g == HoursTo(x)
<1>2. h \in Nat /\ MinuteOf(c) \in Nat /\ c = h * Minutes + MinuteOf(c)
  BY Digits
<1>3. g \in Nat /\ MinuteOf(x) \in Nat /\ MinuteOf(x) < Minutes /\ x = g * Minutes + MinuteOf(x)
  BY Digits
<1> HIDE DEF h, g
<1> SUFFICES ASSUME g + 1 <= h PROVE FALSE
  BY <1>2, <1>3 DEF h, g
<1>4. (g + 1) * Minutes <= h * Minutes
  BY <1>1, <1>2, <1>3, Scaled
<1>5. (g + 1) * Minutes = g * Minutes + Minutes /\ g * Minutes \in Int /\ h * Minutes \in Int
  BY <1>1, <1>2, <1>3
<1> QED
  BY <1>1, <1>2, <1>3, <1>4, <1>5

(* A civil time before the horizon is on one of the days.                    *)
LEMMA DayInHorizon ==
    ASSUME NEW c \in Civil
    PROVE  c \in Nat /\ DayOf(c) < Days
<1>1. Minutes \in Nat /\ Hours \in Nat /\ Days \in Nat /\ Minutes > 0 /\ Hours > 0
  BY SearchConstants
<1> DEFINE p == Minutes * Hours
<1> DEFINE D == DayOf(c)
<1>2. p \in Nat /\ Minutes * Hours * Days = Days * p /\ Days * p \in Int
  BY <1>1
<1>3. c \in Nat /\ c < Days * p
  BY <1>1, <1>2 DEF Civil
<1>4. p > 0
  <2>1. 1 * Minutes <= Hours * Minutes
    BY <1>1, Scaled
  <2>2. Hours * Minutes = Minutes * Hours
    BY <1>1
  <2> QED
    BY <1>1, <1>2, <2>1, <2>2
<1>5. D = c \div p
  BY DEF DayOf
<1> HIDE DEF p, D
<1>6. D \in Nat /\ D * p <= c
  <2>1. D \in Nat /\ c % p \in Int /\ 0 <= c % p /\ c = D * p + (c % p)
    BY <1>2, <1>3, <1>4, <1>5, Divided
  <2>2. D * p \in Int
    BY <1>2, <2>1
  <2> QED
    BY <1>3, <2>1, <2>2
<1>7. ~(Days <= D)
  <2> SUFFICES ASSUME Days <= D PROVE FALSE
    OBVIOUS
  <2>1. Days * p <= D * p /\ D * p \in Int
    BY <1>1, <1>2, <1>6, Scaled
  <2> QED
    BY <1>2, <1>3, <1>6, <2>1
<1> QED
  BY <1>1, <1>3, <1>6, <1>7 DEF D

-----------------------------------------------------------------------------
(* CronSearch: the inductive invariant.                                      *)

(* The civil minute the current search began at.                             *)
First == CivilOf(zone, cursor) + 1

(* The firing after the cursor is not behind the candidate.  A minute inside *)
(* a gap is no longer visited once the cursor is past the transition.        *)
NoneBehind ==
    /\ candidate >= First
    /\ \A c \in Matching : Compatible(zone, c) > cursor /\ (~InGap(zone, c) \/ cursor < Transition) => c >= candidate

(* Beyond the first hour a search only ever passes hours and minutes that do *)
(* not match, so it goes through at most one day of hours in all.            *)
InFirstHour(x, f, n) == HoursTo(x) = HoursTo(f) /\ n + MinuteOf(f) <= MinuteOf(x)

InLaterHour(x) ==
    /\ MinuteOf(x) = 0 \/ (MatchesDate(expr, x) /\ MatchesHour(expr, x))
    /\ \A m \in expr.minutes : m >= MinuteOf(x)

OnFirstDay(x, f, n) ==
    /\ DayOf(x) = DayOf(f) /\ HourOf(x) > HourOf(f) /\ MatchesDate(expr, f)
    /\ \A r \in expr.hours : r <= HourOf(f) \/ r >= HourOf(x)
    /\ n + HourOf(f) + 1 <= Minutes + HourOf(x) + MinuteOf(x)

OnLaterDay(x, f, n) ==
    /\ DayOf(x) > DayOf(f)
    /\ HourOf(x) = 0 \/ MatchesDate(expr, x)
    /\ \A r \in expr.hours : r >= HourOf(x)
    /\ MatchesDate(expr, f) => \A r \in expr.hours : r <= HourOf(f)
    /\ n + DayOf(f) + (IF MatchesDate(expr, f) THEN HourOf(f) + 1 ELSE Hours)
          <= DayOf(x) + Hours + HourOf(x) + Minutes + MinuteOf(x)

StepsFew(x, f, n) ==
    \/ InFirstHour(x, f, n)
    \/ HoursTo(x) > HoursTo(f) /\ InLaterHour(x) /\ (OnFirstDay(x, f, n) \/ OnLaterDay(x, f, n))

(* In a fold of more than an hour a search that begins in the second passage *)
(* goes minute by minute through what is repeated; from its end on it takes  *)
(* the steps of one that begins there.                                       *)
LongFold == zone.kind = "fold" /\ Shift > Minutes

Repeats(x, f, n) == LongFold /\ f > Transition /\ x < Transition + Shift /\ n <= x - f

Ahead(g) == LongFold => g >= Transition + Shift \/ cursor < Transition + Shift

GoesOn(x, f, n, g, k) ==
    /\ f <= g /\ g <= x /\ k <= n /\ (k = 0 \/ (LongFold /\ k <= Shift))
    /\ Ahead(g)
    /\ StepsFew(x, g, n - k)

StepsTaken(x, f, n) == Repeats(x, f, n) \/ \E g, k \in Nat : GoesOn(x, f, n, g, k)

(* What was found, and what was not.                                         *)
Covered == \A c \in Matching : FallsDue(c) /\ Compatible(zone, c) <= cursor => Compatible(zone, c) \in found

AllFound == \A c \in Matching : FallsDue(c) => Compatible(zone, c) \in found

SearchTyped ==
    /\ SearchTypeOK
    /\ start \in Nat /\ cursor \in Nat /\ start <= cursor

SearchInv ==
    /\ SearchTyped
    /\ OnlyFirings
    /\ Covered
    /\ searchPc = "search" => NoneBehind /\ StepsTaken(candidate, First, steps)
    /\ searchPc = "done" => AllFound \/ ~(Cardinality(found) < RunMax)

-----------------------------------------------------------------------------
(* CronSearch: the steps of one search.                                      *)

(* Day and hour fields look at the day and at the hour.                      *)
LEMMA DateOfDay ==
    ASSUME NEW c, NEW x, DayOf(c) = DayOf(x)
    PROVE  MatchesDate(expr, c) = MatchesDate(expr, x)
  BY DEF MatchesDate

(* An expression has minutes and hours of the calendar.                      *)
LEMMA ExprFields ==
    ASSUME expr \in Exprs
    PROVE  /\ \A m \in expr.minutes : m \in Nat /\ m < Minutes
           /\ \A r \in expr.hours : r \in Nat /\ r < Hours
           /\ \E m \in expr.minutes : TRUE
           /\ \E r \in expr.hours : TRUE
<1>1. /\ expr.minutes \in (SUBSET (0..(Minutes - 1))) \ {{}}
      /\ expr.hours \in (SUBSET (0..(Hours - 1))) \ {{}}
  BY DEF Exprs
<1>2. Minutes \in Nat /\ Hours \in Nat
  BY SearchConstants
<1> QED
  BY <1>1, <1>2

(* A day of another date is passed in one step.                              *)
LEMMA StepsDay ==
    ASSUME expr \in Exprs, NEW x \in Nat, NEW f \in Nat, NEW n \in Nat, f <= x, StepsFew(x, f, n),
           ~MatchesDate(expr, x), NEW y, y = StartOfNextDay(x)
    PROVE  StepsFew(y, f, n + 1)
<1>1. Minutes \in Nat /\ Minutes > 0 /\ Hours \in Nat /\ Hours > 0
  BY SearchConstants
<1>2. /\ HoursTo(x) \in Nat /\ DayOf(x) \in Nat /\ HourOf(x) \in Nat /\ MinuteOf(x) \in Nat
      /\ HourOf(x) < Hours /\ MinuteOf(x) < Minutes /\ HoursTo(x) = DayOf(x) * Hours + HourOf(x)
  BY Digits
<1>3. /\ HoursTo(f) \in Nat /\ DayOf(f) \in Nat /\ HourOf(f) \in Nat /\ MinuteOf(f) \in Nat
      /\ HourOf(f) < Hours /\ MinuteOf(f) < Minutes
  BY Digits
<1>4. y \in Nat /\ HoursTo(y) > HoursTo(x) /\ DayOf(y) = DayOf(x) + 1 /\ HourOf(y) = 0 /\ MinuteOf(y) = 0
  BY NextDayDigits
<1>5. HoursTo(y) \in Nat
  BY <1>4, Digits
<1>6. (\A m \in expr.minutes : m \in Nat) /\ (\A r \in expr.hours : r \in Nat)
  BY ExprFields
<1>7. HoursTo(y) > HoursTo(f)
  <2>1. HoursTo(f) <= HoursTo(x)
    BY HoursGrow
  <2> QED
    BY <1>2, <1>3, <1>4, <1>5, <2>1
<1>8. InLaterHour(y)
  BY <1>4, <1>6 DEF InLaterHour
<1>9. OnLaterDay(y, f, n + 1)
  <2>1. CASE InFirstHour(x, f, n)
    <3>1. HoursTo(x) = HoursTo(f) /\ n + MinuteOf(f) <= MinuteOf(x)
      BY <2>1 DEF InFirstHour
    <3>2. DayOf(x) = DayOf(f)
      BY <3>1, HoursGiveDay
    <3>3. ~MatchesDate(expr, f)
      BY <3>2, DateOfDay
    <3>4. (n + 1) + DayOf(f) + Hours <= DayOf(y) + Hours + HourOf(y) + Minutes + MinuteOf(y)
      BY <1>1, <1>2, <1>3, <1>4, <3>1, <3>2
    <3> QED
      BY <1>2, <1>4, <1>6, <3>2, <3>3, <3>4 DEF OnLaterDay
  <2>2. CASE InLaterHour(x) /\ OnFirstDay(x, f, n)
    BY <2>2, DateOfDay DEF OnFirstDay
  <2>3. CASE InLaterHour(x) /\ OnLaterDay(x, f, n)
    <3>1. MinuteOf(x) = 0 /\ HourOf(x) = 0
      BY <2>3 DEF InLaterHour, OnLaterDay
    <3> DEFINE k == IF MatchesDate(expr, f) THEN HourOf(f) + 1 ELSE Hours
    <3>2. n + DayOf(f) + k <= DayOf(x) + Hours + HourOf(x) + Minutes + MinuteOf(x) /\ DayOf(x) > DayOf(f)
      BY <2>3 DEF OnLaterDay
    <3>3. k \in Nat
      BY <1>1, <1>3
    <3>4. (MatchesDate(expr, f) => \A r \in expr.hours : r <= HourOf(f))
      BY <2>3 DEF OnLaterDay
    <3> HIDE DEF k
    <3>5. (n + 1) + DayOf(f) + k <= DayOf(y) + Hours + HourOf(y) + Minutes + MinuteOf(y) /\ DayOf(y) > DayOf(f)
      BY <1>1, <1>2, <1>3, <1>4, <3>1, <3>2, <3>3
    <3> QED
      BY <1>4, <1>6, <3>4, <3>5 DEF OnLaterDay, k
  <2> QED
    BY <2>1, <2>2, <2>3 DEF StepsFew
<1> QED
  BY <1>7, <1>8, <1>9 DEF StepsFew

(* An hour that does not match is passed in one step; it is the last one of  *)
(* its day only when the search began on that day.                           *)
LEMMA StepsHour ==
    ASSUME expr \in Exprs, NEW x \in Nat, NEW f \in Nat, NEW n \in Nat, f <= x, StepsFew(x, f, n),
           MatchesDate(expr, x), ~MatchesHour(expr, x) \/ HoursTo(x) = HoursTo(f),
           NEW y, y = StartOfNextHour(x)
    PROVE  StepsFew(y, f, n + 1)
<1>1. Minutes \in Nat /\ Minutes > 0 /\ Hours \in Nat /\ Hours > 0
  BY SearchConstants
<1>2. /\ HoursTo(x) \in Nat /\ DayOf(x) \in Nat /\ HourOf(x) \in Nat /\ MinuteOf(x) \in Nat
      /\ HourOf(x) < Hours /\ MinuteOf(x) < Minutes
  BY Digits
<1>3. /\ HoursTo(f) \in Nat /\ DayOf(f) \in Nat /\ HourOf(f) \in Nat /\ MinuteOf(f) \in Nat
      /\ HourOf(f) < Hours /\ MinuteOf(f) < Minutes
  BY Digits
<1>4. /\ y \in Nat /\ HoursTo(y) = HoursTo(x) + 1 /\ MinuteOf(y) = 0
      /\ HourOf(x) < Hours - 1 => DayOf(y) = DayOf(x) /\ HourOf(y) = HourOf(x) + 1
      /\ HourOf(x) = Hours - 1 => DayOf(y) = DayOf(x) + 1 /\ HourOf(y) = 0
  BY NextHourDigits
<1>5. HourOf(x) < Hours - 1 \/ HourOf(x) = Hours - 1
  BY <1>1, <1>2
<1>6. /\ \A m \in expr.minutes : m \in Nat
      /\ \A r \in expr.hours : r \in Nat /\ r < Hours
      /\ \E r \in expr.hours : TRUE
  BY ExprFields
<1>7. HoursTo(y) > HoursTo(f)
  <2>1. HoursTo(f) <= HoursTo(x)
    BY HoursGrow
  <2> QED
    BY <1>2, <1>3, <1>4, <2>1
<1>8. InLaterHour(y)
  BY <1>4, <1>6 DEF InLaterHour
<1>9. CASE HoursTo(x) = HoursTo(f)
  <2>1. DayOf(x) = DayOf(f) /\ HourOf(x) = HourOf(f)
    BY <1>9, HoursGiveDay
  <2>2. n + MinuteOf(f) <= MinuteOf(x)
    BY <1>2, <1>3, <1>9 DEF StepsFew, InFirstHour
  <2>3. MatchesDate(expr, f)
    BY <2>1, DateOfDay
  <2>4. CASE HourOf(x) < Hours - 1
    <3>1. DayOf(y) = DayOf(f) /\ HourOf(y) = HourOf(f) + 1
      BY <1>4, <2>1, <2>4
    <3>2. \A r \in expr.hours : r <= HourOf(f) \/ r >= HourOf(y)
      BY <1>3, <1>6, <3>1
    <3>3. (n + 1) + HourOf(f) + 1 <= Minutes + HourOf(y) + MinuteOf(y) /\ HourOf(y) > HourOf(f)
      BY <1>1, <1>2, <1>3, <1>4, <2>2, <3>1
    <3>4. OnFirstDay(y, f, n + 1)
      BY <2>3, <3>1, <3>2, <3>3 DEF OnFirstDay
    <3> QED
      BY <1>7, <1>8, <3>4 DEF StepsFew
  <2>5. CASE HourOf(x) = Hours - 1
    <3>1. DayOf(y) = DayOf(f) + 1 /\ HourOf(y) = 0 /\ HourOf(f) = Hours - 1
      BY <1>4, <2>1, <2>5
    <3>2. \A r \in expr.hours : r <= HourOf(f) /\ r >= HourOf(y)
      BY <1>1, <1>6, <3>1
    <3>3. (n + 1) + DayOf(f) + (HourOf(f) + 1) <= DayOf(y) + Hours + HourOf(y) + Minutes + MinuteOf(y) /\ DayOf(y) > DayOf(f)
      BY <1>1, <1>2, <1>3, <1>4, <2>2, <3>1
    <3>4. OnLaterDay(y, f, n + 1)
      BY <2>3, <3>1, <3>2, <3>3 DEF OnLaterDay
    <3> QED
      BY <1>7, <1>8, <3>4 DEF StepsFew
  <2> QED
    BY <1>5, <2>4, <2>5
<1>10. CASE HoursTo(x) # HoursTo(f)
  <2>1. InLaterHour(x) /\ (OnFirstDay(x, f, n) \/ OnLaterDay(x, f, n)) /\ ~MatchesHour(expr, x)
    BY <1>10 DEF StepsFew, InFirstHour
  <2>2. MinuteOf(x) = 0 /\ HourOf(x) \notin expr.hours
    BY <2>1 DEF InLaterHour, MatchesHour
  <2>3. CASE OnFirstDay(x, f, n)
    <3>1. /\ DayOf(x) = DayOf(f) /\ HourOf(x) > HourOf(f) /\ MatchesDate(expr, f)
          /\ \A r \in expr.hours : r <= HourOf(f) \/ r >= HourOf(x)
          /\ n + HourOf(f) + 1 <= Minutes + HourOf(x) + MinuteOf(x)
      BY <2>3 DEF OnFirstDay
    <3>2. \A r \in expr.hours : r <= HourOf(f) \/ r >= HourOf(x) + 1
      BY <1>2, <1>6, <2>2, <3>1
    <3>3. CASE HourOf(x) < Hours - 1
      <4>1. DayOf(y) = DayOf(f) /\ HourOf(y) = HourOf(x) + 1
        BY <1>4, <3>1, <3>3
      <4>2. (n + 1) + HourOf(f) + 1 <= Minutes + HourOf(y) + MinuteOf(y) /\ HourOf(y) > HourOf(f)
        BY <1>1, <1>2, <1>3, <1>4, <2>2, <3>1, <4>1
      <4>3. OnFirstDay(y, f, n + 1)
        BY <3>1, <3>2, <4>1, <4>2 DEF OnFirstDay
      <4> QED
        BY <1>7, <1>8, <4>3 DEF StepsFew
    <3>4. CASE HourOf(x) = Hours - 1
      <4>1. DayOf(y) = DayOf(f) + 1 /\ HourOf(y) = 0
        BY <1>4, <3>1, <3>4
      <4>2. \A r \in expr.hours : r <= HourOf(f) /\ r >= HourOf(y)
        BY <1>1, <1>6, <3>2, <3>4, <4>1
      <4>3. (n + 1) + DayOf(f) + (HourOf(f) + 1) <= DayOf(y) + Hours + HourOf(y) + Minutes + MinuteOf(y) /\ DayOf(y) > DayOf(f)
        BY <1>1, <1>2, <1>3, <1>4, <2>2, <3>1, <3>4, <4>1
      <4>4. OnLaterDay(y, f, n + 1)
        BY <3>1, <4>1, <4>2, <4>3 DEF OnLaterDay
      <4> QED
        BY <1>7, <1>8, <4>4 DEF StepsFew
    <3> QED
      BY <1>5, <3>3, <3>4
  <2>4. CASE OnLaterDay(x, f, n)
    <3> DEFINE k == IF MatchesDate(expr, f) THEN HourOf(f) + 1 ELSE Hours
    <3>1. /\ DayOf(x) > DayOf(f)
          /\ \A r \in expr.hours : r >= HourOf(x)
          /\ MatchesDate(expr, f) => \A r \in expr.hours : r <= HourOf(f)
          /\ n + DayOf(f) + k <= DayOf(x) + Hours + HourOf(x) + Minutes + MinuteOf(x)
      BY <2>4 DEF OnLaterDay
    <3>2. k \in Nat
      BY <1>1, <1>3
    <3> HIDE DEF k
    <3>3. \A r \in expr.hours : r >= HourOf(x) + 1
      BY <1>2, <1>6, <2>2, <3>1
    <3>4. HourOf(x) < Hours - 1
      BY <1>1, <1>2, <1>6, <3>3
    <3>5. DayOf(y) = DayOf(x) /\ HourOf(y) = HourOf(x) + 1
      BY <1>4, <3>4
    <3>6. MatchesDate(expr, y)
      BY <3>5, DateOfDay
    <3>7. (n + 1) + DayOf(f) + k <= DayOf(y) + Hours + HourOf(y) + Minutes + MinuteOf(y)
      BY <1>1, <1>2, <1>3, <1>4, <2>2, <3>1, <3>2, <3>5
    <3>8. OnLaterDay(y, f, n + 1)
      BY <3>1, <3>3, <3>5, <3>6, <3>7 DEF OnLaterDay, k
    <3> QED
      BY <1>7, <1>8, <3>8 DEF StepsFew
  <2> QED
    BY <2>1, <2>3, <2>4
<1> QED
  BY <1>9, <1>10

(* A minute is passed in one step; beyond the first hour it does not match,  *)
(* and so is not the last one of its hour.                                   *)
LEMMA StepsMinute ==
    ASSUME expr \in Exprs, NEW x \in Nat, NEW f \in Nat, NEW n \in Nat, f <= x, StepsFew(x, f, n),
           MatchesDate(expr, x), MatchesHour(expr, x),
           HoursTo(x) > HoursTo(f) => ~MatchesMinute(expr, x)
    PROVE  StepsFew(x + 1, f, n + 1)
<1>1. Minutes \in Nat /\ Minutes > 0 /\ Hours \in Nat /\ Hours > 0
  BY SearchConstants
<1>2. /\ HoursTo(x) \in Nat /\ DayOf(x) \in Nat /\ HourOf(x) \in Nat /\ MinuteOf(x) \in Nat
      /\ HourOf(x) < Hours /\ MinuteOf(x) < Minutes
  BY Digits
<1>3. /\ HoursTo(f) \in Nat /\ DayOf(f) \in Nat /\ HourOf(f) \in Nat /\ MinuteOf(f) \in Nat
      /\ HourOf(f) < Hours /\ MinuteOf(f) < Minutes
  BY Digits
<1> DEFINE y == x + 1
<1>4. /\ MinuteOf(x) < Minutes - 1 =>
            /\ HoursTo(y) = HoursTo(x) /\ DayOf(y) = DayOf(x) /\ HourOf(y) = HourOf(x)
            /\ MinuteOf(y) = MinuteOf(x) + 1
      /\ MinuteOf(x) = Minutes - 1 => y = StartOfNextHour(x)
  BY NextMinuteDigits
<1> HIDE DEF y
<1>5. /\ \A m \in expr.minutes : m \in Nat /\ m < Minutes
      /\ \E m \in expr.minutes : TRUE
  BY ExprFields
<1>6. CASE HoursTo(x) = HoursTo(f)
  <2>1. CASE MinuteOf(x) < Minutes - 1
    <3>1. n + MinuteOf(f) <= MinuteOf(x)
      BY <1>2, <1>3, <1>6 DEF StepsFew, InFirstHour
    <3>2. InFirstHour(y, f, n + 1)
      BY <1>2, <1>3, <1>4, <1>6, <2>1, <3>1 DEF InFirstHour
    <3> QED
      BY <3>2 DEF StepsFew, y
  <2>2. CASE MinuteOf(x) = Minutes - 1
    <3>1. y = StartOfNextHour(x)
      BY <1>4, <2>2
    <3> QED
      BY <1>6, <3>1, StepsHour DEF y
  <2> QED
    BY <1>1, <1>2, <2>1, <2>2
<1>7. CASE HoursTo(x) # HoursTo(f)
  <2>1. HoursTo(x) > HoursTo(f) /\ InLaterHour(x) /\ (OnFirstDay(x, f, n) \/ OnLaterDay(x, f, n))
    BY <1>7 DEF StepsFew, InFirstHour
  <2>2. MinuteOf(x) \notin expr.minutes /\ \A m \in expr.minutes : m >= MinuteOf(x)
    BY <2>1 DEF InLaterHour, MatchesMinute
  <2>3. \A m \in expr.minutes : m >= MinuteOf(x) + 1
    BY <1>2, <1>5, <2>2
  <2>4. MinuteOf(x) < Minutes - 1
    BY <1>1, <1>2, <1>5, <2>3
  <2>5. HoursTo(y) = HoursTo(x) /\ DayOf(y) = DayOf(x) /\ HourOf(y) = HourOf(x) /\ MinuteOf(y) = MinuteOf(x) + 1
    BY <1>4, <2>4
  <2>6. MatchesDate(expr, y) /\ MatchesHour(expr, y)
    BY <2>5, DateOfDay DEF MatchesHour
  <2>7. InLaterHour(y)
    BY <2>3, <2>5, <2>6 DEF InLaterHour
  <2>8. CASE OnFirstDay(x, f, n)
    <3>1. /\ DayOf(x) = DayOf(f) /\ HourOf(x) > HourOf(f) /\ MatchesDate(expr, f)
          /\ \A r \in expr.hours : r <= HourOf(f) \/ r >= HourOf(x)
          /\ n + HourOf(f) + 1 <= Minutes + HourOf(x) + MinuteOf(x)
      BY <2>8 DEF OnFirstDay
    <3>2. (n + 1) + HourOf(f) + 1 <= Minutes + HourOf(y) + MinuteOf(y)
      BY <1>1, <1>2, <1>3, <2>5, <3>1
    <3>3. OnFirstDay(y, f, n + 1)
      BY <2>5, <3>1, <3>2 DEF OnFirstDay
    <3> QED
      BY <2>1, <2>5, <2>7, <3>3 DEF StepsFew, y
  <2>9. CASE OnLaterDay(x, f, n)
    <3> DEFINE k == IF MatchesDate(expr, f) THEN HourOf(f) + 1 ELSE Hours
    <3>1. /\ DayOf(x) > DayOf(f)
          /\ \A r \in expr.hours : r >= HourOf(x)
          /\ MatchesDate(expr, f) => \A r \in expr.hours : r <= HourOf(f)
          /\ n + DayOf(f) + k <= DayOf(x) + Hours + HourOf(x) + Minutes + MinuteOf(x)
      BY <2>9 DEF OnLaterDay
    <3>2. k \in Nat
      BY <1>1, <1>3
    <3> HIDE DEF k
    <3>3. (n + 1) + DayOf(f) + k <= DayOf(y) + Hours + HourOf(y) + Minutes + MinuteOf(y)
      BY <1>1, <1>2, <1>3, <2>5, <3>1, <3>2
    <3>4. OnLaterDay(y, f, n + 1)
      BY <2>5, <2>6, <3>1, <3>3 DEF OnLaterDay, k
    <3> QED
      BY <2>1, <2>5, <2>7, <3>4 DEF StepsFew, y
  <2> QED
    BY <2>1, <2>8, <2>9
<1> QED
  BY <1>6, <1>7

(* Within the horizon a search takes at most one step for every day, one for *)
(* every hour of a day and two for every minute of an hour.                  *)
LEMMA StepsBound ==
    ASSUME expr \in Exprs, NEW x \in Civil, NEW f \in Nat, NEW n \in Nat, StepsFew(x, f, n)
    PROVE  n < Days + Hours + 2 * Minutes
<1>1. Minutes \in Nat /\ Minutes > 0 /\ Hours \in Nat /\ Hours > 0 /\ Days \in Nat /\ Days > 0
  BY SearchConstants
<1>2. x \in Nat /\ DayOf(x) < Days
  BY DayInHorizon
<1>3. DayOf(x) \in Nat /\ HourOf(x) \in Nat /\ MinuteOf(x) \in Nat /\ HourOf(x) < Hours /\ MinuteOf(x) < Minutes
  BY <1>2, Digits
<1>4. DayOf(f) \in Nat /\ HourOf(f) \in Nat /\ MinuteOf(f) \in Nat
  BY Digits
<1>5. CASE InFirstHour(x, f, n)
  BY <1>1, <1>3, <1>4, <1>5 DEF InFirstHour
<1>6. CASE OnFirstDay(x, f, n)
  BY <1>1, <1>3, <1>4, <1>6 DEF OnFirstDay
<1>7. CASE OnLaterDay(x, f, n)
  <2>1. CASE MatchesDate(expr, f)
    <3>1. n + DayOf(f) + (HourOf(f) + 1) <= DayOf(x) + Hours + HourOf(x) + Minutes + MinuteOf(x)
      BY <1>7, <2>1 DEF OnLaterDay
    <3>2. (\A r \in expr.hours : r <= HourOf(f) /\ r >= HourOf(x)) /\ (\E r \in expr.hours : TRUE) /\ (\A r \in expr.hours : r \in Nat)
      BY <1>7, <2>1, ExprFields DEF OnLaterDay
    <3>3. HourOf(x) <= HourOf(f)
      BY <1>3, <1>4, <3>2
    <3> QED
      BY <1>1, <1>2, <1>3, <1>4, <3>1, <3>3
  <2>2. CASE ~MatchesDate(expr, f)
    <3>1. n + DayOf(f) + Hours <= DayOf(x) + Hours + HourOf(x) + Minutes + MinuteOf(x)
      BY <1>7, <2>2 DEF OnLaterDay
    <3> QED
      BY <1>1, <1>2, <1>3, <1>4, <3>1
  <2> QED
    BY <2>1, <2>2
<1> QED
  BY <1>5, <1>6, <1>7 DEF StepsFew

-----------------------------------------------------------------------------
(* CronSearch: the zone.                                                     *)

(* What the zone answers.                                                    *)
LEMMA ZoneAnswers ==
    ASSUME zone \in Zones, NEW t \in Nat
    PROVE  /\ CivilOf(zone, t) = IF zone.kind = "gap" /\ t >= Minutes THEN t + Shift
                                 ELSE IF zone.kind = "fold" /\ t >= Minutes + Shift THEN t - Shift ELSE t
           /\ Compatible(zone, t) = IF zone.kind = "gap" /\ t >= Minutes + Shift THEN t - Shift
                                    ELSE IF zone.kind = "fold" /\ t >= Minutes + Shift THEN t + Shift ELSE t
           /\ CivilOf(zone, t) \in Nat /\ Compatible(zone, t) \in Nat
<1>1. zone.kind \in {"fixed", "gap", "fold"} /\ Minutes \in Nat /\ Shift \in Nat
  BY SearchConstants, ZoneFacts
<1>2. CASE zone.kind = "fixed"
  BY <1>1, <1>2 DEF CivilOf, Compatible, Transition, Shift
<1>3. CASE zone.kind = "gap"
  BY <1>1, <1>3 DEF CivilOf, Compatible, Transition, Shift
<1>4. CASE zone.kind = "fold"
  BY <1>1, <1>4 DEF CivilOf, Compatible, Transition, Shift
<1> QED
  BY <1>1, <1>2, <1>3, <1>4

(* No firing after the cursor is before the minute the search begins at, but *)
(* for one in a gap the cursor is already beyond.                            *)
LEMMA BeginsAhead ==
    ASSUME zone \in Zones, NEW t \in Nat, NEW c \in Nat, Compatible(zone, c) > t,
           ~InGap(zone, c) \/ t < Transition
    PROVE  c >= CivilOf(zone, t) + 1
<1>1. Minutes \in Nat /\ Shift \in Nat
  BY SearchConstants, ZoneFacts
<1>2. CivilOf(zone, t) = IF zone.kind = "gap" /\ t >= Minutes THEN t + Shift
                         ELSE IF zone.kind = "fold" /\ t >= Minutes + Shift THEN t - Shift ELSE t
  BY ZoneAnswers
<1>3. Compatible(zone, c) = IF zone.kind = "gap" /\ c >= Minutes + Shift THEN c - Shift
                            ELSE IF zone.kind = "fold" /\ c >= Minutes + Shift THEN c + Shift ELSE c
  BY ZoneAnswers
<1>4. InGap(zone, c) <=> zone.kind = "gap" /\ Minutes <= c /\ c < Minutes + Shift
  BY DEF InGap, Transition, Shift
<1>5. ~InGap(zone, c) \/ t < Minutes
  BY DEF Transition
<1> QED
  BY <1>1, <1>2, <1>3, <1>4, <1>5

(* The hour of the transition.                                               *)
LEMMA HourOfTransition ==
    ASSUME NEW x \in Nat, Minutes <= x, x < Minutes + Minutes
    PROVE  HoursTo(x) = 1
<1>1. Minutes \in Nat /\ Minutes > 0
  BY SearchConstants
<1> DEFINE r == x - Minutes
<1>2. x \in Int /\ 1 \in Int /\ r \in Int /\ 0 <= r /\ r < Minutes /\ x = 1 * Minutes + r
  BY <1>1
<1> HIDE DEF r
<1>3. x \div Minutes = 1
  BY <1>1, <1>2
<1> QED
  BY <1>3 DEF HoursTo

(* Beyond its first hour a search meets no minute whose instant is past: the *)
(* repeated part of a fold is within one hour, or behind.                    *)
LEMMA LaterHourFires ==
    ASSUME zone \in Zones, cursor \in Nat, NEW x \in Nat, NEW f \in Nat, f = CivilOf(zone, cursor) + 1,
           NEW g \in Nat, f <= g, g <= x, Ahead(g), HoursTo(x) > HoursTo(g)
    PROVE  Compatible(zone, x) > cursor
<1>1. Minutes \in Nat /\ Minutes > 0 /\ Shift \in Nat
  BY SearchConstants, ZoneFacts
<1>2. f = (IF zone.kind = "gap" /\ cursor >= Minutes THEN cursor + Shift
           ELSE IF zone.kind = "fold" /\ cursor >= Minutes + Shift THEN cursor - Shift ELSE cursor) + 1
  BY ZoneAnswers
<1>3. Compatible(zone, x) = IF zone.kind = "gap" /\ x >= Minutes + Shift THEN x - Shift
                            ELSE IF zone.kind = "fold" /\ x >= Minutes + Shift THEN x + Shift ELSE x
  BY ZoneAnswers
<1>4. CASE zone.kind = "fold" /\ cursor >= Minutes + Shift /\ x < Minutes + Shift
  <2>1. Shift <= Minutes
    BY <1>1, <1>4 DEF Ahead, LongFold, Transition
  <2>2. g >= Minutes /\ g < Minutes + Minutes /\ x >= Minutes /\ x < Minutes + Minutes
    BY <1>1, <1>2, <1>4, <2>1
  <2>3. HoursTo(x) = 1 /\ HoursTo(g) = 1
    BY <2>2, HourOfTransition
  <2> QED
    BY <2>3
<1>5. CASE ~(zone.kind = "fold" /\ cursor >= Minutes + Shift /\ x < Minutes + Shift)
  BY <1>1, <1>2, <1>3, <1>5
<1> QED
  BY <1>4, <1>5

(* A step of the search is a step of the search that goes on from g; out of  *)
(* what is repeated, a new one begins.                                       *)
LEMMA TakesStep ==
    ASSUME zone \in Zones, NEW x \in Nat, NEW f \in Nat, NEW n \in Nat, f <= x, StepsTaken(x, f, n),
           cursor \in Nat, NEW y \in Nat, y > x,
           \A g, m \in Nat : f <= g /\ g <= x /\ Ahead(g) /\ StepsFew(x, g, m) => StepsFew(y, g, m + 1)
    PROVE  StepsTaken(y, f, n + 1)
<1>1. Minutes \in Nat /\ Minutes > 0 /\ Shift \in Nat /\ Transition = Minutes
  BY SearchConstants, ZoneFacts DEF Transition
<1>2. CASE Repeats(x, f, n)
  <2>1. LongFold /\ f > Minutes /\ x < Minutes + Shift /\ n <= x - f
    BY <1>1, <1>2 DEF Repeats
  <2>2. CASE y < Minutes + Shift
    <3>1. n + 1 <= y - f
      BY <2>1
    <3>2. Repeats(y, f, n + 1)
      BY <1>1, <2>1, <2>2, <3>1 DEF Repeats
    <3> QED
      BY <3>2 DEF StepsTaken
  <2>3. CASE ~(y < Minutes + Shift)
    <3>1. n + 1 \in Nat /\ n + 1 <= Shift /\ y >= Minutes + Shift /\ f <= y /\ (n + 1) - (n + 1) = 0
      BY <1>1, <2>1, <2>3
    <3>2. StepsFew(y, y, 0)
      <4>1. MinuteOf(y) \in Nat
        BY Digits
      <4> QED
        BY <4>1 DEF StepsFew, InFirstHour
    <3>3. Ahead(y)
      BY <1>1, <3>1 DEF Ahead
    <3>4. GoesOn(y, f, n + 1, y, n + 1)
      BY <2>1, <3>1, <3>2, <3>3 DEF GoesOn
    <3> QED
      BY <3>1, <3>4 DEF StepsTaken
  <2> QED
    BY <2>2, <2>3
<1>3. CASE \E g, k \in Nat : GoesOn(x, f, n, g, k)
  <2>1. PICK g \in Nat, k \in Nat : GoesOn(x, f, n, g, k)
    BY <1>3
  <2>2. f <= g /\ g <= x /\ k <= n /\ (k = 0 \/ (LongFold /\ k <= Shift)) /\ Ahead(g) /\ StepsFew(x, g, n - k)
    BY <2>1 DEF GoesOn
  <2> DEFINE m == n - k
  <2>3. m \in Nat /\ (n + 1) - k = m + 1 /\ k <= n + 1 /\ g <= y
    BY <2>2
  <2>4. StepsFew(x, g, m)
    BY <2>2
  <2> HIDE DEF m
  <2>5. StepsFew(y, g, m + 1)
    BY <2>2, <2>3, <2>4
  <2>6. GoesOn(y, f, n + 1, g, k)
    BY <2>2, <2>3, <2>5 DEF GoesOn
  <2> QED
    BY <2>6 DEF StepsTaken
<1> QED
  BY <1>2, <1>3 DEF StepsTaken

(* Civil times outside a gap are in the order of their instants.             *)
LEMMA InOrder ==
    ASSUME zone \in Zones, NEW x \in Nat, NEW c \in Nat, x <= c, ~InGap(zone, x), ~InGap(zone, c),
           Compatible(zone, c) <= Compatible(zone, x)
    PROVE  c = x
<1>1. Minutes \in Nat /\ Shift \in Nat
  BY SearchConstants, ZoneFacts
<1>2. Compatible(zone, x) = IF zone.kind = "gap" /\ x >= Minutes + Shift THEN x - Shift
                            ELSE IF zone.kind = "fold" /\ x >= Minutes + Shift THEN x + Shift ELSE x
  BY ZoneAnswers
<1>3. Compatible(zone, c) = IF zone.kind = "gap" /\ c >= Minutes + Shift THEN c - Shift
                            ELSE IF zone.kind = "fold" /\ c >= Minutes + Shift THEN c + Shift ELSE c
  BY ZoneAnswers
<1>4. \A y \in Nat : InGap(zone, y) <=> zone.kind = "gap" /\ Minutes <= y /\ y < Minutes + Shift
  BY DEF InGap, Transition, Shift
<1> QED
  BY <1>1, <1>2, <1>3, <1>4

-----------------------------------------------------------------------------
(* CronSearch: the steps.                                                    *)

(* The bound on the steps allows for every day of the horizon, every hour of *)
(* one day, every minute of two hours and, when a fold is longer than an     *)
(* hour, for what it repeats.  That of cron.rs does for the four years its   *)
(* comment names, less the minutes of such a fold in days.                   *)
StepsEnough ==
    /\ StepMax >= Days + Hours + 2 * Minutes
    /\ \A z \in Zones : z.kind = "fold" /\ z.shift > Minutes => StepMax >= Days + Hours + 2 * Minutes + z.shift

(* The steps of a search within the horizon are fewer than the bound.        *)
LEMMA TakenBound ==
    ASSUME StepsEnough, expr \in Exprs, zone \in Zones, NEW x \in Civil, NEW f \in Nat, NEW n \in Nat, f <= x, StepsTaken(x, f, n)
    PROVE  n < StepMax
<1>1. /\ Minutes \in Nat /\ Minutes > 0 /\ Hours \in Nat /\ Hours > 0 /\ Days \in Nat /\ Days > 0 /\ StepMax \in Nat
      /\ Shift \in Nat /\ Transition = Minutes
  BY SearchConstants, ZoneFacts DEF Transition
<1>2. x \in Nat
  BY DayInHorizon
<1>3. /\ StepMax >= Days + Hours + 2 * Minutes
      /\ LongFold => StepMax >= Days + Hours + 2 * Minutes + Shift
  BY DEF StepsEnough, LongFold, Shift
<1>4. CASE Repeats(x, f, n)
  BY <1>1, <1>2, <1>3, <1>4 DEF Repeats
<1>5. CASE \E g, k \in Nat : GoesOn(x, f, n, g, k)
  <2>1. PICK g \in Nat, k \in Nat : GoesOn(x, f, n, g, k)
    BY <1>5
  <2>2. k <= n /\ (k = 0 \/ (LongFold /\ k <= Shift)) /\ StepsFew(x, g, n - k)
    BY <2>1 DEF GoesOn
  <2> DEFINE m == n - k
  <2>3. m \in Nat /\ n = m + k
    BY <2>2
  <2>4. StepsFew(x, g, m)
    BY <2>2
  <2> HIDE DEF m
  <2>5. m < Days + Hours + 2 * Minutes
    BY <2>3, <2>4, StepsBound
  <2> QED
    BY <1>1, <1>3, <2>2, <2>3, <2>5
<1> QED
  BY <1>4, <1>5 DEF StepsTaken

(* Within a gap of a whole hour the minutes are those of the hour after it.  *)
LEMMA GapMirrors ==
    ASSUME Shift = Minutes, zone \in Zones, NEW x \in Nat, InGap(zone, x), Matches(expr, x),
           NEW c \in Nat, ~InGap(zone, c), MatchesMinute(expr, c), x <= c, Compatible(zone, c) < x,
           NEW y, y = c - Shift
    PROVE  y \in Nat /\ y < x /\ Compatible(zone, y) = y /\ y = Compatible(zone, c) /\ Matches(expr, y) /\ y < c
<1>1. Minutes \in Nat /\ Minutes > 0 /\ Shift = Minutes /\ zone.kind = "gap"
  BY SearchConstants DEF InGap
<1>2. Minutes <= x /\ x < Minutes + Minutes
  BY <1>1 DEF InGap, Transition, Shift
<1>3. Compatible(zone, c) = IF c >= Minutes + Minutes THEN c - Minutes ELSE c
  BY <1>1, ZoneAnswers
<1>4. ~(Minutes <= c /\ c < Minutes + Minutes)
  BY <1>1 DEF InGap, Transition, Shift
<1>5. c >= Minutes + Minutes /\ y \in Nat /\ Minutes <= y /\ y < x /\ y = Compatible(zone, c) /\ y < c
  BY <1>1, <1>2, <1>3, <1>4
<1>6. Compatible(zone, y) = y
  <2>1. Compatible(zone, y) = IF y >= Minutes + Minutes THEN y - Minutes ELSE y
    BY <1>1, <1>5, ZoneAnswers
  <2> QED
    BY <1>1, <1>2, <1>5, <2>1
<1>7. HoursTo(y) = HoursTo(x)
  <2>1. HoursTo(x) = 1
    BY <1>2, HourOfTransition
  <2>2. y < Minutes + Minutes
    BY <1>1, <1>2, <1>5
  <2>3. HoursTo(y) = 1
    BY <1>5, <2>2, HourOfTransition
  <2> QED
    BY <2>1, <2>3
<1>8. DayOf(y) = DayOf(x) /\ HourOf(y) = HourOf(x)
  BY <1>5, <1>7, HoursGiveDay
<1>9. MinuteOf(y) = MinuteOf(c)
  <2>1. /\ y \div Minutes \in Int /\ y % Minutes \in Int /\ 0 <= y % Minutes /\ y % Minutes < Minutes
        /\ y = (y \div Minutes) * Minutes + (y % Minutes)
    BY <1>1, <1>5, Divided
  <2> DEFINE q == y \div Minutes
  <2> DEFINE r == y % Minutes
  <2>2. q \in Int /\ r \in Int /\ 0 <= r /\ r < Minutes /\ y = q * Minutes + r
    BY <2>1
  <2> HIDE DEF q, r
  <2> DEFINE q1 == q + 1
  <2>3. c = q1 * Minutes + r /\ q1 \in Int /\ c \in Int
    <3>1. (q + 1) * Minutes = q * Minutes + Minutes /\ q * Minutes \in Int
      BY <1>1, <2>2
    <3> QED
      BY <1>1, <1>5, <2>2, <3>1
  <2> HIDE DEF q1
  <2>a. Minutes \in Nat /\ Minutes > 0 /\ 0 <= r /\ r < Minutes /\ r \in Int
    BY <1>1, <2>2
  <2>4. c % Minutes = r
    BY <2>3, <2>a
  <2> QED
    BY <2>4 DEF MinuteOf, r
<1>10. Matches(expr, y)
  <2>1. MatchesDate(expr, y)
    BY <1>8, DateOfDay DEF Matches
  <2>2. MatchesHour(expr, y) /\ MatchesMinute(expr, y)
    BY <1>8, <1>9 DEF Matches, MatchesHour, MatchesMinute
  <2> QED
    BY <2>1, <2>2 DEF Matches
<1> QED
  BY <1>5, <1>6, <1>10

(* The search begins before any firing.                                      *)
LEMMA SearchInitInv == SearchInit => SearchInv
<1> SUFFICES ASSUME SearchInit PROVE SearchInv
  OBVIOUS
<1>1. Minutes \in Nat /\ StepMax \in Nat /\ Shift \in Nat
  BY SearchConstants, ZoneFacts DEF SearchInit
<1>2. start \in Nat /\ cursor = start /\ found = {} /\ searchPc = "next" /\ steps = 0 /\ candidate = 0 /\ expr \in Exprs /\ zone \in Zones
  BY <1>1 DEF SearchInit, Shift, Transition
<1>3. SearchTyped
  BY <1>1, <1>2 DEF SearchTyped, SearchTypeOK
<1>4. OnlyFirings
  BY <1>2 DEF OnlyFirings
<1>5. Covered
  <2> SUFFICES ASSUME NEW c \in Matching, Compatible(zone, c) > start, Compatible(zone, c) <= cursor PROVE FALSE
    BY DEF Covered, FallsDue
  <2>1. c \in Nat
    BY DayInHorizon DEF Matching
  <2>2. Compatible(zone, c) \in Nat
    BY <1>2, <2>1, ZoneAnswers
  <2> QED
    BY <1>2, <2>2
<1> QED
  BY <1>2, <1>3, <1>4, <1>5 DEF SearchInv

(* The invariant says what the property does.                                *)
LEMMA SearchInvImplies == SearchInv => SearchSound
<1> SUFFICES ASSUME SearchInv PROVE SearchSound
  OBVIOUS
<1>1. NoFiringPassedOver
  BY DEF SearchInv, Covered, AllFound, NoFiringPassedOver
<1> QED
  BY <1>1 DEF SearchInv, SearchTyped, SearchSound

(* The steps taken depend on the search's own variables.                     *)
LEMMA TakenStays ==
    ASSUME expr' = expr, zone' = zone, cursor' = cursor, NEW x, NEW f, NEW n, StepsTaken(x, f, n)
    PROVE  StepsTaken(x, f, n)'
<1>1. LongFold' = LongFold /\ Shift' = Shift /\ \A g : Ahead(g)' = Ahead(g)
  BY DEF LongFold, Shift, Ahead
<1>2. \A g, m : StepsFew(x, g, m)' = StepsFew(x, g, m)
  BY DEF StepsFew, InFirstHour, InLaterHour, OnFirstDay, OnLaterDay
<1> QED
  BY <1>1, <1>2 DEF StepsTaken, Repeats, GoesOn

(* preview: a new search begins after the last firing.                       *)
LEMMA BeginSearchStep == ASSUME SearchInv, BeginSearch PROVE SearchInv'
<1>1. /\ searchPc = "next" /\ searchPc' = "search" /\ candidate' = First /\ steps' = 0
      /\ expr' = expr /\ zone' = zone /\ start' = start /\ cursor' = cursor /\ found' = found
  BY DEF BeginSearch, First
<1>2. expr \in Exprs /\ zone \in Zones /\ start \in Nat /\ cursor \in Nat /\ start <= cursor /\ found \subseteq Nat /\ StepMax \in Nat
  BY SearchConstants DEF SearchInv, SearchTyped, SearchTypeOK
<1>3. First \in Nat
  BY <1>2, ZoneAnswers DEF First
<1>4. First' = First /\ Matching' = Matching /\ \A c : FallsDue(c)' = FallsDue(c)
  BY <1>1 DEF First, Matching, FallsDue, Overtaken
<1>5. SearchTyped'
  BY <1>1, <1>2, <1>3 DEF SearchTyped, SearchTypeOK
<1>6. OnlyFirings'
  BY <1>1, <1>4 DEF SearchInv, OnlyFirings, Firings
<1>7. Covered'
  BY <1>1, <1>4 DEF SearchInv, Covered
<1>8. NoneBehind'
  <2>1. \A c \in Matching : Compatible(zone, c) > cursor /\ (~InGap(zone, c) \/ cursor < Transition) => c >= First
    <3> TAKE c \in Matching
    <3>1. c \in Nat
      BY DayInHorizon DEF Matching
    <3> QED
      BY <1>2, <3>1, BeginsAhead DEF First
  <2>2. First >= First
    BY <1>3
  <2> QED
    BY <1>1, <1>4, <2>1, <2>2 DEF NoneBehind
<1>9. StepsTaken(First, First, 0)
  <2>1. MinuteOf(First) \in Nat
    BY <1>3, Digits
  <2>2. StepsFew(First, First, 0)
    BY <2>1 DEF StepsFew, InFirstHour
  <2>3. Minutes \in Nat /\ Shift \in Nat /\ Transition = Minutes
    BY <1>2, SearchConstants, ZoneFacts DEF Transition
  <2>4. CASE LongFold /\ cursor >= Minutes + Shift /\ First < Minutes + Shift
    <3>1. First > Minutes /\ 0 <= First - First
      <4>1. First = cursor - Shift + 1
        BY <1>2, <2>4, ZoneAnswers DEF First, LongFold
      <4> QED
        BY <1>2, <1>3, <2>3, <2>4, <4>1
    <3> QED
      BY <2>3, <2>4, <3>1 DEF StepsTaken, Repeats
  <2>5. CASE ~(LongFold /\ cursor >= Minutes + Shift /\ First < Minutes + Shift)
    <3>1. Ahead(First)
      BY <1>2, <1>3, <2>3, <2>5 DEF Ahead
    <3>2. GoesOn(First, First, 0, First, 0)
      BY <1>3, <2>2, <3>1 DEF GoesOn
    <3> QED
      BY <1>3, <3>2 DEF StepsTaken
  <2> QED
    BY <2>4, <2>5
<1>10. StepsTaken(candidate, First, steps)'
  BY <1>1, <1>4, <1>9, TakenStays
<1> QED
  BY <1>1, <1>5, <1>6, <1>7, <1>8, <1>10 DEF SearchInv

(* A step of the search over minutes that do not fire.                       *)
LEMMA StepKeeps ==
    ASSUME SearchInv, Searching, NEW next \in Nat, Step(next), next > candidate,
           \A c \in Matching : Compatible(zone, c) > cursor /\ c >= candidate => c >= next,
           StepsTaken(next, First, steps + 1)
    PROVE  SearchInv'
<1>1. /\ searchPc = "search" /\ searchPc' = "search" /\ candidate' = next /\ steps' = steps + 1 /\ steps < StepMax
      /\ expr' = expr /\ zone' = zone /\ start' = start /\ cursor' = cursor /\ found' = found
  BY DEF Step, Searching
<1>2. /\ expr \in Exprs /\ zone \in Zones /\ start \in Nat /\ cursor \in Nat /\ start <= cursor /\ found \subseteq Nat
      /\ StepMax \in Nat /\ steps \in 0..StepMax /\ candidate \in Nat
  BY SearchConstants DEF SearchInv, SearchTyped, SearchTypeOK
<1>3. First \in Nat
  BY <1>2, ZoneAnswers DEF First
<1>4. First' = First /\ Matching' = Matching /\ \A c : FallsDue(c)' = FallsDue(c)
  BY <1>1 DEF First, Matching, FallsDue, Overtaken
<1>5. SearchTyped'
  BY <1>1, <1>2 DEF SearchTyped, SearchTypeOK
<1>6. OnlyFirings'
  BY <1>1, <1>4 DEF SearchInv, OnlyFirings, Firings
<1>7. Covered'
  BY <1>1, <1>4 DEF SearchInv, Covered
<1>8. NoneBehind'
  <2>1. NoneBehind
    BY <1>1 DEF SearchInv
  <2>2. \A c \in Matching : Compatible(zone, c) > cursor /\ (~InGap(zone, c) \/ cursor < Transition) => c >= next
    BY <2>1 DEF NoneBehind
  <2>3. next >= First
    BY <1>2, <1>3, <2>1 DEF NoneBehind
  <2> QED
    BY <1>1, <1>4, <2>2, <2>3 DEF NoneBehind
<1>9. StepsTaken(candidate, First, steps)'
  BY <1>1, <1>4, TakenStays
<1> QED
  BY <1>1, <1>5, <1>6, <1>7, <1>8, <1>9 DEF SearchInv

(* What a search that goes on knows.                                         *)
LEMMA WhileSearching ==
    ASSUME SearchInv, Searching
    PROVE  /\ expr \in Exprs /\ zone \in Zones /\ candidate \in Nat /\ candidate \in Civil /\ steps \in Nat
           /\ cursor \in Nat /\ First \in Nat /\ First <= candidate /\ StepsTaken(candidate, First, steps)
<1>1. /\ expr \in Exprs /\ zone \in Zones /\ candidate \in Nat /\ cursor \in Nat /\ steps \in 0..StepMax /\ StepMax \in Nat
  BY SearchConstants DEF SearchInv, SearchTyped, SearchTypeOK
<1>2. First \in Nat
  BY <1>1, ZoneAnswers DEF First
<1>3. candidate \in Civil /\ candidate >= First /\ StepsTaken(candidate, First, steps)
  BY DEF Searching, SearchInv, NoneBehind
<1> QED
  BY <1>1, <1>2, <1>3

(* No minute of a day of another date matches.                               *)
LEMMA SkipDayStep == ASSUME SearchInv, SkipDay PROVE SearchInv'
<1> DEFINE next == StartOfNextDay(candidate)
<1>1. Searching /\ ~MatchesDate(expr, candidate) /\ Step(next)
  BY DEF SkipDay
<1>2. /\ expr \in Exprs /\ zone \in Zones /\ candidate \in Nat /\ steps \in Nat /\ cursor \in Nat
      /\ First \in Nat /\ First <= candidate /\ StepsTaken(candidate, First, steps)
  BY <1>1, WhileSearching
<1>3. next \in Nat /\ next > candidate
  BY <1>2, NextDayDigits
<1>4. \A c \in Matching : Compatible(zone, c) > cursor /\ c >= candidate => c >= next
  <2> SUFFICES ASSUME NEW c \in Matching, c >= candidate, ~(c >= next) PROVE FALSE
    OBVIOUS
  <2>1. c \in Nat /\ MatchesDate(expr, c)
    BY DayInHorizon DEF Matching, Matches
  <2>2. candidate <= c /\ c < next
    BY <1>2, <1>3, <2>1
  <2>3. DayOf(c) = DayOf(candidate)
    BY <1>2, <2>1, <2>2, SameDay
  <2> QED
    BY <1>1, <2>1, <2>3, DateOfDay
<1>5. StepsTaken(next, First, steps + 1)
  <2>1. \A g, m \in Nat : First <= g /\ g <= candidate /\ Ahead(g) /\ StepsFew(candidate, g, m) => StepsFew(next, g, m + 1)
    BY <1>1, <1>2, StepsDay
  <2> HIDE DEF next
  <2> QED
    BY <1>2, <1>3, <2>1, TakesStep
<1> HIDE DEF next
<1> QED
  BY <1>1, <1>3, <1>4, <1>5, StepKeeps

(* No minute of an hour that does not match does.                            *)
LEMMA SkipHourStep == ASSUME SearchInv, SkipHour PROVE SearchInv'
<1> DEFINE next == StartOfNextHour(candidate)
<1>1. Searching /\ MatchesDate(expr, candidate) /\ ~MatchesHour(expr, candidate) /\ Step(next)
  BY DEF SkipHour
<1>2. /\ expr \in Exprs /\ zone \in Zones /\ candidate \in Nat /\ steps \in Nat /\ cursor \in Nat
      /\ First \in Nat /\ First <= candidate /\ StepsTaken(candidate, First, steps)
  BY <1>1, WhileSearching
<1>3. next \in Nat /\ next > candidate
  BY <1>2, NextHourDigits
<1>4. \A c \in Matching : Compatible(zone, c) > cursor /\ c >= candidate => c >= next
  <2> SUFFICES ASSUME NEW c \in Matching, c >= candidate, ~(c >= next) PROVE FALSE
    OBVIOUS
  <2>1. c \in Nat /\ MatchesHour(expr, c)
    BY DayInHorizon DEF Matching, Matches
  <2>2. candidate <= c /\ c < next
    BY <1>2, <1>3, <2>1
  <2>3. HourOf(c) = HourOf(candidate)
    BY <1>2, <2>1, <2>2, SameHour
  <2> QED
    BY <1>1, <2>1, <2>3 DEF MatchesHour
<1>5. StepsTaken(next, First, steps + 1)
  <2>1. \A g, m \in Nat : First <= g /\ g <= candidate /\ Ahead(g) /\ StepsFew(candidate, g, m) => StepsFew(next, g, m + 1)
    BY <1>1, <1>2, StepsHour
  <2> HIDE DEF next
  <2> QED
    BY <1>2, <1>3, <2>1, TakesStep
<1> HIDE DEF next
<1> QED
  BY <1>1, <1>3, <1>4, <1>5, StepKeeps

(* A minute that does not match, or whose instant is past.                   *)
LEMMA SkipMinuteStep == ASSUME SearchInv, SkipMinute PROVE SearchInv'
<1> DEFINE next == candidate + 1
<1>1. /\ Searching /\ MatchesDate(expr, candidate) /\ MatchesHour(expr, candidate) /\ Step(next)
      /\ ~MatchesMinute(expr, candidate) \/ Compatible(zone, candidate) <= cursor
  BY DEF SkipMinute
<1>2. /\ expr \in Exprs /\ zone \in Zones /\ candidate \in Nat /\ steps \in Nat /\ cursor \in Nat
      /\ First \in Nat /\ First <= candidate /\ StepsTaken(candidate, First, steps)
  BY <1>1, WhileSearching
<1>3. next \in Nat /\ next > candidate
  BY <1>2
<1>a. Compatible(zone, candidate) \in Nat
  BY <1>2, ZoneAnswers
<1>4. \A c \in Matching : Compatible(zone, c) > cursor /\ c >= candidate => c >= next
  <2> SUFFICES ASSUME NEW c \in Matching, Compatible(zone, c) > cursor, c >= candidate, ~(c >= next) PROVE FALSE
    OBVIOUS
  <2>1. c \in Nat /\ MatchesMinute(expr, c)
    BY DayInHorizon DEF Matching, Matches
  <2>2. c = candidate
    BY <1>2, <2>1
  <2> QED
    BY <1>1, <1>2, <1>a, <2>1, <2>2
<1>5. StepsTaken(next, First, steps + 1)
  <2>1. ASSUME NEW g \in Nat, NEW m \in Nat, First <= g, g <= candidate, Ahead(g), StepsFew(candidate, g, m)
        PROVE  StepsFew(next, g, m + 1)
    <3>1. HoursTo(candidate) > HoursTo(g) => ~MatchesMinute(expr, candidate)
      <4> SUFFICES ASSUME HoursTo(candidate) > HoursTo(g) PROVE ~MatchesMinute(expr, candidate)
        OBVIOUS
      <4>1. Compatible(zone, candidate) > cursor
        BY <1>2, <2>1, LaterHourFires DEF First
      <4> QED
        BY <1>1, <1>2, <1>a, <4>1
    <3> QED
      BY <1>1, <1>2, <2>1, <3>1, StepsMinute
  <2> HIDE DEF next
  <2> QED
    BY <1>2, <1>3, <2>1, TakesStep
<1> HIDE DEF next
<1> QED
  BY <1>1, <1>3, <1>4, <1>5, StepKeeps

(* A firing: every one before it that is due has been found, also when it is *)
(* one of a gap: if that is an hour long the minutes after it have the same  *)
(* instants, and otherwise those it overtakes are not due.                   *)
LEMMA HitStep == ASSUME SearchInv, Hit PROVE SearchInv'
<1> DEFINE x == candidate
<1> DEFINE fires == Compatible(zone, x)
<1>1. /\ Searching /\ Matches(expr, x) /\ fires > cursor /\ cursor' = fires /\ found' = found \cup {fires}
      /\ searchPc' = "next" /\ expr' = expr /\ zone' = zone /\ start' = start /\ candidate' = candidate /\ steps' = steps
  BY DEF Hit
<1>2. /\ expr \in Exprs /\ zone \in Zones /\ start \in Nat /\ cursor \in Nat /\ start <= cursor /\ found \subseteq Nat
      /\ StepMax \in Nat /\ steps \in 0..StepMax /\ candidate \in Nat
  BY SearchConstants DEF SearchInv, SearchTyped, SearchTypeOK
<1>3. fires \in Nat /\ fires > start
  <2>1. fires \in Nat
    BY <1>2, ZoneAnswers
  <2> HIDE DEF fires
  <2> QED
    BY <1>1, <1>2, <2>1
<1>4. Matching' = Matching /\ Firings' = Firings /\ \A c : FallsDue(c)' = FallsDue(c)
  BY <1>1 DEF Matching, Firings, FallsDue, Overtaken
<1>5. x \in Matching /\ fires \in Firings
  BY <1>1 DEF Searching, Matching, Firings
<1>6. NoneBehind /\ Covered /\ OnlyFirings
  BY <1>1 DEF SearchInv, Searching
<1>7. SearchTyped'
  <2> HIDE DEF fires
  <2> QED
    BY <1>1, <1>2, <1>3 DEF SearchTyped, SearchTypeOK
<1>8. OnlyFirings'
  <2>1. \A g \in found : g \in Firings /\ g > start /\ g <= cursor /\ g \in Nat
    BY <1>2, <1>6 DEF OnlyFirings
  <2> HIDE DEF fires
  <2>2. \A g \in found : g <= fires
    BY <1>1, <1>2, <1>3, <2>1
  <2> QED
    BY <1>1, <1>3, <1>4, <1>5, <2>1, <2>2 DEF OnlyFirings
<1>9. ASSUME NEW c \in Matching, FallsDue(c), Compatible(zone, c) <= fires
      PROVE  Compatible(zone, c) \in found'
  <2>a. ~InGap(zone, c) /\ Compatible(zone, c) > start
    BY <1>9 DEF FallsDue
  <2>1. c \in Nat /\ MatchesMinute(expr, c) /\ c \in Civil
    BY DayInHorizon DEF Matching, Matches
  <2>2. Compatible(zone, c) \in Nat
    BY <1>2, <2>1, ZoneAnswers
  <2>3. CASE Compatible(zone, c) <= cursor
    BY <1>1, <1>6, <1>9, <2>3 DEF Covered
  <2>4. CASE Compatible(zone, c) > cursor
    <3>1. x <= c
      BY <1>2, <1>6, <2>a, <2>1, <2>4 DEF NoneBehind
    <3>2. CASE ~InGap(zone, x)
      <4>1. c = x
        BY <1>2, <1>9, <2>a, <2>1, <3>1, <3>2, InOrder
      <4> QED
        BY <1>1, <4>1
    <3>3. CASE InGap(zone, x)
      <4>1. fires = x /\ cursor < Transition
        <5>1. zone.kind = "gap" /\ Minutes <= x /\ x < Minutes + Shift /\ Transition = Minutes /\ Minutes \in Nat /\ Shift \in Nat
          BY <1>2, <3>3, SearchConstants, ZoneFacts DEF InGap, Transition, Shift
        <5>2. fires = x
          BY <1>2, <5>1, ZoneAnswers
        <5>3. CivilOf(zone, cursor) = IF cursor >= Minutes THEN cursor + Shift ELSE cursor
          BY <1>2, <5>1, ZoneAnswers
        <5>4. x >= CivilOf(zone, cursor) + 1
          BY <1>6 DEF NoneBehind, First
        <5>5. cursor < Minutes
          <6> HIDE DEF x
          <6> QED
            BY <1>2, <5>1, <5>3, <5>4 DEF x
        <5> QED
          BY <5>1, <5>2, <5>5
      <4>2. CASE Compatible(zone, c) = x
        BY <1>1, <4>1, <4>2
      <4>3. CASE Compatible(zone, c) < x
        <5>1. CASE Shift = Minutes
          <6> DEFINE y == c - Shift
          <6>1. y \in Nat /\ y < x /\ Compatible(zone, y) = y /\ y = Compatible(zone, c) /\ Matches(expr, y) /\ y < c
            BY <1>1, <1>2, <2>a, <2>1, <3>1, <3>3, <4>3, <5>1, GapMirrors
          <6> HIDE DEF y
          <6>2. y \in Civil
            <7>1. c \in 0..(Minutes * Hours * Days - 1)
              BY <2>1 DEF Civil
            <7>2. Minutes * Hours * Days - 1 \in Int
              BY SearchConstants
            <7> QED
              BY <2>1, <6>1, <7>1, <7>2 DEF Civil
          <6>3. y \in Matching
            BY <6>1, <6>2 DEF Matching
          <6>4. Compatible(zone, y) > cursor
            BY <2>4, <6>1
          <6>5. y >= x
            BY <1>6, <4>1, <6>3, <6>4 DEF NoneBehind
          <6> QED
            BY <1>2, <6>1, <6>5
        <5>2. CASE Shift # Minutes
          <6>1. ~Overtaken(c)
            BY <1>9, <5>2 DEF FallsDue, Shift
          <6>2. start < Transition /\ Minutes \in Nat
            BY <1>2, <4>1, SearchConstants DEF Transition
          <6>3. c # x
            BY <2>a, <3>3
          <6>4. x < c
            BY <1>2, <2>1, <3>1, <6>3
          <6> QED
            BY <1>5, <3>3, <4>1, <4>3, <6>1, <6>2, <6>4 DEF Overtaken
        <5> QED
          BY <5>1, <5>2
      <4> QED
        BY <1>2, <1>9, <2>2, <4>1, <4>2, <4>3
    <3> QED
      BY <3>2, <3>3
  <2> QED
    BY <1>2, <2>2, <2>3, <2>4
<1>10. Covered'
  BY <1>1, <1>4, <1>9 DEF Covered
<1> QED
  BY <1>1, <1>7, <1>8, <1>10 DEF SearchInv

(* The end: the horizon was reached, and never the bound on the steps.       *)
LEMMA StopStep == ASSUME StepsEnough, SearchInv, Stop PROVE SearchInv'
<1>1. /\ searchPc' = "done" /\ expr' = expr /\ zone' = zone /\ start' = start /\ cursor' = cursor
      /\ candidate' = candidate /\ steps' = steps /\ found' = found
  BY DEF Stop
<1>2. /\ expr \in Exprs /\ zone \in Zones /\ start \in Nat /\ cursor \in Nat /\ start <= cursor /\ found \subseteq Nat
      /\ StepMax \in Nat /\ steps \in 0..StepMax /\ candidate \in Nat
  BY SearchConstants DEF SearchInv, SearchTyped, SearchTypeOK
<1>3. Matching' = Matching /\ Firings' = Firings /\ \A c : FallsDue(c)' = FallsDue(c)
  BY <1>1 DEF Matching, Firings, FallsDue, Overtaken
<1>4. SearchTyped'
  BY <1>1, <1>2 DEF SearchTyped, SearchTypeOK
<1>5. OnlyFirings'
  BY <1>1, <1>3 DEF SearchInv, OnlyFirings
<1>6. Covered'
  BY <1>1, <1>3 DEF SearchInv, Covered
<1>7. AllFound \/ ~(Cardinality(found) < RunMax)
  <2>1. CASE searchPc = "search" /\ ~Searching
    <3>1. NoneBehind /\ StepsTaken(candidate, First, steps) /\ Covered
      BY <2>1 DEF SearchInv
    <3>2. First \in Nat
      BY <1>2, ZoneAnswers DEF First
    <3>3. candidate \notin Civil
      <4> SUFFICES ASSUME candidate \in Civil PROVE FALSE
        OBVIOUS
      <4>1. ~(steps < StepMax)
        BY <2>1 DEF Searching
      <4>2. steps < StepMax
        BY <1>2, <3>1, <3>2, TakenBound DEF NoneBehind
      <4> QED
        BY <4>1, <4>2
    <3>4. \A c \in Civil : ~(c >= candidate)
      <4>1. Minutes * Hours * Days - 1 \in Int
        BY SearchConstants
      <4> DEFINE top == Minutes * Hours * Days - 1
      <4>2. Civil = 0..top /\ top \in Int
        BY <4>1 DEF Civil
      <4> HIDE DEF top
      <4> QED
        BY <1>2, <3>3, <4>2
    <3>5. AllFound
      <4> SUFFICES ASSUME NEW c \in Matching, FallsDue(c)
                   PROVE  Compatible(zone, c) \in found
        BY DEF AllFound
      <4>a. ~InGap(zone, c)
        BY DEF FallsDue
      <4>1. c \in Civil /\ c \in Nat
        BY DayInHorizon DEF Matching
      <4>2. Compatible(zone, c) \in Nat
        BY <1>2, <4>1, ZoneAnswers
      <4>3. ~(Compatible(zone, c) > cursor)
        BY <3>1, <3>4, <4>a, <4>1 DEF NoneBehind
      <4>4. Compatible(zone, c) <= cursor
        BY <1>2, <4>2, <4>3
      <4> QED
        BY <3>1, <4>4 DEF Covered
    <3> QED
      BY <3>5
  <2>2. CASE searchPc = "next" /\ Cardinality(found) = RunMax
    <3>1. RunMax \in Nat
      BY SearchConstants
    <3> QED
      BY <2>2, <3>1
  <2> QED
    BY <2>1, <2>2 DEF Stop
<1>8. (AllFound \/ ~(Cardinality(found) < RunMax))'
  BY <1>1, <1>3, <1>7 DEF AllFound
<1> QED
  BY <1>1, <1>4, <1>5, <1>6, <1>8 DEF SearchInv

(* A preview lists the firings after its start, all of them and only them,   *)
(* but those a gap of part of an hour moves others ahead of, when the bound  *)
(* on the steps covers the horizon.                                          *)
THEOREM SearchIsSound == ASSUME StepsEnough PROVE SearchSpec => []SearchSound
<1>1. SearchInit => SearchInv
  BY SearchInitInv
<1>2. SearchInv /\ [SearchNext]_searchVars => SearchInv'
  <2> SUFFICES ASSUME SearchInv, [SearchNext]_searchVars PROVE SearchInv'
    OBVIOUS
  <2>1. CASE BeginSearch
    BY <2>1, BeginSearchStep
  <2>2. CASE SkipDay
    BY <2>2, SkipDayStep
  <2>3. CASE SkipHour
    BY <2>3, SkipHourStep
  <2>4. CASE SkipMinute
    BY <2>4, SkipMinuteStep
  <2>5. CASE Hit
    BY <2>5, HitStep
  <2>6. CASE Stop
    BY <2>6, StopStep
  <2>7. CASE UNCHANGED searchVars
    <3>1. First' = First /\ Matching' = Matching /\ Firings' = Firings /\ \A c : FallsDue(c)' = FallsDue(c)
      BY <2>7 DEF searchVars, First, Matching, Firings, FallsDue, Overtaken
    <3>2. SearchTyped' /\ OnlyFirings' /\ Covered'
      BY <2>7, <3>1 DEF searchVars, SearchInv, SearchTyped, SearchTypeOK, OnlyFirings, Covered
    <3>a. StepsTaken(candidate, First, steps) => StepsTaken(candidate, First, steps)'
      <4>1. expr' = expr /\ zone' = zone /\ cursor' = cursor /\ candidate' = candidate /\ steps' = steps
        BY <2>7 DEF searchVars
      <4> QED
        BY <3>1, <4>1, TakenStays
    <3>3. (searchPc = "search" => NoneBehind /\ StepsTaken(candidate, First, steps))'
      BY <2>7, <3>1, <3>a DEF searchVars, SearchInv, NoneBehind
    <3>4. (searchPc = "done" => AllFound \/ ~(Cardinality(found) < RunMax))'
      BY <2>7, <3>1 DEF searchVars, SearchInv, AllFound
    <3> QED
      BY <3>2, <3>3, <3>4 DEF SearchInv
  <2> QED
    BY <2>1, <2>2, <2>3, <2>4, <2>5, <2>6, <2>7 DEF SearchNext
<1> QED
  BY <1>1, <1>2, SearchInvImplies, PTL DEF SearchSpec
=============================================================================
