------------------------ MODULE TenantBillingProofs ------------------------
(****************************************************************************)
(* Proofs about TenantBilling for every set of tenants, hosts, dates, sweep *)
(* runs, operators and storefront requests, and every grace period.         *)
(****************************************************************************)
EXTENDS TenantBilling, TLAPS

(****************************************************************************)
(* The inductive invariant, in three parts.  Why a warning is sent once: a  *)
(* run that holds a claim finds its row pending, which no claim takes, and  *)
(* what the provider is known to have accepted is never left free.          *)
(****************************************************************************)
ClaimsArePending ==
    \A s \in Sweeps : claim[s] # NoRow => notice[claim[s]] = "pending"

AcceptedStaysTaken ==
    \A r \in Row : mailed[r] = "accepted" => notice[r] \in {"pending", "sent"}

WarnInv == WarnedOnce /\ ClaimsArePending /\ AcceptedStaysTaken

(****************************************************************************)
(* Why only the overdue go dark: what the run read of a tenant still holds  *)
(* or somebody else changed it, and the run has one row of each tenant, so  *)
(* its own suspension makes none of the others old.                         *)
(****************************************************************************)
DueOf(s, t) ==
    /\ status[t] = "live"
    /\ paidUntil[t] \in Dates
    /\ paidUntil[t] < asOf[s] - GraceDays

RowsAreDue ==
    \A s \in Sweeps : stage[s] = "suspending" =>
        \A r \in rows[s] : r.tenant \in touched[s] \/ DueOf(s, r.tenant)

OneRowPerTenant ==
    \A s \in Sweeps : stage[s] = "suspending" =>
        /\ \A r, q \in rows[s] : r.tenant = q.tenant => r = q
        /\ call[s].at = "read" => \A r \in rows[s] : r.tenant # call[s].tenant

CallIsDue ==
    \A s \in Sweeps : call[s].at = "read" =>
        call[s].tenant \in touched[s] \/ DueOf(s, call[s].tenant)

CallsBelongToPassTwo == \A s \in Sweeps : call[s] # NoCall => stage[s] = "suspending"

SweepsLookBack == \A s \in Sweeps : asOf[s] <= now

DueInv ==
    RowsAreDue /\ OneRowPerTenant /\ CallIsDue /\ CallsBelongToPassTwo /\ SweepsLookBack

(****************************************************************************)
(* Why a stale entry has a reason: a request that nothing has overtaken is  *)
(* about to write what the database says, and an entry of a tenant is on    *)
(* one of its hosts, where the invalidation will find it.                   *)
(****************************************************************************)
RequestsAreCurrent ==
    \A r \in Resolvers :
        LET q == request[r]
        IN  (q # NoRequest /\ ~q.overtaken /\ q.answer # Unknown) =>
                /\ q.answer.tenant \in Tenants
                /\ domain[q.host] = q.answer.tenant
                /\ q.answer.status = status[q.answer.tenant]

EntriesAreOnTheirHosts ==
    \A h \in Hosts :
        cache[h] \notin {Miss, Unknown} => h \in lagging \/ domain[h] = cache[h].tenant

CacheInv == RequestsAreCurrent /\ EntriesAreOnTheirHosts /\ StaleEntryHasReason

IInv == TypeOK /\ WarnInv /\ DueInv /\ CacheInv

warnVars == <<notice, mailed, claim>>
dueVars == <<now, status, paidUntil, stage, asOf, rows, call, touched>>
entryVars == <<status, domain, cache, request, lagging, call>>

-----------------------------------------------------------------------------
(* A step that leaves the variables of a part alone preserves it.           *)

LEMMA WarnFrame == WarnInv /\ UNCHANGED warnVars => WarnInv'
  BY DEF WarnInv, WarnedOnce, ClaimsArePending, AcceptedStaysTaken, warnVars

LEMMA DueFrame == DueInv /\ UNCHANGED dueVars => DueInv'
  BY DEF DueInv, RowsAreDue, OneRowPerTenant, CallIsDue, CallsBelongToPassTwo,
         SweepsLookBack, DueOf, dueVars

LEMMA CacheFrame == CacheInv /\ UNCHANGED entryVars => CacheInv'
  BY DEF CacheInv, RequestsAreCurrent, EntriesAreOnTheirHosts, StaleEntryHasReason,
         Clearing, entryVars

\* What the types say of the constants the sentinels are made of.
LEMMA Sentinels ==
    /\ NoRow \notin Row
    /\ Nobody \notin Tenants /\ Nobody \notin Hosts
    /\ Dates \subseteq Nat
    /\ GraceDays \in Nat
  BY BillingAssumption DEF NoRow, NoDate, Row

LEMMA InitIInv == Init => IInv
  <1> SUFFICES ASSUME Init PROVE IInv
    OBVIOUS
  <1> USE DEF Init
  <1>1. TypeOK
    BY BillingAssumption DEF TypeOK, Statuses, Entry, Deliveries
  <1>2. WarnInv
    BY DEF WarnInv, WarnedOnce, ClaimsArePending, AcceptedStaysTaken
  <1>3. DueInv
    BY DEF DueInv, RowsAreDue, OneRowPerTenant, CallIsDue, CallsBelongToPassTwo,
           SweepsLookBack, NoCall, Actors
  <1>4. CacheInv
    BY DEF CacheInv, RequestsAreCurrent, EntriesAreOnTheirHosts, StaleEntryHasReason
  <1> QED
    BY <1>1, <1>2, <1>3, <1>4 DEF IInv

-----------------------------------------------------------------------------
(* One lemma per operation: it preserves the invariant.                     *)

LEMMA TickStep ==
    ASSUME IInv, Tick PROVE IInv'
  <1> USE DEF IInv, Tick, sweepVars, storeVars, cacheVars, bounds
  <1>1. TypeOK'
    BY DEF TypeOK
  <1>2. WarnInv'
    BY WarnFrame DEF warnVars
  <1>3. DueInv'
    BY DEF DueInv, RowsAreDue, OneRowPerTenant, CallIsDue, CallsBelongToPassTwo,
           SweepsLookBack, DueOf, TypeOK
  <1>4. CacheInv'
    BY CacheFrame DEF entryVars
  <1> QED
    BY <1>1, <1>2, <1>3, <1>4

LEMMA RecordPaymentStep ==
    ASSUME IInv, NEW t \in Tenants, NEW date \in Dates \cup {NoDate}, RecordPayment(t, date)
    PROVE  IInv'
  <1> USE DEF IInv, RecordPayment, storeVars, cacheVars
  <1>1. TypeOK'
    BY DEF TypeOK, Edit, Touch
  <1>2. WarnInv'
    BY WarnFrame DEF warnVars
  <1>3. /\ \A u \in Tenants : u # t => paidUntil'[u] = paidUntil[u]
        /\ \A s \in Sweeps : /\ stage[s] # "idle" => touched'[s] = touched[s] \cup {t}
                             /\ touched[s] \subseteq touched'[s]
    BY DEF TypeOK, Touch
  <1>4. DueInv'
    <2>1. RowsAreDue'
      BY <1>3 DEF DueInv, RowsAreDue, DueOf, TypeOK, Row
    <2>2. CallIsDue'
      BY <1>3 DEF DueInv, CallIsDue, CallsBelongToPassTwo, DueOf, TypeOK, NoCall, Actors
    <2> QED
      BY <2>1, <2>2 DEF DueInv, OneRowPerTenant, CallsBelongToPassTwo, SweepsLookBack
  <1>5. CacheInv'
    BY CacheFrame DEF entryVars
  <1> QED
    BY <1>1, <1>2, <1>4, <1>5

LEMMA SweepStartStep ==
    ASSUME IInv, NEW s \in Sweeps, SweepStart(s)
    PROVE  IInv'
  <1> USE DEF IInv, SweepStart, billing, storeVars, cacheVars, bounds
  <1>1. rows'[s] \subseteq Row
    BY DEF OldestOf, Warnable, TypeOK
  <1>2. TypeOK'
    BY <1>1 DEF TypeOK
  <1>3. WarnInv'
    BY WarnFrame DEF warnVars
  <1>4. call[s] = NoCall
    BY DEF DueInv, CallsBelongToPassTwo
  <1>5. DueInv'
    BY <1>4 DEF DueInv, RowsAreDue, OneRowPerTenant, CallIsDue, CallsBelongToPassTwo,
                SweepsLookBack, DueOf, TypeOK, NoCall, Actors
  <1>6. CacheInv'
    BY CacheFrame DEF entryVars
  <1> QED
    BY <1>2, <1>3, <1>5, <1>6

LEMMA WarnNextStep ==
    ASSUME IInv, NEW s \in Sweeps, WarnNext(s)
    PROVE  IInv'
  <1> USE DEF IInv, WarnNext, storeVars, cacheVars, bounds
  <1>1. PICK r \in rows[s] :
            /\ rows' = [rows EXCEPT ![s] = @ \ {r}]
            /\ \/ /\ Claimable(r)
                  /\ claim' = [claim EXCEPT ![s] = r]
                  /\ notice' = [notice EXCEPT ![r] = "pending"]
               \/ UNCHANGED <<claim, notice>>
    OBVIOUS
  <1>2. r \in Row
    BY DEF TypeOK
  <1>3. TypeOK'
    BY <1>1, <1>2 DEF TypeOK
  <1>4. WarnInv'
    BY <1>1, <1>2, Sentinels
       DEF WarnInv, WarnedOnce, ClaimsArePending, AcceptedStaysTaken, Claimable, TypeOK
  <1>5. DueInv'
    BY <1>1 DEF DueInv, RowsAreDue, OneRowPerTenant, CallIsDue, CallsBelongToPassTwo,
                SweepsLookBack, DueOf, TypeOK, NoCall, Actors
  <1>6. CacheInv'
    BY CacheFrame DEF entryVars
  <1> QED
    BY <1>3, <1>4, <1>5, <1>6

LEMMA FinishWarningStep ==
    ASSUME IInv, NEW s \in Sweeps, FinishWarning(s)
    PROVE  IInv'
  <1> USE DEF IInv, FinishWarning, Send, Deliveries, storeVars, cacheVars, bounds
  <1>1. claim[s] \in Row
    BY DEF TypeOK
  <1>2. TypeOK'
    BY <1>1 DEF TypeOK
  <1>3. WarnInv'
    BY <1>1, Sentinels
       DEF WarnInv, WarnedOnce, ClaimsArePending, AcceptedStaysTaken, TypeOK
  <1>4. DueInv'
    BY DueFrame DEF dueVars
  <1>5. CacheInv'
    BY CacheFrame DEF entryVars
  <1> QED
    BY <1>2, <1>3, <1>4, <1>5

LEMMA LoseWarningStep ==
    ASSUME IInv, NEW s \in Sweeps, LoseWarning(s)
    PROVE  IInv'
  <1> USE DEF IInv, LoseWarning, Send, Deliveries, storeVars, cacheVars
  <1>1. claim[s] \in Row
    BY DEF TypeOK
  <1>2. TypeOK'
    BY <1>1 DEF TypeOK, Fault
  <1>3. WarnInv'
    BY <1>1, Sentinels
       DEF WarnInv, WarnedOnce, ClaimsArePending, AcceptedStaysTaken, TypeOK
  <1>4. DueInv'
    BY DueFrame DEF dueVars
  <1>5. CacheInv'
    BY CacheFrame DEF entryVars
  <1> QED
    BY <1>2, <1>3, <1>4, <1>5

LEMMA WarningsDoneStep ==
    ASSUME IInv, NEW s \in Sweeps, WarningsDone(s)
    PROVE  IInv'
  <1> USE DEF IInv, WarningsDone, billing, storeVars, cacheVars, bounds
  <1>1. /\ rows'[s] \subseteq Suspendable(asOf[s])
        /\ \A q \in Sweeps : q # s => rows'[q] = rows[q]
    BY DEF OldestOf, TypeOK
  <1>2. TypeOK'
    <2>1. rows' \in [Sweeps -> SUBSET Row]
      BY <1>1 DEF TypeOK, Suspendable
    <2> QED
      BY <2>1 DEF TypeOK
  <1>3. WarnInv'
    BY WarnFrame DEF warnVars
  <1>4. call[s] = NoCall
    BY DEF DueInv, CallsBelongToPassTwo
  <1>5. \A r \in rows'[s] : /\ r \in Row
                            /\ r.date = paidUntil[r.tenant]
                            /\ DueOf(s, r.tenant)
    BY <1>1 DEF Suspendable, Row, DueOf
  <1>6. \A r, q \in rows'[s] : r.tenant = q.tenant => r = q
    BY <1>5 DEF Row
  <1>7. DueInv'
    <2>1. RowsAreDue'
      BY <1>1, <1>5 DEF DueInv, RowsAreDue, DueOf, TypeOK
    <2>2. OneRowPerTenant'
      BY <1>1, <1>4, <1>6 DEF DueInv, OneRowPerTenant, TypeOK, NoCall
    <2>3. CallIsDue'
      BY <1>4 DEF DueInv, CallIsDue, DueOf, TypeOK, NoCall
    <2>4. CallsBelongToPassTwo' /\ SweepsLookBack'
      BY DEF DueInv, CallsBelongToPassTwo, SweepsLookBack, TypeOK
    <2> QED
      BY <2>1, <2>2, <2>3, <2>4 DEF DueInv
  <1>8. CacheInv'
    BY CacheFrame DEF entryVars
  <1> QED
    BY <1>2, <1>3, <1>7, <1>8

LEMMA SuspendNextStep ==
    ASSUME IInv, NEW s \in Sweeps, SuspendNext(s)
    PROVE  IInv'
  <1> USE DEF IInv, SuspendNext, billing, storeVars, cacheVars, bounds
  <1>1. PICK r \in rows[s] :
            /\ rows' = [rows EXCEPT ![s] = @ \ {r}]
            /\ call' = [call EXCEPT ![s] =
                          [at |-> "read", tenant |-> r.tenant, to |-> "suspended"]]
    OBVIOUS
  <1>2. r \in Row /\ r.tenant \in Tenants /\ s \in Actors
    BY DEF TypeOK, Row, Actors
  <1>3. TypeOK'
    BY <1>1, <1>2 DEF TypeOK, Statuses
  <1>4. WarnInv'
    BY WarnFrame DEF warnVars
  <1>5. /\ call'[s].at = "read" /\ call'[s].tenant = r.tenant
        /\ \A q \in Sweeps : q # s => call'[q] = call[q] /\ rows'[q] = rows[q]
        /\ rows'[s] = rows[s] \ {r}
    BY <1>1, <1>2 DEF TypeOK, Actors
  <1>6. DueInv'
    BY <1>1, <1>5 DEF DueInv, RowsAreDue, OneRowPerTenant, CallIsDue, CallsBelongToPassTwo,
                      SweepsLookBack, DueOf
  <1>7. CacheInv'
    <2>1. \A t \in Tenants : Clearing(t) => Clearing(t)'
      BY <1>1, <1>2 DEF Clearing, TypeOK, NoCall
    <2>2. \A h \in Hosts : cache[h] \notin {Miss, Unknown} => cache[h].tenant \in Tenants
      BY DEF TypeOK, Entry
    <2> QED
      BY <2>1, <2>2 DEF CacheInv, RequestsAreCurrent, EntriesAreOnTheirHosts,
                        StaleEntryHasReason
  <1> QED
    BY <1>3, <1>4, <1>6, <1>7

LEMMA SweepEndStep ==
    ASSUME IInv, NEW s \in Sweeps, SweepEnd(s)
    PROVE  IInv'
  <1> USE DEF IInv, SweepEnd, billing, storeVars, cacheVars, bounds
  <1>1. TypeOK'
    BY DEF TypeOK
  <1>2. WarnInv'
    BY WarnFrame DEF warnVars
  <1>3. DueInv'
    BY DEF DueInv, RowsAreDue, OneRowPerTenant, CallIsDue, CallsBelongToPassTwo,
           SweepsLookBack, DueOf, TypeOK, NoCall, Actors
  <1>4. CacheInv'
    BY CacheFrame DEF entryVars
  <1> QED
    BY <1>1, <1>2, <1>3, <1>4

LEMMA OperatorCallStep ==
    ASSUME IInv, NEW o \in Operators, NEW t \in Tenants, NEW to \in {"live", "suspended"},
           OperatorCall(o, t, to)
    PROVE  IInv'
  <1> USE DEF IInv, OperatorCall, billing, sweepVars, storeVars, cacheVars
  <1>1. o \in Actors /\ o \notin Sweeps
    BY BillingAssumption DEF Actors
  <1>2. TypeOK'
    BY <1>1 DEF TypeOK, Edit, Statuses
  <1>3. WarnInv'
    BY WarnFrame DEF warnVars
  <1>4. \A s \in Sweeps : call'[s] = call[s]
    BY <1>1 DEF TypeOK, Actors
  <1>5. DueInv'
    BY <1>4 DEF DueInv, RowsAreDue, OneRowPerTenant, CallIsDue, CallsBelongToPassTwo,
                SweepsLookBack, DueOf
  <1>6. CacheInv'
    <2>1. \A u \in Tenants : Clearing(u) => Clearing(u)'
      BY <1>1 DEF Clearing, TypeOK, NoCall
    <2>2. \A h \in Hosts : cache[h] \notin {Miss, Unknown} => cache[h].tenant \in Tenants
      BY DEF TypeOK, Entry
    <2> QED
      BY <2>1, <2>2 DEF CacheInv, RequestsAreCurrent, EntriesAreOnTheirHosts,
                        StaleEntryHasReason
  <1> QED
    BY <1>2, <1>3, <1>5, <1>6

\* What Overtake does to the requests.
LEMMA OvertakeEffect ==
    ASSUME TypeOK, NEW hosts, hosts \subseteq Hosts, Overtake(hosts)
    PROVE  /\ request' \in [Resolvers -> [host : Hosts, answer : Entry, overtaken : BOOLEAN]
                                            \cup {NoRequest}]
           /\ \A r \in Resolvers :
                 /\ request'[r].host = request[r].host
                 /\ request'[r].answer = request[r].answer
                 /\ request'[r] = NoRequest <=> request[r] = NoRequest
                 /\ ~request'[r].overtaken => /\ request'[r] = request[r]
                                              /\ request[r].host \notin hosts
  <1> USE Sentinels DEF TypeOK, Overtake
  <1>1. \A r \in Resolvers :
            request[r].host \in hosts =>
                request[r] \in [host : Hosts, answer : Entry, overtaken : BOOLEAN]
    BY DEF NoRequest
  <1>2. \A r \in Resolvers :
            request[r].host \in hosts =>
                /\ request'[r] \in [host : Hosts, answer : Entry, overtaken : BOOLEAN]
                /\ request'[r].host = request[r].host
                /\ request'[r].answer = request[r].answer
                /\ request'[r].overtaken = TRUE
    BY <1>1
  <1>3. \A r \in Resolvers : request[r].host \notin hosts => request'[r] = request[r]
    OBVIOUS
  <1>4. \A q \in [host : Hosts, answer : Entry, overtaken : BOOLEAN] : q # NoRequest
    BY DEF NoRequest
  <1>5. request' \in [Resolvers -> [host : Hosts, answer : Entry, overtaken : BOOLEAN]
                                      \cup {NoRequest}]
    BY <1>2, <1>3
  <1> QED
    BY <1>1, <1>2, <1>3, <1>4, <1>5

LEMMA StatusWriteStep ==
    ASSUME IInv, NEW a \in Actors, StatusWrite(a)
    PROVE  IInv'
  <1> DEFINE t == call[a].tenant
  <1> USE DEF IInv, StatusWrite, billing, bounds
  <1>1. call[a] \in [at : {"read", "written"}, tenant : Tenants, to : Statuses]
    BY DEF TypeOK, NoCall
  <1>2. t \in Tenants /\ call[a].to \in Statuses /\ HostsOf(t) \subseteq Hosts
    BY <1>1 DEF HostsOf
  <1>3. /\ status' = [status EXCEPT ![t] = call[a].to]
        /\ call' = [call EXCEPT ![a].at = "written"]
    OBVIOUS
  <1>4. /\ call'[a].at = "written" /\ call'[a].tenant = t /\ call'[a] # NoCall
        /\ \A b \in Actors : b # a => call'[b] = call[b]
        /\ call' \in [Actors -> [at : {"read", "written"}, tenant : Tenants, to : Statuses]
                                  \cup {NoCall}]
    BY <1>1, <1>3 DEF TypeOK, NoCall
  <1>5. Touch(t, Sweeps \ {a}) /\ Overtake(HostsOf(t))
    OBVIOUS
  <1> HIDE DEF t
  <1>6. /\ touched' \in [Sweeps -> SUBSET Tenants]
        /\ \A s \in Sweeps : /\ touched[s] \subseteq touched'[s]
                             /\ s # a /\ stage[s] # "idle" => t \in touched'[s]
    BY <1>2, <1>5 DEF Touch, TypeOK
  <1>7. TypeOK'
    BY <1>2, <1>3, <1>4, <1>5, <1>6, OvertakeEffect DEF TypeOK
  <1>8. WarnInv'
    BY WarnFrame DEF warnVars
  <1>9. \A u \in Tenants : u # t => status'[u] = status[u]
    BY <1>3 DEF TypeOK
  <1>10. DueInv'
    <2>1. RowsAreDue'
      <3> SUFFICES ASSUME NEW s \in Sweeps, stage[s] = "suspending", NEW r \in rows[s]
                   PROVE  r.tenant \in touched'[s] \/ DueOf(s, r.tenant)'
        BY DEF RowsAreDue
      <3>1. r.tenant \in Tenants
        BY DEF TypeOK, Row
      <3>2. r.tenant \in touched[s] \/ DueOf(s, r.tenant)
        BY DEF DueInv, RowsAreDue
      <3>3. CASE r.tenant # t
        BY <1>6, <1>9, <3>1, <3>2, <3>3 DEF DueOf
      <3>4. CASE r.tenant = t /\ s # a
        BY <1>6, <3>4
      <3>5. CASE r.tenant = t /\ s = a
        BY <3>5 DEF DueInv, OneRowPerTenant, t
      <3> QED
        BY <3>3, <3>4, <3>5
    <2>2. OneRowPerTenant'
      BY <1>4 DEF DueInv, OneRowPerTenant, Actors
    <2>3. CallIsDue'
      <3> SUFFICES ASSUME NEW s \in Sweeps, call'[s].at = "read"
                   PROVE  (call[s].tenant \in touched[s] \/ DueOf(s, call[s].tenant))'
        BY DEF CallIsDue
      <3>1. s # a /\ call'[s] = call[s] /\ stage[s] = "suspending"
        BY <1>4 DEF DueInv, CallsBelongToPassTwo, Actors, NoCall
      <3>2. call[s].tenant \in Tenants
        BY <3>1 DEF TypeOK, Actors, NoCall
      <3>3. call[s].tenant \in touched[s] \/ DueOf(s, call[s].tenant)
        BY <3>1 DEF DueInv, CallIsDue
      <3>4. CASE call[s].tenant = t
        BY <1>6, <3>1, <3>4
      <3>5. CASE call[s].tenant # t
        BY <1>6, <1>9, <3>1, <3>2, <3>3, <3>5 DEF DueOf
      <3> QED
        BY <3>4, <3>5
    <2>4. CallsBelongToPassTwo' /\ SweepsLookBack'
      BY <1>1, <1>4 DEF DueInv, CallsBelongToPassTwo, SweepsLookBack, Actors, NoCall
    <2> QED
      BY <2>1, <2>2, <2>3, <2>4 DEF DueInv
  <1>11. CacheInv'
    <2>1. Clearing(t)' /\ \A u \in Tenants : Clearing(u) => Clearing(u)'
      BY <1>1, <1>4 DEF Clearing, t
    <2>2. \A h \in Hosts : cache[h] \notin {Miss, Unknown} => cache[h].tenant \in Tenants
      BY DEF TypeOK, Entry
    <2>3. RequestsAreCurrent'
      <3> SUFFICES ASSUME NEW r \in Resolvers, request'[r] # NoRequest,
                          ~request'[r].overtaken, request'[r].answer # Unknown
                   PROVE  /\ request'[r].answer.tenant \in Tenants
                          /\ domain[request'[r].host] = request'[r].answer.tenant
                          /\ request'[r].answer.status = status'[request'[r].answer.tenant]
        BY DEF RequestsAreCurrent
      <3>1. request'[r] = request[r] /\ request[r].host \notin HostsOf(t)
        BY <1>2, <1>5, OvertakeEffect
      <3>2. request[r].host \in Hosts
        BY <3>1 DEF TypeOK
      <3>3. /\ request[r].answer.tenant \in Tenants
            /\ domain[request[r].host] = request[r].answer.tenant
            /\ request[r].answer.status = status[request[r].answer.tenant]
        BY <3>1 DEF CacheInv, RequestsAreCurrent
      <3>4. request[r].answer.tenant # t
        BY <3>1, <3>2, <3>3 DEF HostsOf
      <3> QED
        BY <1>9, <3>1, <3>3, <3>4
    <2>4. EntriesAreOnTheirHosts'
      BY DEF CacheInv, EntriesAreOnTheirHosts
    <2>5. StaleEntryHasReason'
      <3> SUFFICES ASSUME NEW h \in Hosts, cache[h] \notin {Miss, Unknown},
                          cache[h].status # status'[cache[h].tenant]
                   PROVE  h \in lagging \/ Clearing(cache[h].tenant)'
        BY DEF StaleEntryHasReason
      <3>1. CASE cache[h].tenant = t
        BY <1>4, <3>1 DEF Clearing
      <3>2. CASE cache[h].tenant # t
        <4>1. h \in lagging \/ Clearing(cache[h].tenant)
          BY <1>9, <2>2, <3>2 DEF CacheInv, StaleEntryHasReason
        <4> QED
          BY <2>1, <2>2, <4>1
      <3> QED
        BY <3>1, <3>2
    <2> QED
      BY <2>3, <2>4, <2>5 DEF CacheInv
  <1> QED
    BY <1>7, <1>8, <1>10, <1>11

\* A call ends: the sweeps' rows stay due.
LEMMA CallEnds ==
    ASSUME IInv, NEW a \in Actors, call' = [call EXCEPT ![a] = NoCall],
           UNCHANGED <<now, status, paidUntil, stage, asOf, rows, touched>>
    PROVE  DueInv'
  <1>1. \A s \in Sweeps : call'[s] = NoCall \/ call'[s] = call[s]
    BY DEF IInv, TypeOK, Actors
  <1> QED
    BY <1>1 DEF IInv, DueInv, RowsAreDue, OneRowPerTenant, CallIsDue, CallsBelongToPassTwo,
                SweepsLookBack, DueOf, NoCall

LEMMA InvalidateStep ==
    ASSUME IInv, NEW a \in Actors, Invalidate(a)
    PROVE  IInv'
  <1> DEFINE t == call[a].tenant
  <1> USE DEF IInv, Invalidate, billing, sweepVars, storeVars, bounds
  <1>1. TypeOK'
    BY DEF TypeOK, Entry
  <1>2. WarnInv'
    BY WarnFrame DEF warnVars
  <1>3. DueInv'
    BY CallEnds
  <1>4. \A h \in Hosts : domain[h] = t => cache'[h] = Miss
    BY DEF HostsOf
  <1>5. \A h \in Hosts : domain[h] # t => /\ cache'[h] = cache[h]
                                          /\ h \in lagging' <=> h \in lagging
    BY DEF HostsOf
  <1>6. \A u \in Tenants : u # t /\ Clearing(u) => Clearing(u)'
    BY DEF Clearing, TypeOK
  <1>7. \A h \in Hosts : cache[h] \notin {Miss, Unknown} => cache[h].tenant \in Tenants
    BY DEF TypeOK, Entry
  <1> HIDE DEF t
  <1>8. CacheInv'
    <2>1. RequestsAreCurrent'
      BY DEF CacheInv, RequestsAreCurrent
    <2>2. EntriesAreOnTheirHosts'
      BY <1>4, <1>5 DEF CacheInv, EntriesAreOnTheirHosts
    <2>3. StaleEntryHasReason'
      BY <1>4, <1>5, <1>6, <1>7 DEF CacheInv, EntriesAreOnTheirHosts, StaleEntryHasReason
    <2> QED
      BY <2>1, <2>2, <2>3 DEF CacheInv
  <1> QED
    BY <1>1, <1>2, <1>3, <1>8

LEMMA InvalidateFailsStep ==
    ASSUME IInv, NEW a \in Actors, InvalidateFails(a)
    PROVE  IInv'
  <1> USE DEF IInv, InvalidateFails, billing, sweepVars, storeVars
  <1>1. TypeOK'
    BY DEF TypeOK, Fault
  <1>2. WarnInv'
    BY WarnFrame DEF warnVars
  <1>3. DueInv'
    BY CallEnds
  <1>4. CacheInv'
    <2>1. \A u \in Tenants : u # call[a].tenant /\ Clearing(u) => Clearing(u)'
      BY DEF Clearing, TypeOK
    <2>2. \A h \in Hosts : cache[h] \notin {Miss, Unknown} => cache[h].tenant \in Tenants
      BY DEF TypeOK, Entry
    <2> QED
      BY <2>1, <2>2 DEF CacheInv, RequestsAreCurrent, EntriesAreOnTheirHosts,
                        StaleEntryHasReason
  <1> QED
    BY <1>1, <1>2, <1>3, <1>4

LEMMA CrashStep ==
    ASSUME IInv, NEW a \in Actors, Crash(a)
    PROVE  IInv'
  <1> USE DEF IInv, Crash, storeVars
  <1>1. CacheInv'
    <2>1. /\ lagging' = IF call[a].at = "written"
                        THEN lagging \cup {h \in Hosts : cache[h].tenant = call[a].tenant}
                        ELSE lagging
          /\ call' = [call EXCEPT ![a] = NoCall]
          /\ UNCHANGED <<status, domain, cache, request>>
      OBVIOUS
    <2>2. \A u \in Tenants :
              Clearing(u) => Clearing(u)' \/ (call[a].at = "written" /\ u = call[a].tenant)
      BY <2>1 DEF Clearing, TypeOK
    <2>3. \A h \in Hosts : cache[h] \notin {Miss, Unknown} => cache[h].tenant \in Tenants
      BY DEF TypeOK, Entry
    <2>4. RequestsAreCurrent' /\ EntriesAreOnTheirHosts'
      BY <2>1 DEF CacheInv, RequestsAreCurrent, EntriesAreOnTheirHosts
    <2>5. StaleEntryHasReason'
      BY <2>1, <2>2, <2>3 DEF CacheInv, StaleEntryHasReason
    <2> QED
      BY <2>4, <2>5 DEF CacheInv
  <1>2. CASE a \in Sweeps
    <2>1. /\ claim[a] \in Row \cup {NoRow}
          /\ \/ mailed' = mailed
             \/ claim[a] # NoRow /\ mailed' = [mailed EXCEPT ![claim[a]] = "accepted"]
      BY <1>2 DEF TypeOK
    <2>2. TypeOK'
      BY <1>2, <2>1 DEF TypeOK, Fault, Deliveries
    <2>3. WarnInv'
      BY <1>2, <2>1 DEF WarnInv, WarnedOnce, ClaimsArePending, AcceptedStaysTaken, TypeOK
    <2>4. /\ stage'[a] = "idle" /\ asOf'[a] = 0 /\ call'[a] = NoCall
          /\ \A s \in Sweeps \ {a} : /\ stage'[s] = stage[s] /\ rows'[s] = rows[s]
                                    /\ asOf'[s] = asOf[s] /\ touched'[s] = touched[s]
                                    /\ call'[s] = call[s]
          /\ UNCHANGED <<now, status, paidUntil>>
      BY <1>2 DEF TypeOK, Actors
    <2> HIDE DEF Crash
    <2>5. DueInv'
      <3>1. RowsAreDue' /\ OneRowPerTenant'
        BY <2>4 DEF DueInv, RowsAreDue, OneRowPerTenant, DueOf, NoCall
      <3>2. CallIsDue' /\ CallsBelongToPassTwo'
        BY <2>4 DEF DueInv, CallIsDue, CallsBelongToPassTwo, DueOf, NoCall
      <3>3. SweepsLookBack'
        BY <2>4 DEF DueInv, SweepsLookBack, TypeOK
      <3> QED
        BY <3>1, <3>2, <3>3 DEF DueInv
    <2> QED
      BY <1>1, <2>2, <2>3, <2>5
  <1>3. CASE a \notin Sweeps
    <2>1. UNCHANGED <<stage, rows, claim, mailed, asOf, touched>>
      BY <1>3
    <2>2. TypeOK'
      BY <2>1 DEF TypeOK, Fault
    <2>3. WarnInv'
      BY <2>1, WarnFrame DEF warnVars
    <2>4. DueInv'
      BY <2>1, CallEnds
    <2> QED
      BY <1>1, <2>2, <2>3, <2>4
  <1> QED
    BY <1>2, <1>3

LEMMA LaunchRequestStep ==
    ASSUME IInv, NEW t \in Tenants, LaunchCall(t) \/ LaunchCheck(t)
    PROVE  IInv'
  <1> USE DEF IInv, LaunchCall, LaunchCheck, billing, sweepVars, cacheVars, bounds
  <1>1. TypeOK'
    BY DEF TypeOK, Edit
  <1>2. WarnInv' /\ DueInv' /\ CacheInv'
    BY WarnFrame, DueFrame, CacheFrame DEF warnVars, dueVars, entryVars
  <1> QED
    BY <1>1, <1>2

LEMMA LaunchWriteStep ==
    ASSUME IInv, NEW t \in Tenants, LaunchWrite(t)
    PROVE  IInv'
  <1> USE DEF IInv, LaunchWrite, billing, bounds
  <1>1. HostsOf(t) \subseteq Hosts /\ Overtake(HostsOf(t)) /\ Touch(t, Sweeps)
    BY DEF HostsOf
  <1>2. /\ touched' \in [Sweeps -> SUBSET Tenants]
        /\ \A s \in Sweeps : /\ touched[s] \subseteq touched'[s]
                             /\ stage[s] # "idle" => t \in touched'[s]
    BY <1>1 DEF Touch, TypeOK
  <1>3. \A u \in Tenants : u # t => status'[u] = status[u]
    BY DEF TypeOK
  <1>4. TypeOK'
    BY <1>1, <1>2, OvertakeEffect DEF TypeOK, Statuses
  <1>5. WarnInv'
    BY WarnFrame DEF warnVars
  <1>6. DueInv'
    <2>1. RowsAreDue'
      BY <1>2, <1>3 DEF DueInv, RowsAreDue, DueOf, TypeOK, Row
    <2>2. CallIsDue'
      BY <1>2, <1>3 DEF DueInv, CallIsDue, CallsBelongToPassTwo, DueOf, TypeOK, NoCall, Actors
    <2> QED
      BY <2>1, <2>2 DEF DueInv, OneRowPerTenant, CallsBelongToPassTwo, SweepsLookBack
  <1>7. RequestsAreCurrent'
    <2> SUFFICES ASSUME NEW r \in Resolvers, request'[r] # NoRequest,
                        ~request'[r].overtaken, request'[r].answer # Unknown
                 PROVE  /\ request'[r].answer.tenant \in Tenants
                        /\ domain[request'[r].host] = request'[r].answer.tenant
                        /\ request'[r].answer.status = status'[request'[r].answer.tenant]
      BY DEF RequestsAreCurrent
    <2>1. request'[r] = request[r] /\ request[r].host \notin HostsOf(t)
      BY <1>1, OvertakeEffect
    <2>2. request[r].host \in Hosts
      BY <2>1 DEF TypeOK
    <2>3. /\ request[r].answer.tenant \in Tenants
          /\ domain[request[r].host] = request[r].answer.tenant
          /\ request[r].answer.status = status[request[r].answer.tenant]
      BY <2>1 DEF CacheInv, RequestsAreCurrent
    <2>4. request[r].answer.tenant # t
      BY <2>1, <2>2, <2>3 DEF HostsOf
    <2> QED
      BY <1>3, <2>1, <2>3, <2>4
  <1>8. \A h \in Hosts : cache[h] \notin {Miss, Unknown} => cache[h].tenant \in Tenants
    BY DEF TypeOK, Entry
  <1>9. EntriesAreOnTheirHosts' /\ StaleEntryHasReason'
    BY <1>3, <1>8 DEF CacheInv, EntriesAreOnTheirHosts, StaleEntryHasReason, Clearing
  <1> QED
    BY <1>4, <1>5, <1>6, <1>7, <1>9 DEF CacheInv

LEMMA AddDomainStep ==
    ASSUME IInv, NEW t \in Tenants, NEW h \in Hosts, AddDomain(t, h)
    PROVE  IInv'
  <1> USE DEF IInv, AddDomain, billing, sweepVars, storeVars
  <1>1. TypeOK'
    BY DEF TypeOK, Edit
  <1>2. WarnInv' /\ DueInv'
    BY WarnFrame, DueFrame DEF warnVars, dueVars
  <1>3. \A g \in Hosts : domain[g] # Nobody => domain'[g] = domain[g]
    BY DEF TypeOK
  <1>4. RequestsAreCurrent'
    BY <1>3, Sentinels DEF CacheInv, RequestsAreCurrent, TypeOK, NoRequest
  <1>5. EntriesAreOnTheirHosts'
    BY <1>3, Sentinels DEF CacheInv, EntriesAreOnTheirHosts, TypeOK, Entry
  <1>6. StaleEntryHasReason'
    BY DEF CacheInv, StaleEntryHasReason, Clearing
  <1> QED
    BY <1>1, <1>2, <1>4, <1>5, <1>6 DEF CacheInv

LEMMA RemoveDomainStep ==
    ASSUME IInv, NEW h \in Hosts, RemoveDomain(h)
    PROVE  IInv'
  <1> USE DEF IInv, RemoveDomain, billing, sweepVars, storeVars
  <1>1. {h} \subseteq Hosts /\ Overtake({h})
    OBVIOUS
  <1>2. TypeOK'
    BY <1>1, OvertakeEffect DEF TypeOK, Edit
  <1>3. WarnInv' /\ DueInv'
    BY WarnFrame, DueFrame DEF warnVars, dueVars
  <1>4. \A g \in Hosts : g # h => domain'[g] = domain[g]
    BY DEF TypeOK
  <1>5. RequestsAreCurrent'
    <2> SUFFICES ASSUME NEW r \in Resolvers, request'[r] # NoRequest,
                        ~request'[r].overtaken, request'[r].answer # Unknown
                 PROVE  /\ request'[r].answer.tenant \in Tenants
                        /\ domain'[request'[r].host] = request'[r].answer.tenant
                        /\ request'[r].answer.status = status[request'[r].answer.tenant]
      BY DEF RequestsAreCurrent
    <2>1. request'[r] = request[r] /\ request[r].host # h
      BY <1>1, OvertakeEffect
    <2>2. request[r].host \in Hosts
      BY <2>1 DEF TypeOK
    <2> QED
      BY <1>4, <2>1, <2>2 DEF CacheInv, RequestsAreCurrent
  <1>6. EntriesAreOnTheirHosts'
    BY <1>4 DEF CacheInv, EntriesAreOnTheirHosts
  <1>7. StaleEntryHasReason'
    BY DEF CacheInv, StaleEntryHasReason, Clearing
  <1> QED
    BY <1>2, <1>3, <1>5, <1>6, <1>7 DEF CacheInv

LEMMA ResolveReadStep ==
    ASSUME IInv, NEW r \in Resolvers, NEW h \in Hosts, ResolveRead(r, h)
    PROVE  IInv'
  <1> USE DEF IInv, ResolveRead, billing, sweepVars, storeVars, bounds
  <1> DEFINE answer == IF domain[h] = Nobody THEN Unknown
                       ELSE [tenant |-> domain[h], status |-> status[domain[h]]]
  <1>1. answer \in Entry
    BY DEF TypeOK, Entry
  <1>2. answer # Unknown => /\ answer.tenant = domain[h] /\ domain[h] \in Tenants
                           /\ answer.status = status[domain[h]]
    BY DEF TypeOK
  <1>3. request' = [request EXCEPT ![r] = [host |-> h, answer |-> answer, overtaken |-> FALSE]]
    OBVIOUS
  <1> HIDE DEF answer
  <1>4. TypeOK'
    BY <1>1, <1>3 DEF TypeOK
  <1>5. WarnInv' /\ DueInv'
    BY WarnFrame, DueFrame DEF warnVars, dueVars
  <1>6. RequestsAreCurrent'
    BY <1>2, <1>3 DEF CacheInv, RequestsAreCurrent, TypeOK
  <1>7. EntriesAreOnTheirHosts' /\ StaleEntryHasReason'
    BY DEF CacheInv, EntriesAreOnTheirHosts, StaleEntryHasReason, Clearing
  <1> QED
    BY <1>4, <1>5, <1>6, <1>7 DEF CacheInv

LEMMA ResolveFillStep ==
    ASSUME IInv, NEW r \in Resolvers, ResolveFill(r)
    PROVE  IInv'
  <1> DEFINE q == request[r]
  <1> USE DEF IInv, ResolveFill, billing, sweepVars, storeVars, bounds
  <1>1. q \in [host : Hosts, answer : Entry, overtaken : BOOLEAN]
    BY DEF TypeOK
  <1>2. /\ cache' = [cache EXCEPT ![q.host] = q.answer]
        /\ request' = [request EXCEPT ![r] = NoRequest]
        /\ q.host \in lagging' <=> q.overtaken
        /\ \A h \in Hosts : h # q.host => /\ cache'[h] = cache[h]
                                          /\ h \in lagging' <=> h \in lagging
    BY <1>1
  <1>3. TypeOK'
    BY <1>1, <1>2 DEF TypeOK
  <1>4. WarnInv' /\ DueInv'
    BY WarnFrame, DueFrame DEF warnVars, dueVars
  <1>5. RequestsAreCurrent'
    BY <1>2 DEF CacheInv, RequestsAreCurrent, TypeOK
  <1>6. cache'[q.host] = q.answer
    BY <1>1, <1>2 DEF TypeOK
  <1>7. q # NoRequest
    OBVIOUS
  <1>8. (~q.overtaken /\ q.answer # Unknown) => /\ domain[q.host] = q.answer.tenant
                                               /\ q.answer.status = status[q.answer.tenant]
    BY <1>7 DEF CacheInv, RequestsAreCurrent
  <1> HIDE DEF q
  <1>9. EntriesAreOnTheirHosts' /\ StaleEntryHasReason'
    BY <1>1, <1>2, <1>6, <1>8
       DEF CacheInv, EntriesAreOnTheirHosts, StaleEntryHasReason, Clearing
  <1> QED
    BY <1>3, <1>4, <1>5, <1>9 DEF CacheInv

LEMMA CacheLapseStep ==
    ASSUME IInv, NEW h \in Hosts, CacheLapse(h)
    PROVE  IInv'
  <1> USE DEF IInv, CacheLapse, billing, sweepVars, storeVars, bounds
  <1>1. TypeOK'
    BY DEF TypeOK, Entry
  <1>2. WarnInv' /\ DueInv'
    BY WarnFrame, DueFrame DEF warnVars, dueVars
  <1>3. CacheInv'
    BY DEF CacheInv, RequestsAreCurrent, EntriesAreOnTheirHosts, StaleEntryHasReason,
           Clearing, TypeOK
  <1> QED
    BY <1>1, <1>2, <1>3

LEMMA StutterStep == ASSUME IInv, UNCHANGED vars PROVE IInv'
  <1>1. TypeOK'
    BY DEF IInv, TypeOK, vars
  <1>2. WarnInv' /\ DueInv' /\ CacheInv'
    BY WarnFrame, DueFrame, CacheFrame DEF IInv, warnVars, dueVars, entryVars, vars
  <1> QED
    BY <1>1, <1>2 DEF IInv

-----------------------------------------------------------------------------
LEMMA NextStep == IInv /\ [Next]_vars => IInv'
  <1> SUFFICES ASSUME IInv, [Next]_vars PROVE IInv'
    OBVIOUS
  <1>1. CASE \E s \in Sweeps : SweepStep(s)
    BY <1>1, SweepStartStep, WarnNextStep, FinishWarningStep, WarningsDoneStep,
       SuspendNextStep, SweepEndStep DEF SweepStep
  <1>2. CASE OperatorStep
    BY <1>2, RecordPaymentStep, OperatorCallStep, LaunchRequestStep, LaunchWriteStep,
       AddDomainStep, RemoveDomainStep DEF OperatorStep
  <1>3. CASE \E a \in Actors : CallStep(a)
    BY <1>3, StatusWriteStep, InvalidateStep DEF CallStep
  <1>4. CASE FaultStep
    BY <1>4, LoseWarningStep, InvalidateFailsStep, CrashStep DEF FaultStep
  <1>5. CASE CacheStep
    BY <1>5, ResolveReadStep, ResolveFillStep, CacheLapseStep DEF CacheStep
  <1> QED
    BY <1>1, <1>2, <1>3, <1>4, <1>5, TickStep, StutterStep DEF Next

(****************************************************************************)
(* The inductive invariant holds in every reachable state.                  *)
(****************************************************************************)
THEOREM BillingInvariant == Spec => []IInv
  BY InitIInv, NextStep, PTL DEF Spec

(****************************************************************************)
(* The rows and the runs hold what their types allow.                       *)
(****************************************************************************)
THEOREM BillingTypeOK == Spec => []TypeOK
  <1>1. IInv => TypeOK
    BY DEF IInv
  <1> QED
    BY <1>1, BillingInvariant, PTL

(****************************************************************************)
(* However many sweep runs overlap or crash, no cycle's warning is claimed  *)
(* by two of them, or sent again after the provider accepted it, unless the *)
(* accepted send itself ended in an error (claimWarning, warnOne).          *)
(****************************************************************************)
THEOREM WarningsGoOutOnce == Spec => []WarnedOnce
  <1>1. IInv => WarnedOnce
    BY DEF IInv, WarnInv
  <1> QED
    BY <1>1, BillingInvariant, PTL

(****************************************************************************)
(* What a sweep is about to suspend is live and past its grace period, or   *)
(* was changed by somebody else during the run (sweepSubscriptions).        *)
(****************************************************************************)
THEOREM OnlyTheOverdueGoDark == Spec => []DarkOnlyWhenDue
  <1>1. IInv => DarkOnlyWhenDue
    <2> SUFFICES ASSUME IInv, NEW s \in Sweeps, call[s].at = "read",
                        call[s].tenant \notin touched[s]
                 PROVE  /\ status[call[s].tenant] = "live"
                        /\ paidUntil[call[s].tenant] # NoDate
                        /\ paidUntil[call[s].tenant] + GraceDays < now
      BY DEF DarkOnlyWhenDue
    <2>1. DueOf(s, call[s].tenant)
      BY DEF IInv, DueInv, CallIsDue
    <2>2. asOf[s] <= now /\ asOf[s] \in Nat /\ now \in Nat
      BY DEF IInv, TypeOK, DueInv, SweepsLookBack
    <2>3. /\ status[call[s].tenant] = "live"
          /\ paidUntil[call[s].tenant] \in Nat
          /\ paidUntil[call[s].tenant] < asOf[s] - GraceDays
      BY <2>1, Sentinels DEF DueOf
    <2>4. GraceDays \in Nat
      BY Sentinels
    <2> QED
      BY <2>2, <2>3, <2>4 DEF NoDate
  <1> QED
    BY <1>1, BillingInvariant, PTL

(****************************************************************************)
(* A cached status differs from the tenant's row only during a setStatus or *)
(* for one of the causes listed at StaleEntryHasReason: a refusal by Redis, *)
(* which the code discloses, or a crash, a launch, a removed host or a late *)
(* fill, which it does not (invalidateDomainCache, DomainResolver).         *)
(****************************************************************************)
THEOREM StaleEntriesHaveReasons == Spec => []StaleEntryHasReason
  <1>1. IInv => StaleEntryHasReason
    BY DEF IInv, CacheInv
  <1> QED
    BY <1>1, BillingInvariant, PTL
=============================================================================
