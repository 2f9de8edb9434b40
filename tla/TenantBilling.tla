--------------------------- MODULE TenantBilling ---------------------------
(****************************************************************************)
(* Whether a store is open: the operator's book of payments, the hourly     *)
(* sweep that warns and suspends the overdue, the operators' own suspend    *)
(* and reactivate buttons, the merchant's launch, and the Redis cache       *)
(* through which the storefront learns a tenant's status                    *)
(* (services/api/src/{platform,tenants,onboarding}).                        *)
(*                                                                          *)
(* No operation here is a transaction: a sweep works through rows it read   *)
(* at its start, setStatus reads, writes and invalidates in three round     *)
(* trips, and resolve reads the database and fills the cache in two.  Each  *)
(* round trip is an action.  Days are integers; "mail" is the provider.     *)
(****************************************************************************)
EXTENDS Integers, FiniteSets

CONSTANTS
    Tenants,
    Hosts,          \* names that may be rows of "TenantDomain"
    InitialDomain,  \* whose subdomain or custom domain each is at the start
    InitialStatus,  \* Tenant.status at the start
    Dates,          \* the days an operator may record as paidUntil
    Unreachable,    \* tenants with neither an owner nor a contact e-mail
    Sweeps,         \* sweep runs that may overlap
    Operators,      \* concurrent requests of the platform's operators
    Resolvers,      \* concurrent storefront requests that miss the cache
    GraceDays,      \* SUBSCRIPTION_GRACE_DAYS (7)
    LeadDays,       \* WARNING_LEAD_DAYS (3)
    BatchLimit,     \* SWEEP_BATCH_LIMIT (500)
    MaxNow,         \* BOUND: the last day
    MaxEdits,       \* BOUND: what operators and merchants do, all together
    MaxFaults       \* BOUND: crashes, database and Redis failures

Nobody == "nobody"

ASSUME BillingAssumption ==
    /\ Nobody \notin Tenants \cup Hosts
    /\ InitialDomain \in [Hosts -> Tenants \cup {Nobody}]
    /\ InitialStatus \in [Tenants -> {"draft", "live", "suspended"}]
    /\ Dates \subseteq Nat
    /\ Unreachable \subseteq Tenants
    /\ Sweeps \cap Operators = {}
    /\ GraceDays \in Nat \ {0} /\ LeadDays \in Nat /\ BatchLimit \in Nat \ {0}
    /\ MaxNow \in Nat /\ MaxEdits \in Nat /\ MaxFaults \in Nat

VARIABLES
    now,        \* the day
    status,     \* Tenant.status
    launched,   \* history: tenants whose launch checklist was found complete
    launching,  \* how far each tenant's launch request has come
    paidUntil,  \* Subscription.paidUntil, NoDate without one or without a row
    notice,     \* NotificationLog.status per warningKey
    mailed,     \* history: what the mail provider made of each warning
    stage,      \* where each sweep run is
    asOf,       \* the day it took as its "now"
    rows,       \* the candidates it has read and not yet handled
    claim,      \* the row whose warning it has claimed and is sending
    call,       \* the setStatus each sweep and operator is inside of
    touched,    \* history: tenants changed by others while the sweep ran
    domain,     \* TenantDomain: the tenant a host belongs to
    cache,      \* the Redis entry of a host
    request,    \* the resolve each storefront request is inside of
    lagging,    \* history: hosts whose entry may be out of date, with a reason
    edits, faults

billing == <<now, paidUntil, notice, mailed>>
sweepVars == <<stage, asOf, rows, claim, touched>>
storeVars == <<status, launched, launching>>
cacheVars == <<domain, cache, request, lagging>>
bounds == <<edits, faults>>
vars == <<now, status, launched, launching, paidUntil, notice, mailed, stage, asOf, rows,
          claim, call, touched, domain, cache, request, lagging, edits, faults>>

Actors == Sweeps \cup Operators
\* "doubtful": a send may have been accepted, but the call ended in an error.
Deliveries == {"none", "doubtful", "accepted"}
Statuses == {"draft", "live", "suspended"}
NoDate == -1
NoRow == [tenant |-> Nobody, date |-> NoDate]
NoCall == [at |-> "none", tenant |-> Nobody, to |-> "live"]
Miss == [tenant |-> Nobody, status |-> "miss"]
Unknown == [tenant |-> Nobody, status |-> "null"]
NoRequest == [host |-> Nobody, answer |-> Miss, overtaken |-> FALSE]

Row == [tenant : Tenants, date : Dates]
Entry == [tenant : Tenants, status : Statuses] \cup {Miss, Unknown}

Edit == edits < MaxEdits /\ edits' = edits + 1 /\ UNCHANGED faults
Fault == faults < MaxFaults /\ faults' = faults + 1 /\ UNCHANGED edits

-----------------------------------------------------------------------------
(* The two dates of a subscription.                                         *)

\* warningLeadDaysPastDue: never negative.
WarnOffset == IF GraceDays > LeadDays THEN GraceDays - LeadDays ELSE 0

\* MUTANT: the query without its tenant filter.
SuspendableAnyStatus(day) ==
    {r \in Row : r.date = paidUntil[r.tenant] /\ r.date < day - GraceDays}

\* MUTANT: the sweep suspends from the warning date on.
SuspendableEarly(day) ==
    {r \in Row : /\ r.date = paidUntil[r.tenant]
                 /\ status[r.tenant] = "live"
                 /\ r.date < day - WarnOffset}

\* MUTANT: a missing date is taken for one long past.
SuspendableUndated(day) ==
    {[tenant |-> t, date |-> paidUntil[t]] :
        t \in {u \in Tenants : status[u] = "live" /\ paidUntil[u] < day - GraceDays}}

Suspendable(day) ==
    {r \in Row : /\ r.date = paidUntil[r.tenant]
                 /\ status[r.tenant] = "live"
                 /\ r.date < day - GraceDays}

Warnable(day) ==
    {r \in Row : /\ r.date = paidUntil[r.tenant]
                 /\ status[r.tenant] = "live"
                 /\ r.date < day - WarnOffset
                 /\ r.date >= day - GraceDays}

\* ORDER BY "paidUntil" ASC LIMIT SWEEP_BATCH_LIMIT, ties in any order.
OldestOf(found) ==
    {page \in SUBSET found :
        /\ \A r \in page, q \in found \ page : r.date <= q.date
        /\ Cardinality(page) = BatchLimit \/ (page = found /\ Cardinality(found) <= BatchLimit)}

-----------------------------------------------------------------------------
Init ==
    /\ now = 0
    /\ status = InitialStatus
    /\ launched = {t \in Tenants : InitialStatus[t] # "draft"}
    /\ launching = [t \in Tenants |-> "no"]
    /\ paidUntil \in [Tenants -> Dates \cup {NoDate}]
    /\ notice = [k \in Row |-> "none"]
    /\ mailed = [k \in Row |-> "none"]
    /\ stage = [s \in Sweeps |-> "idle"]
    /\ asOf = [s \in Sweeps |-> 0]
    /\ rows = [s \in Sweeps |-> {}]
    /\ claim = [s \in Sweeps |-> NoRow]
    /\ call = [a \in Actors |-> NoCall]
    /\ touched = [s \in Sweeps |-> {}]
    /\ domain = InitialDomain
    /\ cache = [h \in Hosts |-> Miss]
    /\ request = [r \in Resolvers |-> NoRequest]
    /\ lagging = {}
    /\ edits = 0
    /\ faults = 0

Tick ==
    /\ now < MaxNow
    /\ now' = now + 1
    /\ UNCHANGED <<paidUntil, notice, mailed, sweepVars, storeVars, cacheVars, call, bounds>>

\* Someone else changed tenant t under the sweeps that are running.
Touch(t, sweeps) ==
    touched' = [s \in Sweeps |-> IF s \in sweeps /\ stage[s] # "idle"
                                 THEN touched[s] \cup {t} ELSE touched[s]]

\* SubscriptionService.record: one upsert.
RecordPayment(t, date) ==
    /\ Edit
    /\ paidUntil' = [paidUntil EXCEPT ![t] = date]
    /\ Touch(t, Sweeps)
    /\ UNCHANGED <<now, notice, mailed, stage, asOf, rows, claim, storeVars, cacheVars, call>>

-----------------------------------------------------------------------------
(* sweepSubscriptions, pass 1: warnings.                                    *)

SweepStart(s) ==
    /\ stage[s] = "idle"
    /\ stage' = [stage EXCEPT ![s] = "warning"]
    /\ asOf' = [asOf EXCEPT ![s] = now]
    /\ \E page \in OldestOf(Warnable(now)) : rows' = [rows EXCEPT ![s] = page]
    /\ touched' = [touched EXCEPT ![s] = {}]
    /\ UNCHANGED <<claim, billing, storeVars, cacheVars, call, bounds>>

\* MUTANT: a claim that only looks for a delivered warning.
ClaimableUnlessSent(r) == notice[r] # "sent"

\* claimWarning: the insert wins, or the row of a failed attempt is re-claimed.
Claimable(r) == notice[r] \in {"none", "failed"}

NextRow(s, r) == r \in rows[s] /\ \A q \in rows[s] : r.date <= q.date

WarnNext(s) ==
    /\ stage[s] = "warning"
    /\ claim[s] = NoRow
    /\ \E r \in rows[s] :
          /\ NextRow(s, r)
          /\ rows' = [rows EXCEPT ![s] = @ \ {r}]
          /\ IF r.tenant \notin Unreachable /\ Claimable(r)
               THEN /\ claim' = [claim EXCEPT ![s] = r]
                    /\ notice' = [notice EXCEPT ![r] = "pending"]
               ELSE UNCHANGED <<claim, notice>>
    /\ UNCHANGED <<now, paidUntil, mailed, stage, asOf, touched, storeVars, cacheVars, call, bounds>>

\* The mailer's call returns; or it throws, before the provider accepted the mail
\* or after, on the way back.
Send(r, outcome) ==
    \/ outcome = "sent" /\ mailed' = [mailed EXCEPT ![r] = "accepted"]
    \/ outcome = "failed" /\ mailed' \in {mailed, [mailed EXCEPT ![r] = "doubtful"]}

\* The outcome is written on the row.
FinishWarning(s) ==
    /\ claim[s] # NoRow
    /\ \E outcome \in {"sent", "failed"} :
          /\ Send(claim[s], outcome)
          /\ notice' = [notice EXCEPT ![claim[s]] = outcome]
    /\ claim' = [claim EXCEPT ![s] = NoRow]
    /\ UNCHANGED <<now, paidUntil, stage, asOf, rows, touched, storeVars, cacheVars, call, bounds>>

\* That write fails: the error is caught and the sweep goes on.
LoseWarning(s) ==
    /\ claim[s] # NoRow
    /\ Fault
    /\ \E outcome \in {"sent", "failed"} : Send(claim[s], outcome)
    /\ claim' = [claim EXCEPT ![s] = NoRow]
    /\ UNCHANGED <<now, paidUntil, notice, stage, asOf, rows, touched, storeVars, cacheVars, call>>

-----------------------------------------------------------------------------
(* Pass 2: suspensions, each through setStatus.                             *)

WarningsDone(s) ==
    /\ stage[s] = "warning"
    /\ rows[s] = {}
    /\ claim[s] = NoRow
    /\ stage' = [stage EXCEPT ![s] = "suspending"]
    /\ \E page \in OldestOf(Suspendable(asOf[s])) : rows' = [rows EXCEPT ![s] = page]
    /\ touched' = [touched EXCEPT ![s] = {}]
    /\ UNCHANGED <<asOf, claim, billing, storeVars, cacheVars, call, bounds>>

SuspendNext(s) ==
    /\ stage[s] = "suspending"
    /\ call[s] = NoCall
    /\ \E r \in rows[s] :
          /\ NextRow(s, r)
          /\ rows' = [rows EXCEPT ![s] = @ \ {r}]
          /\ call' = [call EXCEPT ![s] = [at |-> "read", tenant |-> r.tenant, to |-> "suspended"]]
    /\ UNCHANGED <<stage, asOf, claim, touched, billing, storeVars, cacheVars, bounds>>

SweepEnd(s) ==
    /\ stage[s] = "suspending"
    /\ rows[s] = {}
    /\ call[s] = NoCall
    /\ stage' = [stage EXCEPT ![s] = "idle"]
    /\ asOf' = [asOf EXCEPT ![s] = 0]
    /\ touched' = [touched EXCEPT ![s] = {}]
    /\ UNCHANGED <<rows, claim, billing, storeVars, cacheVars, call, bounds>>

-----------------------------------------------------------------------------
(* PlatformService.setStatus: read and check, write, invalidate.            *)

\* suspend takes any store down; reactivate refuses what is not suspended.
OperatorCall(o, t, to) ==
    /\ call[o] = NoCall
    /\ to = "live" => status[t] = "suspended"
    /\ Edit
    /\ call' = [call EXCEPT ![o] = [at |-> "read", tenant |-> t, to |-> to]]
    /\ UNCHANGED <<billing, sweepVars, storeVars, cacheVars>>

\* Resolves of these hosts have read a row that changes before they fill.
Overtake(hosts) ==
    request' = [r \in Resolvers |->
                   IF request[r].host \in hosts THEN [request[r] EXCEPT !.overtaken = TRUE]
                                                 ELSE request[r]]

HostsOf(t) == {h \in Hosts : domain[h] = t}

StatusWrite(a) ==
    LET t == call[a].tenant
    IN  /\ call[a].at = "read"
        /\ status' = [status EXCEPT ![t] = call[a].to]
        /\ call' = [call EXCEPT ![a].at = "written"]
        /\ Overtake(HostsOf(t))
        /\ Touch(t, Sweeps \ {a})
        /\ UNCHANGED <<billing, stage, asOf, rows, claim, launched, launching,
                       domain, cache, lagging, bounds>>

\* MUTANT: the keys deleted are not the ones the resolver writes.
InvalidateNothing(a) ==
    /\ call[a].at = "written"
    /\ call' = [call EXCEPT ![a] = NoCall]
    /\ UNCHANGED <<cacheVars, billing, sweepVars, storeVars, bounds>>

\* invalidateDomainCache: DEL of the key of every host the tenant has now.
Invalidate(a) ==
    LET cleared == HostsOf(call[a].tenant)
    IN  /\ call[a].at = "written"
        /\ cache' = [h \in Hosts |-> IF h \in cleared THEN Miss ELSE cache[h]]
        /\ lagging' = lagging \ cleared
        /\ call' = [call EXCEPT ![a] = NoCall]
        /\ UNCHANGED <<domain, request, billing, sweepVars, storeVars, bounds>>

\* Redis refuses: the status stands and the entries live out their time.
InvalidateFails(a) ==
    /\ call[a].at = "written"
    /\ Fault
    /\ lagging' = lagging \cup {h \in Hosts : cache[h].tenant = call[a].tenant}
    /\ call' = [call EXCEPT ![a] = NoCall]
    /\ UNCHANGED <<domain, cache, request, billing, sweepVars, storeVars>>

\* The process dies, and with it a sweep or a request; a claimed mail may be out.
Crash(a) ==
    /\ Fault
    /\ call[a] # NoCall \/ (a \in Sweeps /\ stage[a] # "idle")
    /\ call' = [call EXCEPT ![a] = NoCall]
    /\ lagging' = IF call[a].at = "written"
                  THEN lagging \cup {h \in Hosts : cache[h].tenant = call[a].tenant}
                  ELSE lagging
    /\ IF a \in Sweeps
         THEN /\ stage' = [stage EXCEPT ![a] = "idle"]
              /\ rows' = [rows EXCEPT ![a] = {}]
              /\ claim' = [claim EXCEPT ![a] = NoRow]
              /\ mailed' \in {mailed} \cup (IF claim[a] = NoRow THEN {}
                                           ELSE {[mailed EXCEPT ![claim[a]] = "accepted"]})
              /\ asOf' = [asOf EXCEPT ![a] = 0]
              /\ touched' = [touched EXCEPT ![a] = {}]
         ELSE UNCHANGED <<stage, rows, claim, mailed, asOf, touched>>
    /\ UNCHANGED <<now, paidUntil, notice, storeVars, domain, cache, request>>

-----------------------------------------------------------------------------
(* OnboardingService.launch behind AdminSessionGuard, which reads the status*)
(* in a statement of its own and refuses a suspended tenant; then launch    *)
(* reads it again with the checklist, and writes without a condition.       *)

LaunchCall(t) ==
    /\ launching[t] = "no"
    /\ status[t] # "suspended"
    /\ Edit
    /\ launching' = [launching EXCEPT ![t] = "guarded"]
    /\ UNCHANGED <<status, launched, billing, sweepVars, cacheVars, call>>

\* A live store is answered at once, an incomplete checklist refused.
LaunchCheck(t) ==
    /\ launching[t] = "guarded"
    /\ \/ /\ status[t] # "live"
          /\ launching' = [launching EXCEPT ![t] = "ready"]
          /\ launched' = launched \cup {t}
       \/ /\ launching' = [launching EXCEPT ![t] = "no"]
          /\ UNCHANGED launched
    /\ UNCHANGED <<status, billing, sweepVars, cacheVars, call, bounds>>

LaunchWrite(t) ==
    /\ launching[t] = "ready"
    /\ launching' = [launching EXCEPT ![t] = "no"]
    /\ status' = [status EXCEPT ![t] = "live"]
    /\ Overtake(HostsOf(t))
    /\ lagging' = lagging \cup {h \in Hosts : cache[h].tenant = t}
    /\ Touch(t, Sweeps)
    /\ UNCHANGED <<launched, billing, stage, asOf, rows, claim, domain, cache, call, bounds>>

-----------------------------------------------------------------------------
(* CustomDomainsService.add and remove, and DomainResolver.resolve.         *)
(* AdminSessionGuard reads the status in a statement of its own before      *)
(* these: by the time they write the tenant may be suspended.               *)

AddDomain(t, h) ==
    /\ domain[h] = Nobody
    /\ Edit
    /\ domain' = [domain EXCEPT ![h] = t]
    /\ UNCHANGED <<cache, request, lagging, billing, sweepVars, storeVars, call>>

RemoveDomain(h) ==
    /\ domain[h] # Nobody
    /\ Edit
    /\ domain' = [domain EXCEPT ![h] = Nobody]
    /\ lagging' = lagging \cup {h}
    /\ Overtake({h})
    /\ UNCHANGED <<cache, billing, sweepVars, storeVars, call>>

ResolveRead(r, h) ==
    /\ request[r] = NoRequest
    /\ cache[h] = Miss
    /\ LET answer == IF domain[h] = Nobody THEN Unknown
                     ELSE [tenant |-> domain[h], status |-> status[domain[h]]]
       IN  request' = [request EXCEPT ![r] =
                          [host |-> h, answer |-> answer, overtaken |-> FALSE]]
    /\ UNCHANGED <<domain, cache, lagging, billing, sweepVars, storeVars, call, bounds>>

\* SET with EX ttlSeconds, whatever happened since the row was read.
ResolveFill(r) ==
    LET q == request[r]
    IN  /\ q # NoRequest
        /\ cache' = [cache EXCEPT ![q.host] = q.answer]
        /\ lagging' = IF q.overtaken THEN lagging \cup {q.host} ELSE lagging \ {q.host}
        /\ request' = [request EXCEPT ![r] = NoRequest]
        /\ UNCHANGED <<domain, billing, sweepVars, storeVars, call, bounds>>

\* MUTANT: only the entries of unknown hosts are given a time to live.
UnknownLapses(h) ==
    /\ cache[h] = Unknown
    /\ cache' = [cache EXCEPT ![h] = Miss]
    /\ lagging' = lagging \ {h}
    /\ UNCHANGED <<domain, request, billing, sweepVars, storeVars, call, bounds>>

CacheLapse(h) ==
    /\ cache[h] # Miss
    /\ cache' = [cache EXCEPT ![h] = Miss]
    /\ lagging' = lagging \ {h}
    /\ UNCHANGED <<domain, request, billing, sweepVars, storeVars, call, bounds>>

-----------------------------------------------------------------------------
SweepStep(s) ==
    \/ SweepStart(s)
    \/ WarnNext(s)
    \/ FinishWarning(s)
    \/ WarningsDone(s)
    \/ SuspendNext(s)
    \/ SweepEnd(s)

OperatorStep ==
    \/ \E t \in Tenants, date \in Dates \cup {NoDate} : RecordPayment(t, date)
    \/ \E o \in Operators, t \in Tenants, to \in {"live", "suspended"} : OperatorCall(o, t, to)
    \/ \E t \in Tenants : LaunchCall(t) \/ LaunchCheck(t) \/ LaunchWrite(t)
    \/ \E t \in Tenants, h \in Hosts : AddDomain(t, h)
    \/ \E h \in Hosts : RemoveDomain(h)

CallStep(a) == StatusWrite(a) \/ Invalidate(a)

FaultStep ==
    \/ \E s \in Sweeps : LoseWarning(s)
    \/ \E a \in Actors : InvalidateFails(a) \/ Crash(a)

CacheStep ==
    \/ \E r \in Resolvers, h \in Hosts : ResolveRead(r, h)
    \/ \E r \in Resolvers : ResolveFill(r)
    \/ \E h \in Hosts : CacheLapse(h)

Next ==
    \/ Tick
    \/ \E s \in Sweeps : SweepStep(s)
    \/ OperatorStep
    \/ \E a \in Actors : CallStep(a)
    \/ FaultStep
    \/ CacheStep

(****************************************************************************)
(* The repeatable job runs every hour and finishes, requests that were      *)
(* started finish, entries expire.  Operators and merchants owe nothing,    *)
(* and a fault is never owed.                                               *)
(****************************************************************************)
Fairness ==
    /\ \A s \in Sweeps : WF_vars(SweepStep(s))
    /\ \A a \in Actors : WF_vars(CallStep(a))
    /\ \A r \in Resolvers : WF_vars(ResolveFill(r))
    /\ \A h \in Hosts : WF_vars(CacheLapse(h))

Spec == Init /\ [][Next]_vars
FairSpec == Spec /\ Fairness

-----------------------------------------------------------------------------
(* The rows and the runs hold what their types allow.                       *)
TypeOK ==
    /\ now \in Nat
    /\ status \in [Tenants -> Statuses]
    /\ launched \subseteq Tenants
    /\ launching \in [Tenants -> {"no", "guarded", "ready"}]
    /\ paidUntil \in [Tenants -> Dates \cup {NoDate}]
    /\ notice \in [Row -> {"none", "pending", "failed", "sent"}]
    /\ mailed \in [Row -> Deliveries]
    /\ stage \in [Sweeps -> {"idle", "warning", "suspending"}]
    /\ asOf \in [Sweeps -> Nat]
    /\ rows \in [Sweeps -> SUBSET Row]
    /\ claim \in [Sweeps -> Row \cup {NoRow}]
    /\ call \in [Actors -> [at : {"read", "written"}, tenant : Tenants, to : Statuses]
                              \cup {NoCall}]
    /\ touched \in [Sweeps -> SUBSET Tenants]
    /\ domain \in [Hosts -> Tenants \cup {Nobody}]
    /\ cache \in [Hosts -> Entry]
    /\ request \in [Resolvers -> [host : Hosts, answer : Entry, overtaken : BOOLEAN]
                                     \cup {NoRequest}]
    /\ lagging \subseteq Hosts
    /\ edits \in Nat /\ faults \in Nat

(****************************************************************************)
(* A merchant is warned once per billing cycle: a run that is about to send *)
(* holds the only claim on the cycle's row, and a warning that the provider *)
(* has accepted is not sent again, by an overlapping run, by the next one,  *)
(* after a crash or after the write that should have recorded it was lost   *)
(* (claimWarning and the unique idempotencyKey).  The one duplicate the code*)
(* accepts (subscription-sweep.worker.ts:303-308) stays possible: a send    *)
(* that the provider accepted and whose call then ended in an error.        *)
(****************************************************************************)
WarnedOnce ==
    \A s \in Sweeps : claim[s] # NoRow =>
        /\ mailed[claim[s]] # "accepted"
        /\ \A q \in Sweeps \ {s} : claim[q] # claim[s]

(****************************************************************************)
(* The sweep suspends from rows it read earlier.  What it is about to take  *)
(* down is a live store past its grace period, or one that somebody changed *)
(* after this very run read its candidates: nothing older is acted on.  The *)
(* second case is excused because the code has it: the write re-checks      *)
(* neither date nor status, so a renewal in between is overridden.          *)
(****************************************************************************)
DarkOnlyWhenDue ==
    \A s \in Sweeps : call[s].at = "read" =>
        LET t == call[s].tenant
        IN  \/ t \in touched[s]
            \/ /\ status[t] = "live"
               /\ paidUntil[t] # NoDate
               /\ paidUntil[t] + GraceDays < now

\* A setStatus of t has written its row and not yet cleared the cache.
Clearing(t) == \E a \in Actors : call[a].at = "written" /\ call[a].tenant = t

(****************************************************************************)
(* A cached status differs from the tenant's row only while the call that   *)
(* changed it is still clearing the cache, or for one of the causes listed: *)
(* Redis refused, which platform.service.ts:287-295 discloses; and four that*)
(* nothing there discloses: the process died before the invalidation, the   *)
(* change was a launch, which invalidates nothing, the host had been taken  *)
(* away from the tenant, where the invalidation no longer finds it, or the  *)
(* entry was written by a resolve that had read the row before the change.  *)
(****************************************************************************)
StaleEntryHasReason ==
    \A h \in Hosts :
        LET e == cache[h]
        IN  (e \notin {Miss, Unknown} /\ e.status # status[e.tenant])
                => h \in lagging \/ Clearing(e.tenant)

Overdue(t) == paidUntil[t] # NoDate /\ paidUntil[t] + GraceDays < now

(****************************************************************************)
(* A live store past its grace period is suspended in the end, or paid for, *)
(* whatever crashes and however many older ones fill the batch before it.   *)
(****************************************************************************)
OverdueGoesDark ==
    \A t \in Tenants :
        status[t] = "live" /\ Overdue(t) ~> (status[t] # "live" \/ ~Overdue(t))

(****************************************************************************)
(* A tenant that stays suspended stops being served on every host, removed  *)
(* ones included, whatever resolve was in flight and whether or not Redis   *)
(* took the invalidation.                                                   *)
(****************************************************************************)
SuspensionBites ==
    \A t \in Tenants : <>[](status[t] = "suspended") =>
        <>[](\A h \in Hosts : cache[h] # [tenant |-> t, status |-> "live"])

-----------------------------------------------------------------------------
(* Claims of the code's comments that its runs refute.                      *)

(****************************************************************************)
(* PlatformService.setStatus refuses to reactivate a draft, because that    *)
(* "would LAUNCH a store that its merchant never finished onboarding"       *)
(* (platform.service.ts:309): no store is live that was never launched.     *)
(****************************************************************************)
OnlyLaunchedStoresAreLive ==
    \A t \in Tenants : status[t] = "live" => t \in launched

(****************************************************************************)
(* Deleting the cache entries makes the effect of a suspension "immediate,  *)
(* not eventual" (platform.service.ts:273): when no request failed and      *)
(* setStatus is done with the cache, no host serves the store.              *)
(****************************************************************************)
SuspensionIsImmediate ==
    \A t \in Tenants : (faults = 0 /\ status[t] = "suspended" /\ ~Clearing(t)) =>
        \A h \in Hosts : cache[h] # [tenant |-> t, status |-> "live"]
=============================================================================
