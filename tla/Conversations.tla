--------------------------- MODULE Conversations ---------------------------
(****************************************************************************)
(* The shop agent on its two channels: the WhatsApp webhook that answers    *)
(* 200 and then works on its own, AgentService.respond with its throttle    *)
(* and its monthly budget, the merchant's list of escalated conversations,  *)
(* and the daily sweep that purges the ones nobody has used for so long     *)
(* (services/api/src/{agent,whatsapp}).                                     *)
(*                                                                          *)
(* A turn is a handful of statements and model calls without a transaction; *)
(* a message may be delivered twice, and two turns, a merchant and the      *)
(* purge may be at work on one conversation.  Time is counted in months.    *)
(****************************************************************************)
EXTENDS Integers, FiniteSets

CONSTANTS
    WhatsApp,       \* inbound messages with an id of their own
    Web,            \* messages typed into the storefront's widget
    FromOf,         \* the number each of them comes from
    TextOf,         \* what it says
    Workers,        \* turns that may be in progress at one time
    HandoffEnabled, \* TenantLimits.humanHandoff
    Limit,          \* TenantLimits.aiMessagesMonth
    MessageLimit,   \* MESSAGE_LIMIT (20)
    MaxModelTurns,  \* MAX_MODEL_TURNS (4)
    Retention,      \* AGENT_RETENTION_MONTHS (12)
    BatchSize,      \* PURGE_BATCH_SIZE (200)
    MaxPerRun,      \* PURGE_MAX_PER_RUN (2000)
    MaxConvs,       \* BOUND: rows of Conversation ever
    MaxDeliveries,  \* BOUND: deliveries of one WhatsApp message
    MaxNow,         \* BOUND: the last month
    MaxFaults       \* BOUND: turns, sweeps and Redis calls that fail

Messages == WhatsApp \cup Web
Convs == 1..MaxConvs
NoConv == 0
Nobody == "nobody"

ASSUME ConversationAssumption ==
    /\ WhatsApp \cap Web = {} /\ Nobody \notin Messages
    /\ DOMAIN FromOf = WhatsApp /\ DOMAIN TextOf = Messages
    /\ IsFiniteSet(Workers) /\ Workers # {}
    /\ HandoffEnabled \in BOOLEAN
    /\ {Limit, MaxDeliveries, MaxNow, MaxFaults} \subseteq Nat
    /\ {MaxConvs, MessageLimit, MaxModelTurns, Retention, BatchSize, MaxPerRun} \subseteq Nat \ {0}

VARIABLES
    now,        \* the month
    conv,       \* Conversation rows
    used,       \* ids of rows so far
    inbox,      \* Message rows that carry an externalId, with their conversation
    last,       \* the month of each conversation's last message
    throttle,   \* Redis: texts heard lately and messages in this window
    turn,       \* what each worker is doing
    deliveries, \* how often a message was delivered or typed
    usage,      \* AgentUsage.messagesCount of this month
    calls,      \* history: turns that reached the model, by WhatsApp message
    forgotten,  \* history: WhatsApp messages whose row was purged
    purge,      \* the retention sweep
    faults

chat == <<conv, used, inbox, last>>
history == <<calls, forgotten>>
vars == <<now, chat, throttle, turn, deliveries, usage, history, purge, faults>>

Statuses == {"open", "escalated", "resolved"}
NoRow == [status |-> "none", channel |-> "none", shopper |-> Nobody, started |-> 0]
Idle == [at |-> "idle", m |-> Nobody, c |-> NoConv, n |-> 0, born |-> 0]
Calm == [texts |-> {}, count |-> 0]
NoPurge == [at |-> "idle", cutoff |-> 0, ids |-> {}, more |-> FALSE, taken |-> 0,
            touched |-> {}]

\* The shopper behind a message: a number, or nobody known.
Author(m) == IF m \in WhatsApp THEN FromOf[m] ELSE Nobody

Row(channel, shopper) ==
    [status |-> "open", channel |-> channel, shopper |-> shopper, started |-> now]
Exists(c) == c # NoConv /\ conv[c] # NoRow

Init ==
    /\ now = 0
    /\ used \in {{}, {1}}
    /\ conv = [c \in Convs |-> IF c \in used THEN [status |-> "open", channel |-> "web",
                                                  shopper |-> Nobody, started |-> 0]
                                            ELSE NoRow]
    /\ inbox = {}
    /\ last = [c \in Convs |-> 0]
    /\ throttle = [c \in Convs |-> Calm]
    /\ turn = [w \in Workers |-> Idle]
    /\ deliveries = [m \in Messages |-> 0]
    /\ usage \in 0..Limit
    /\ calls = [m \in WhatsApp |-> 0]
    /\ forgotten = {}
    /\ purge = NoPurge
    /\ faults = 0

\* A turn takes seconds: it may see one month end, never two.  By the next month
\* the throttle's keys have expired and the providers have given up.
Tick ==
    /\ now < MaxNow
    /\ \A w \in Workers : turn[w] # Idle => turn[w].born = now
    /\ purge.at = "idle" \/ purge.cutoff = now - Retention
    /\ now' = now + 1
    /\ usage' = 0
    /\ throttle' = [c \in Convs |-> Calm]
    /\ deliveries' = [m \in Messages |-> IF deliveries[m] = 0 THEN 0 ELSE MaxDeliveries]
    /\ UNCHANGED <<chat, turn, history, purge, faults>>

\* The sweep's transaction has checked c, and now c changes.
Touch(c) ==
    purge' = IF purge.at = "checked" THEN [purge EXCEPT !.touched = @ \cup {c}] ELSE purge

-----------------------------------------------------------------------------
(* WhatsAppInboundService.handle.                                           *)

Seen(m) == \E row \in inbox : row.m = m

\* The webhook answers 200 and lets handle run, which looks for the id first;
\* providers retry for a while.
Receive(w, m) ==
    /\ turn[w] = Idle
    /\ deliveries[m] < MaxDeliveries
    /\ deliveries' = [deliveries EXCEPT ![m] = @ + 1]
    /\ turn' = IF Seen(m) THEN turn
               ELSE [turn EXCEPT ![w] = [Idle EXCEPT !.at = "find", !.m = m, !.born = now]]
    /\ UNCHANGED <<now, chat, throttle, usage, history, purge, faults>>

ThreadsOf(shopper) ==
    {c \in Convs : /\ conv[c].channel = "whatsapp" /\ conv[c].shopper = shopper
                   /\ conv[c].status # "resolved"}

\* The newest thread that is not resolved, or none.
FindThread(w) ==
    LET threads == ThreadsOf(Author(turn[w].m))
    IN  /\ turn[w].at = "find"
        /\ IF threads = {}
             THEN turn' = [turn EXCEPT ![w].at = "open"]
             ELSE \E c \in threads :
                     /\ \A d \in threads : conv[d].started <= conv[c].started
                     /\ turn' = [turn EXCEPT ![w].at = "enter", ![w].c = c]
        /\ UNCHANGED <<now, chat, throttle, deliveries, usage, history, purge, faults>>

\* A new row: ids are never used again.
Create(c, row) ==
    /\ c \in Convs \ used
    /\ used' = used \cup {c}
    /\ conv' = [conv EXCEPT ![c] = row]
    /\ last' = [last EXCEPT ![c] = now]
    /\ UNCHANGED inbox

OpenThread(w) ==
    /\ turn[w].at = "open"
    /\ \E c \in Convs :
          /\ Create(c, Row("whatsapp", Author(turn[w].m)))
          /\ turn' = [turn EXCEPT ![w].at = "enter", ![w].c = c]
    /\ UNCHANGED <<now, throttle, deliveries, usage, history, purge, faults>>

-----------------------------------------------------------------------------
(* AgentService.respond.                                                    *)

\* The widget posts a message with the conversation it knows of, or none.
TypeMessage(w, m, c) ==
    /\ turn[w] = Idle
    /\ deliveries[m] = 0
    /\ c # NoConv => conv[c].channel = "web"
    /\ deliveries' = [deliveries EXCEPT ![m] = MaxDeliveries]
    /\ turn' = [turn EXCEPT ![w] = [Idle EXCEPT !.at = "enter", !.m = m, !.c = c,
                                                !.born = now]]
    /\ UNCHANGED <<now, chat, throttle, usage, history, purge, faults>>

\* What the throttle decides, and what it remembers; the count matters up to its limit.
Throttled(c, text) ==
    text \in throttle[c].texts \/ throttle[c].count >= MessageLimit

Heard(c, text) ==
    IF Throttled(c, text)
    THEN [throttle[c] EXCEPT !.texts = @ \cup {text}]
    ELSE [texts |-> throttle[c].texts \cup {text}, count |-> throttle[c].count + 1]

\* The conversation, or a new one if it is gone; then the throttle.
Enter(w) ==
    LET t == turn[w]
        text == TextOf[t.m]
    IN  /\ t.at = "enter"
        /\ \E c \in Convs :
              /\ IF Exists(t.c) THEN c = t.c /\ UNCHANGED chat
                                ELSE Create(c, Row("web", Author(t.m)))
              /\ throttle' = [throttle EXCEPT ![c] = Heard(c, text)]
              /\ turn' = [turn EXCEPT ![w] = IF Throttled(c, text) THEN Idle
                                            ELSE [@ EXCEPT !.at = "store", !.c = c]]
        /\ UNCHANGED <<now, deliveries, usage, history, purge, faults>>

\* Redis is down: the message is let through.
EnterUnthrottled(w) ==
    /\ turn[w].at = "enter"
    /\ Exists(turn[w].c)
    /\ faults < MaxFaults /\ faults' = faults + 1
    /\ turn' = [turn EXCEPT ![w].at = "store"]
    /\ UNCHANGED <<now, chat, throttle, deliveries, usage, history, purge>>

\* The keys expire; the two windows (30 s and 5 min) are not told apart.
Lapse(c) ==
    /\ throttle[c] # Calm
    /\ throttle' = [throttle EXCEPT ![c] = Calm]
    /\ UNCHANGED <<now, chat, turn, deliveries, usage, history, purge, faults>>

\* MUTANT: the row is stored without the provider's id.
WithoutId(m) == TRUE

\* unique (tenantId, externalId); a message of the widget has no id.
Storable(m) == m \in WhatsApp => ~Seen(m)

Stop(w) == turn' = [turn EXCEPT ![w] = Idle]

\* The user's row: refused by either constraint, the turn is over.
Store(w) ==
    LET t == turn[w]
    IN  /\ t.at = "store"
        /\ IF Exists(t.c) /\ Storable(t.m)
             THEN /\ inbox' = IF t.m \in WhatsApp THEN inbox \cup {[m |-> t.m, c |-> t.c]}
                                                  ELSE inbox
                  /\ last' = [last EXCEPT ![t.c] = now]
                  /\ Touch(t.c)
                  /\ turn' = [turn EXCEPT ![w].at = "budget"]
             ELSE Stop(w) /\ UNCHANGED <<inbox, last, purge>>
        /\ UNCHANGED <<now, conv, used, throttle, deliveries, usage, history, faults>>

\* MUTANT: the last message of the plan is given twice.
OneMore == usage <= Limit

Allowed == usage < Limit

\* Any other row of the turn: it needs its conversation.
Write(w, c, next) ==
    IF Exists(c)
    THEN /\ last' = [last EXCEPT ![c] = now]
         /\ Touch(c)
         /\ turn' = [turn EXCEPT ![w] = next]
    ELSE Stop(w) /\ UNCHANGED <<last, purge>>

Budget(w) ==
    LET t == turn[w]
    IN  /\ t.at = "budget"
        /\ IF Allowed
             THEN /\ turn' = [turn EXCEPT ![w].at = "model"]
                  /\ calls' = [m \in WhatsApp |-> IF m = t.m THEN calls[m] + 1 ELSE calls[m]]
                  /\ UNCHANGED <<last, purge>>
             ELSE Write(w, t.c, Idle) /\ UNCHANGED calls
        /\ UNCHANGED <<now, conv, used, inbox, throttle, deliveries, usage, forgotten, faults>>

\* The model asks for tools, and is asked again when their row is written.
AsksForTools(w) == turn[w].at = "model" /\ turn[w].n < MaxModelTurns
AfterTools(t) == [t EXCEPT !.n = @ + 1]

ModelUsesTools(w) ==
    LET t == turn[w]
    IN  /\ AsksForTools(w)
        /\ Write(w, t.c, AfterTools(t))
        /\ UNCHANGED <<now, conv, used, inbox, throttle, deliveries, usage, history, faults>>

\* escalate_to_human, offered only to plans that have it.
ModelEscalates(w) ==
    LET t == turn[w]
    IN  /\ AsksForTools(w)
        /\ HandoffEnabled
        /\ conv' = IF Exists(t.c) THEN [conv EXCEPT ![t.c].status = "escalated"] ELSE conv
        /\ Write(w, t.c, AfterTools(t))
        /\ UNCHANGED <<now, used, inbox, throttle, deliveries, usage, history, faults>>

\* Its answer, or what there is of one after the last round of tools.
Reply(w) ==
    LET t == turn[w]
    IN  /\ t.at = "model"
        /\ Write(w, t.c, [t EXCEPT !.at = "record"])
        /\ UNCHANGED <<now, conv, used, inbox, throttle, deliveries, usage, history, faults>>

\* AgentUsage of the month it is now; what is sent after it nobody retries.
RecordUse(w) ==
    /\ turn[w].at = "record"
    /\ usage' = usage + 1
    /\ Stop(w)
    /\ UNCHANGED <<now, chat, throttle, deliveries, history, purge, faults>>

\* The model's API fails or the process dies; handle logs and drops.
TurnFails(w) ==
    /\ turn[w] # Idle
    /\ faults < MaxFaults /\ faults' = faults + 1
    /\ Stop(w)
    /\ UNCHANGED <<now, chat, throttle, deliveries, usage, history, purge>>

\* ConversationsController.resolve.
MarkResolved(c) ==
    /\ conv[c].status \in {"open", "escalated"}
    /\ conv' = [conv EXCEPT ![c].status = "resolved"]
    /\ Touch(c)
    /\ UNCHANGED <<now, used, inbox, last, throttle, turn, deliveries, usage, history, faults>>

-----------------------------------------------------------------------------
(* purgeExpiredConversations.                                               *)

\* MUTANT: conversations that are open are spared too.
OpenToo(status) == status \in {"escalated", "open"}

Protected(status) == status = "escalated"

ExpiredAt(c, cutoff) ==
    /\ Exists(c)
    /\ ~Protected(conv[c].status)
    /\ conv[c].started < cutoff
    /\ last[c] < cutoff

\* The oldest first, as many as a batch and the run's ceiling allow.
Batches(cutoff, taken) ==
    LET due == {c \in Convs : ExpiredAt(c, cutoff)}
        take == IF BatchSize < MaxPerRun - taken THEN BatchSize ELSE MaxPerRun - taken
    IN  {[ids |-> ids, more |-> Cardinality(ids) = take] : ids \in
            {s \in SUBSET due :
                /\ \A c \in s, d \in due \ s : conv[c].started <= conv[d].started
                /\ Cardinality(s) = take \/ (s = due /\ Cardinality(due) < take)}}

PurgeRead ==
    LET cutoff == IF purge.at = "idle" THEN now - Retention ELSE purge.cutoff
    IN  /\ purge.at \in {"idle", "again"}
        /\ \E b \in Batches(cutoff, purge.taken) :
              purge' = IF b.ids = {} THEN NoPurge
                       ELSE [NoPurge EXCEPT !.at = "read", !.cutoff = cutoff, !.ids = b.ids,
                                            !.more = b.more, !.taken = purge.taken]
        /\ UNCHANGED <<now, chat, throttle, turn, deliveries, usage, history, faults>>

\* MUTANT: the transaction trusts the list it was given.
TrustList(ids, cutoff) == ids

StillEligible(ids, cutoff) == {c \in ids : ExpiredAt(c, cutoff)}

\* Inside the transaction, first statement: the list is checked again.
PurgeCheck ==
    LET ids == StillEligible(purge.ids, purge.cutoff)
    IN  /\ purge.at = "read"
        /\ purge' = IF ids = {} THEN NoPurge
                    ELSE [purge EXCEPT !.at = "checked", !.ids = ids, !.touched = {}]
        /\ UNCHANGED <<now, chat, throttle, turn, deliveries, usage, history, faults>>

\* MUTANT: only the conversations are deleted.
AllRemain(ids) == inbox

Remaining(ids) == {row \in inbox : row.c \notin ids}

\* The two deletes, by id, and the commit.
PurgeDelete ==
    LET taken == purge.taken + Cardinality(purge.ids)
    IN  /\ purge.at = "checked"
        /\ conv' = [c \in Convs |-> IF c \in purge.ids THEN NoRow ELSE conv[c]]
        /\ inbox' = Remaining(purge.ids)
        /\ forgotten' = forgotten \cup {row.m : row \in inbox \ inbox'}
        /\ last' = [c \in Convs |-> IF c \in purge.ids THEN 0 ELSE last[c]]
        /\ throttle' = [c \in Convs |-> IF c \in purge.ids THEN Calm ELSE throttle[c]]
        /\ purge' = IF purge.more /\ taken < MaxPerRun
                    THEN [NoPurge EXCEPT !.at = "again", !.cutoff = purge.cutoff,
                                         !.taken = taken]
                    ELSE NoPurge
        /\ UNCHANGED <<now, used, turn, deliveries, usage, calls, faults>>

\* The transaction is rolled back: nothing was deleted, and the run ends.
PurgeFails ==
    /\ purge.at \in {"read", "checked"}
    /\ faults < MaxFaults /\ faults' = faults + 1
    /\ purge' = NoPurge
    /\ UNCHANGED <<now, chat, throttle, turn, deliveries, usage, history>>

-----------------------------------------------------------------------------
TurnStep(w) ==
    \/ FindThread(w) \/ OpenThread(w)
    \/ Enter(w) \/ Store(w) \/ Budget(w)
    \/ ModelUsesTools(w) \/ ModelEscalates(w)
    \/ Reply(w) \/ RecordUse(w)

PurgeStep == PurgeRead \/ PurgeCheck \/ PurgeDelete

Next ==
    \/ Tick
    \/ \E w \in Workers, m \in WhatsApp : Receive(w, m)
    \/ \E w \in Workers, m \in Web, c \in Convs \cup {NoConv} : TypeMessage(w, m, c)
    \/ \E w \in Workers : TurnStep(w) \/ EnterUnthrottled(w) \/ TurnFails(w)
    \/ \E c \in Convs : Lapse(c) \/ MarkResolved(c)
    \/ PurgeStep
    \/ PurgeFails

(****************************************************************************)
(* The repeatable job runs every day.  Nothing else is owed: nobody has to  *)
(* write, and a turn that has begun may be lost with its process.           *)
(****************************************************************************)
Spec == Init /\ [][Next]_vars
FairSpec == Spec /\ WF_vars(PurgeStep)

-----------------------------------------------------------------------------
(* The rows and the turns are of their types; an id that was given out is   *)
(* never given out again, and no row belongs to a conversation that is gone.*)
TypeOK ==
    /\ now \in Nat /\ usage \in Nat /\ faults \in Nat
    /\ conv \in [Convs -> [status : Statuses, channel : {"web", "whatsapp"},
                           shopper : {FromOf[m] : m \in WhatsApp} \cup {Nobody},
                           started : Nat] \cup {NoRow}]
    /\ used \subseteq Convs
    /\ \A c \in Convs : Exists(c) => c \in used
    /\ inbox \subseteq [m : WhatsApp, c : Convs]
    /\ \A row \in inbox : Exists(row.c)
    /\ last \in [Convs -> Nat]
    /\ throttle \in [Convs -> [texts : SUBSET {TextOf[m] : m \in Messages},
                               count : 0..MessageLimit]]
    /\ turn \in [Workers ->
                    [at : {"idle", "find", "open", "enter", "store", "budget", "model",
                           "record"},
                     m : Messages \cup {Nobody}, c : Convs \cup {NoConv},
                     n : 0..MaxModelTurns, born : Nat]]
    /\ \A w \in Workers : turn[w].at # "idle" =>
          turn[w].m \in (IF turn[w].at \in {"find", "open"} THEN WhatsApp ELSE Messages)
    /\ deliveries \in [Messages -> 0..MaxDeliveries]
    /\ calls \in [WhatsApp -> Nat] /\ forgotten \subseteq WhatsApp
    /\ purge \in [at : {"idle", "read", "checked", "again"}, cutoff : Int,
                  ids : SUBSET used, more : BOOLEAN, taken : 0..MaxPerRun,
                  touched : SUBSET used]

(****************************************************************************)
(* A WhatsApp message costs the merchant one turn of the model at most,     *)
(* however often it is delivered and however the deliveries overlap: the    *)
(* pre-check may miss, the row's unique id does not, for as long as the     *)
(* purge leaves the row where it is (whatsapp-inbound.service.ts,           *)
(* isDuplicate).                                                            *)
(****************************************************************************)
BilledOncePerMessage == \A m \in WhatsApp \ forgotten : calls[m] <= 1

(****************************************************************************)
(* The budget is read before the model is called and written after, so it   *)
(* can be overrun, but only by the turns that are in progress together:     *)
(* "bounded by concurrency, not unbounded" (agent-budget.service.ts).       *)
(****************************************************************************)
Passed == {w \in Workers : turn[w].at \in {"model", "record"}}

OverrunIsBounded ==
    usage + Cardinality(Passed) <= IF Limit = 0 THEN 0 ELSE Limit - 1 + Cardinality(Workers)

(****************************************************************************)
(* What the sweep deletes had been silent for the whole retention period    *)
(* and was not waiting for a person, unless it was written to or escalated  *)
(* after the transaction had checked it.                                    *)
(****************************************************************************)
PurgeSparesTheLive ==
    [][\A c \in Convs : Exists(c) /\ conv'[c] = NoRow =>
          \/ c \in purge.touched
          \/ /\ conv[c].status # "escalated"
             /\ conv[c].started < now - Retention
             /\ last[c] < now - Retention]_vars

(****************************************************************************)
(* A conversation that has been silent for longer than it may be kept is    *)
(* purged in the end, open ones too, unless it is escalated or taken up     *)
(* again before, whatever the batches and the ceiling.                      *)
(****************************************************************************)
RetentionBites ==
    \A c \in Convs :
        (Exists(c) /\ conv[c].status # "escalated" /\ conv[c].started < now - Retention
                   /\ last[c] < now - Retention)
            ~> (~Exists(c) \/ conv[c].status = "escalated" \/ last[c] >= now - Retention)
=============================================================================
