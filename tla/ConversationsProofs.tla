------------------------ MODULE ConversationsProofs ------------------------
(****************************************************************************)
(* Proofs about Conversations for every set of messages, workers and        *)
(* conversations, every plan limit and every retention period.              *)
(****************************************************************************)
EXTENDS Conversations, FiniteSetTheorems, TLAPS

(****************************************************************************)
(* The inductive invariant.  Why a message is billed once: a turn that may  *)
(* call the model is the only one that stored the message's row, and the    *)
(* row is still there.                                                      *)
(****************************************************************************)
BilledIsStored == \A m \in WhatsApp \ forgotten : calls[m] > 0 => Seen(m)

BudgetIsFirst ==
    \A w \in Workers : turn[w].at = "budget" /\ turn[w].m \in WhatsApp \ forgotten =>
        /\ Seen(turn[w].m)
        /\ calls[turn[w].m] = 0
        /\ \A v \in Workers \ {w} : turn[v].at = "budget" => turn[v].m # turn[w].m

BillInv == BilledOncePerMessage /\ BilledIsStored /\ BudgetIsFirst

(****************************************************************************)
(* Why the purge spares the live: what its transaction has checked stays    *)
(* expired unless it is touched.                                            *)
(****************************************************************************)
CutoffIsPast == purge.at # "idle" => purge.cutoff <= now - Retention

CheckedIsExpired ==
    purge.at = "checked" => \A c \in purge.ids \ purge.touched : ExpiredAt(c, purge.cutoff)

PurgeInv == CutoffIsPast /\ CheckedIsExpired

IInv == TypeOK /\ BillInv /\ OverrunIsBounded /\ PurgeInv

TurnRecord ==
    [at : {"idle", "find", "open", "enter", "store", "budget", "model", "record"},
     m : Messages \cup {Nobody}, c : Convs \cup {NoConv}, n : 0..MaxModelTurns, born : Nat]

PurgeRecord ==
    [at : {"idle", "read", "checked", "again"}, cutoff : Int, ids : SUBSET used,
     more : BOOLEAN, taken : 0..MaxPerRun, touched : SUBSET used]

ConvRecord ==
    [status : Statuses, channel : {"web", "whatsapp"},
     shopper : {FromOf[m] : m \in WhatsApp} \cup {Nobody}, started : Nat]

-----------------------------------------------------------------------------
(* What the assumption says, and what the sentinels are not.                *)
LEMMA Bounds ==
    /\ Limit \in Nat /\ MaxDeliveries \in Nat /\ MaxModelTurns \in Nat \ {0}
    /\ MaxConvs \in Nat \ {0} /\ MessageLimit \in Nat \ {0}
    /\ Retention \in Nat \ {0} /\ MaxPerRun \in Nat \ {0}
    /\ IsFiniteSet(Workers) /\ Workers # {}
    /\ WhatsApp \subseteq Messages /\ Web \subseteq Messages
    /\ NoConv \notin Convs /\ 1 \in Convs
  BY ConversationAssumption DEF Messages, NoConv, Convs

LEMMA IdleIsATurn == Idle \in TurnRecord
  BY Bounds DEF Idle, TurnRecord

LEMMA CrewSize == Cardinality(Workers) \in Nat \ {0}
  BY Bounds, FS_CardinalityType, FS_EmptySet

LEMMA PassedSize ==
    /\ IsFiniteSet(Passed) /\ Cardinality(Passed) \in Nat
    /\ Cardinality(Passed) <= Cardinality(Workers)
  <1>1. Passed \in SUBSET Workers
    BY DEF Passed
  <1> QED
    BY <1>1, Bounds, FS_Subset, FS_CardinalityType

LEMMA RowsAreTyped ==
    ASSUME now \in Nat, NEW channel \in {"web", "whatsapp"}, NEW m
    PROVE  Row(channel, Author(m)) \in ConvRecord
  BY DEF Row, Author, ConvRecord, Statuses

\* A step after which no other turn has passed keeps the overrun bounded.
LEMMA NobodyPasses ==
    ASSUME TypeOK, OverrunIsBounded, usage' = usage,
           \A w \in Workers : turn'[w].at \in {"model", "record"}
                                => turn[w].at \in {"model", "record"}
    PROVE  OverrunIsBounded'
  <1>1. Passed' \in SUBSET Passed
    BY DEF Passed
  <1>2. IsFiniteSet(Passed) /\ Cardinality(Passed) \in Nat
    BY PassedSize
  <1>3. IsFiniteSet(Passed') /\ Cardinality(Passed') <= Cardinality(Passed)
    BY <1>1, <1>2, FS_Subset
  <1>4. Cardinality(Passed') \in Nat
    BY <1>3, FS_CardinalityType
  <1>5. usage \in Nat /\ Cardinality(Workers) \in Nat /\ Limit \in Nat
    BY Bounds, CrewSize DEF TypeOK
  <1> QED
    BY <1>2, <1>3, <1>4, <1>5 DEF OverrunIsBounded

\* A step that stores no row and calls no model keeps the messages billed once.
LEMMA NobodyIsBilled ==
    ASSUME BillInv, UNCHANGED <<inbox, history>>,
           \A w \in Workers : turn'[w].at = "budget" =>
                turn[w].at = "budget" /\ turn'[w].m = turn[w].m
    PROVE  BillInv'
  BY DEF BillInv, BilledOncePerMessage, BilledIsStored, BudgetIsFirst, Seen, history

\* A step that touches c, and nothing else, keeps the checked ones expired.
LEMMA TouchedIsExcused ==
    ASSUME TypeOK, PurgeInv, NEW c \in Convs, Touch(c), UNCHANGED <<now, used>>, c \in used,
           \A d \in Convs \ {c} : conv'[d] = conv[d] /\ last'[d] = last[d]
    PROVE  PurgeInv' /\ purge' \in PurgeRecord
  <1>1. purge \in PurgeRecord
    BY DEF TypeOK, PurgeRecord
  <1>2. CASE purge.at = "checked"
    <2>1. purge' = [purge EXCEPT !.touched = @ \cup {c}]
      BY <1>2 DEF Touch
    <2>2. /\ purge'.at = "checked" /\ purge'.cutoff = purge.cutoff /\ purge'.ids = purge.ids
          /\ purge'.touched = purge.touched \cup {c}
          /\ purge' \in PurgeRecord
      BY <1>1, <1>2, <2>1 DEF PurgeRecord
    <2>3. CutoffIsPast'
      BY <1>2, <2>2 DEF PurgeInv, CutoffIsPast
    <2>4. purge.ids \subseteq Convs
      BY <1>1 DEF PurgeRecord, TypeOK
    <2>5. CheckedIsExpired'
      BY <1>2, <2>2, <2>4 DEF PurgeInv, CheckedIsExpired, ExpiredAt, Exists
    <2> QED
      BY <2>2, <2>3, <2>5 DEF PurgeInv
  <1>3. CASE purge.at # "checked"
    BY <1>1, <1>3 DEF Touch, PurgeInv, CutoffIsPast, CheckedIsExpired
  <1> QED
    BY <1>2, <1>3

LEMMA PurgeFrame ==
    ASSUME PurgeInv, UNCHANGED <<now, purge, conv, last>>
    PROVE  PurgeInv'
  BY DEF PurgeInv, CutoffIsPast, CheckedIsExpired, ExpiredAt, Exists

-----------------------------------------------------------------------------
LEMMA InitIInv == Init => IInv
  <1> SUFFICES ASSUME Init PROVE IInv
    OBVIOUS
  <1> USE DEF Init
  <1>1. TypeOK
    <2>1. used \subseteq Convs
      BY Bounds
    <2>2. purge \in PurgeRecord
      BY Bounds DEF PurgeRecord, NoPurge
    <2>3. turn \in [Workers -> TurnRecord]
      BY IdleIsATurn
    <2>4. conv \in [Convs -> ConvRecord \cup {NoRow}]
      BY DEF ConvRecord, Statuses
    <2>5. throttle \in [Convs -> [texts : SUBSET {TextOf[m] : m \in Messages},
                                  count : 0..MessageLimit]]
      BY Bounds DEF Calm
    <2>6. \A c \in Convs : Exists(c) => c \in used
      BY DEF Exists
    <2>7. usage \in Nat
      BY Bounds
    <2> QED
      BY <2>1, <2>2, <2>3, <2>4, <2>5, <2>6, <2>7, Bounds
         DEF TypeOK, PurgeRecord, TurnRecord, ConvRecord, Idle
  <1>2. BillInv
    BY DEF BillInv, BilledOncePerMessage, BilledIsStored, BudgetIsFirst, Idle
  <1>3. OverrunIsBounded
    <2>1. Passed = {}
      BY DEF Passed, Idle
    <2> QED
      BY <2>1, Bounds, CrewSize, FS_EmptySet DEF OverrunIsBounded
  <1>4. PurgeInv
    BY DEF PurgeInv, CutoffIsPast, CheckedIsExpired, NoPurge
  <1> QED
    BY <1>1, <1>2, <1>3, <1>4 DEF IInv

-----------------------------------------------------------------------------
(* One lemma per operation: it preserves the invariant.                     *)

LEMMA TickStep == ASSUME IInv, Tick PROVE IInv'
  <1> USE DEF IInv, Tick, chat, history
  <1>1. TypeOK'
    <2>1. throttle' \in [Convs -> [texts : SUBSET {TextOf[m] : m \in Messages},
                                   count : 0..MessageLimit]]
      BY Bounds DEF Calm
    <2> QED
      BY <2>1, Bounds DEF TypeOK, Exists
  <1>2. BillInv'
    BY NobodyIsBilled
  <1>3. OverrunIsBounded'
    <2>1. Passed' = Passed
      BY DEF Passed
    <2>2. Limit = 0 => Cardinality(Passed) = 0
      <3>1. usage \in Nat /\ Cardinality(Passed) \in Nat
        BY PassedSize DEF TypeOK
      <3>2. Limit = 0 => usage + Cardinality(Passed) <= 0
        BY DEF OverrunIsBounded
      <3> HIDE DEF IInv, Tick
      <3> QED
        BY <3>1, <3>2
    <2> QED
      BY <2>1, <2>2, PassedSize, CrewSize, Bounds DEF OverrunIsBounded
  <1>4. PurgeInv'
    <2>1. now \in Nat /\ purge.cutoff \in Int /\ Retention \in Nat
      BY Bounds DEF TypeOK
    <2> QED
      BY <2>1 DEF PurgeInv, CutoffIsPast, CheckedIsExpired, ExpiredAt, Exists
  <1> QED
    BY <1>1, <1>2, <1>3, <1>4

LEMMA ReceiveStep ==
    ASSUME IInv, NEW w \in Workers, NEW m \in WhatsApp, Receive(w, m)
    PROVE  IInv'
  <1> USE DEF IInv, Receive, chat, history
  <1>1. /\ turn' \in [Workers -> TurnRecord]
        /\ \A v \in Workers : \/ turn'[v] = turn[v]
                              \/ turn'[v].at = "find" /\ turn'[v].m = m
    <2>1. now \in Nat /\ m \in Messages /\ turn \in [Workers -> TurnRecord]
      BY Bounds DEF TypeOK, TurnRecord
    <2> DEFINE t == [Idle EXCEPT !.at = "find", !.m = m, !.born = now]
    <2>2. t \in TurnRecord /\ t.at = "find" /\ t.m = m
      BY <2>1, IdleIsATurn DEF TurnRecord, Idle
    <2>3. turn' = turn \/ turn' = [turn EXCEPT ![w] = t]
      OBVIOUS
    <2> QED
      BY <2>1, <2>2, <2>3
  <1>2. deliveries' \in [Messages -> 0..MaxDeliveries]
    BY Bounds DEF TypeOK
  <1>3. TypeOK'
    BY <1>1, <1>2, Bounds DEF TypeOK, TurnRecord, Exists
  <1>4. BillInv' /\ OverrunIsBounded' /\ PurgeInv'
    BY <1>1, NobodyIsBilled, NobodyPasses, PurgeFrame
  <1> QED
    BY <1>3, <1>4

LEMMA FindThreadStep ==
    ASSUME IInv, NEW w \in Workers, FindThread(w)
    PROVE  IInv'
  <1> USE DEF IInv, FindThread, chat, history
  <1>1. turn \in [Workers -> TurnRecord]
    BY DEF TypeOK, TurnRecord
  <1>2. PICK t \in TurnRecord : /\ turn' = [turn EXCEPT ![w] = t]
                               /\ t.at \in {"open", "enter"} /\ t.m = turn[w].m
    <2>1. CASE ThreadsOf(Author(turn[w].m)) = {}
      <3>1. turn' = [turn EXCEPT ![w] = [turn[w] EXCEPT !.at = "open"]]
        BY <1>1, <2>1
      <3>2. [turn[w] EXCEPT !.at = "open"] \in TurnRecord
        BY <1>1 DEF TurnRecord
      <3> QED
        BY <1>1, <3>1, <3>2 DEF TurnRecord
    <2>2. CASE ThreadsOf(Author(turn[w].m)) # {}
      <3>1. PICK c \in Convs : turn' = [turn EXCEPT ![w] = [turn[w] EXCEPT !.at = "enter", !.c = c]]
        BY <1>1, <2>2 DEF ThreadsOf
      <3>2. [turn[w] EXCEPT !.at = "enter", !.c = c] \in TurnRecord
        BY <1>1 DEF TurnRecord
      <3> QED
        BY <1>1, <3>1, <3>2 DEF TurnRecord
    <2> QED
      BY <2>1, <2>2
  <1>3. /\ turn' \in [Workers -> TurnRecord]
        /\ \A v \in Workers : /\ turn'[v] = turn[v] \/ turn'[v].at \in {"open", "enter"}
                              /\ turn'[v].m = turn[v].m
                              /\ turn[v].at # "find" => turn'[v] = turn[v]
    BY <1>1, <1>2
  <1>4. TypeOK'
    <2>1. \A v \in Workers : turn'[v].at # "idle" =>
              turn'[v].m \in (IF turn'[v].at \in {"find", "open"} THEN WhatsApp ELSE Messages)
      BY <1>3, Bounds DEF TypeOK
    <2> QED
      BY <1>3, <2>1 DEF TypeOK, TurnRecord, Exists
  <1>5. BillInv' /\ OverrunIsBounded' /\ PurgeInv'
    BY <1>3, NobodyIsBilled, NobodyPasses, PurgeFrame
  <1> QED
    BY <1>4, <1>5

HasMessage(t) ==
    t.at # "idle" => t.m \in (IF t.at \in {"find", "open"} THEN WhatsApp ELSE Messages)

\* One turn moves on.
LEMMA TurnMoves ==
    ASSUME TypeOK, NEW w \in Workers, NEW t \in TurnRecord, turn' = [turn EXCEPT ![w] = t],
           HasMessage(t)
    PROVE  /\ turn' \in [Workers -> TurnRecord]
           /\ turn'[w] = t
           /\ \A v \in Workers : v # w => turn'[v] = turn[v]
           /\ \A v \in Workers : HasMessage(turn'[v])
  BY DEF TypeOK, TurnRecord, HasMessage

\* A new row, of an id that was never used.
LEMMA CreateEffect ==
    ASSUME TypeOK, PurgeInv, NEW c \in Convs, NEW row \in ConvRecord, Create(c, row),
           UNCHANGED <<now, purge>>
    PROVE  /\ conv' \in [Convs -> ConvRecord \cup {NoRow}]
           /\ used' \subseteq Convs /\ used \subseteq used'
           /\ \A d \in Convs : Exists(d)' => d \in used'
           /\ \A d \in Convs : Exists(d) => Exists(d)'
           /\ last' \in [Convs -> Nat]
           /\ inbox' = inbox
           /\ purge' \in PurgeRecord'
           /\ PurgeInv'
  <1> USE DEF Create
  <1>1. conv \in [Convs -> ConvRecord \cup {NoRow}] /\ last \in [Convs -> Nat] /\ now \in Nat
    BY DEF TypeOK, ConvRecord
  <1>2. /\ conv' \in [Convs -> ConvRecord \cup {NoRow}] /\ last' \in [Convs -> Nat]
        /\ \A d \in Convs : d # c => conv'[d] = conv[d] /\ last'[d] = last[d]
        /\ conv'[c] = row /\ row # NoRow /\ c # NoConv
    BY <1>1, Bounds DEF ConvRecord, NoRow, Statuses
  <1>3. used' \subseteq Convs /\ used \subseteq used' /\ c \in used'
    BY DEF TypeOK
  <1>4. /\ \A d \in Convs : Exists(d)' => d \in used'
        /\ \A d \in Convs : Exists(d) => Exists(d)'
    BY <1>2, <1>3 DEF Exists, TypeOK
  <1>5. purge \in PurgeRecord /\ purge' \in PurgeRecord'
    BY <1>3 DEF TypeOK, PurgeRecord
  <1>6. purge.ids \subseteq Convs \ {c}
    BY <1>5 DEF PurgeRecord, TypeOK
  <1>7. PurgeInv'
    BY <1>2, <1>6 DEF PurgeInv, CutoffIsPast, CheckedIsExpired, ExpiredAt, Exists
  <1> QED
    BY <1>2, <1>3, <1>4, <1>5, <1>7

\* A row of the turn: written, or refused and the turn is over.
LEMMA WriteEffect ==
    ASSUME TypeOK, PurgeInv, NEW w \in Workers, NEW c \in Convs \cup {NoConv},
           NEW next \in TurnRecord, Write(w, c, next), UNCHANGED <<now, used>>,
           \A d \in Convs : d # c \/ ~Exists(c) => conv'[d] = conv[d]
    PROVE  /\ last' \in [Convs -> Nat]
           /\ purge' \in PurgeRecord
           /\ PurgeInv'
           /\ \/ turn' = [turn EXCEPT ![w] = next]
              \/ turn' = [turn EXCEPT ![w] = Idle]
  <1>1. CASE Exists(c)
    <2>1. c \in Convs /\ c \in used
      BY <1>1 DEF Exists, TypeOK
    <2>2. /\ last' = [last EXCEPT ![c] = now] /\ Touch(c)
          /\ turn' = [turn EXCEPT ![w] = next]
      BY <1>1 DEF Write
    <2>3. /\ last' \in [Convs -> Nat]
          /\ \A d \in Convs \ {c} : conv'[d] = conv[d] /\ last'[d] = last[d]
      BY <2>1, <2>2 DEF TypeOK
    <2>4. PurgeInv' /\ purge' \in PurgeRecord
      BY <2>1, <2>2, <2>3, TouchedIsExcused
    <2> QED
      BY <2>2, <2>3, <2>4
  <1>2. CASE ~Exists(c)
    <2>1. UNCHANGED <<last, purge>> /\ turn' = [turn EXCEPT ![w] = Idle]
      BY <1>2 DEF Write, Stop
    <2>2. \A d \in Convs : conv'[d] = conv[d]
      BY <1>2
    <2>3. purge \in PurgeRecord /\ last \in [Convs -> Nat] /\ purge.ids \subseteq Convs
      BY DEF TypeOK, PurgeRecord
    <2>4. PurgeInv'
      BY <2>1, <2>2, <2>3
         DEF PurgeInv, CutoffIsPast, CheckedIsExpired, ExpiredAt, Exists
    <2> QED
      BY <2>1, <2>3, <2>4
  <1> QED
    BY <1>1, <1>2

LEMMA OpenThreadStep ==
    ASSUME IInv, NEW w \in Workers, OpenThread(w)
    PROVE  IInv'
  <1> USE DEF IInv
  <1>1. PICK c \in Convs : /\ Create(c, Row("whatsapp", Author(turn[w].m)))
                          /\ turn' = [turn EXCEPT ![w].at = "enter", ![w].c = c]
    BY DEF OpenThread
  <1>2. UNCHANGED <<now, throttle, deliveries, usage, history, purge, faults>>
    BY DEF OpenThread
  <1>3. /\ turn \in [Workers -> TurnRecord] /\ turn[w].at = "open"
        /\ turn[w].m \in WhatsApp /\ turn[w].m \in Messages
    BY Bounds DEF TypeOK, TurnRecord, OpenThread
  <1> DEFINE t == [turn[w] EXCEPT !.at = "enter", !.c = c]
  <1>4. t \in TurnRecord /\ t.at = "enter" /\ t.m = turn[w].m
    BY <1>3 DEF TurnRecord
  <1>5. turn' = [turn EXCEPT ![w] = t]
    BY <1>1, <1>3
  <1> HIDE DEF t
  <1>6. HasMessage(t)
    BY <1>3, <1>4 DEF HasMessage
  <1>7. /\ turn' \in [Workers -> TurnRecord] /\ turn'[w] = t
        /\ \A v \in Workers : v # w => turn'[v] = turn[v]
        /\ \A v \in Workers : HasMessage(turn'[v])
    BY <1>4, <1>5, <1>6, TurnMoves
  <1>8. Row("whatsapp", Author(turn[w].m)) \in ConvRecord
    BY RowsAreTyped DEF TypeOK
  <1>9. /\ conv' \in [Convs -> ConvRecord \cup {NoRow}]
        /\ used' \subseteq Convs
        /\ \A d \in Convs : Exists(d)' => d \in used'
        /\ \A d \in Convs : Exists(d) => Exists(d)'
        /\ last' \in [Convs -> Nat] /\ inbox' = inbox
        /\ purge' \in PurgeRecord' /\ PurgeInv'
    BY <1>1, <1>2, <1>8, CreateEffect
  <1>10. TypeOK'
    BY <1>2, <1>7, <1>9 DEF TypeOK, TurnRecord, HasMessage, PurgeRecord, ConvRecord, history
  <1>11. BillInv' /\ OverrunIsBounded'
    BY <1>2, <1>4, <1>7, <1>9, NobodyIsBilled, NobodyPasses
  <1> QED
    BY <1>9, <1>10, <1>11

LEMMA TypeMessageStep ==
    ASSUME IInv, NEW w \in Workers, NEW m \in Web, NEW c \in Convs \cup {NoConv},
           TypeMessage(w, m, c)
    PROVE  IInv'
  <1> USE DEF IInv, TypeMessage, chat, history
  <1>1. now \in Nat /\ m \in Messages
    BY Bounds DEF TypeOK
  <1> DEFINE t == [Idle EXCEPT !.at = "enter", !.m = m, !.c = c, !.born = now]
  <1>2. t \in TurnRecord /\ t.at = "enter" /\ t.m = m
    BY <1>1, IdleIsATurn DEF TurnRecord, Idle
  <1>3. HasMessage(t) /\ turn' = [turn EXCEPT ![w] = t]
    BY <1>1, <1>2 DEF HasMessage
  <1> HIDE DEF t
  <1>4. /\ turn' \in [Workers -> TurnRecord] /\ turn'[w] = t
        /\ \A v \in Workers : v # w => turn'[v] = turn[v]
        /\ \A v \in Workers : HasMessage(turn'[v])
    BY <1>2, <1>3, TurnMoves
  <1>5. deliveries' \in [Messages -> 0..MaxDeliveries]
    BY Bounds DEF TypeOK
  <1>6. TypeOK'
    BY <1>4, <1>5 DEF TypeOK, TurnRecord, HasMessage, Exists
  <1>7. BillInv' /\ OverrunIsBounded' /\ PurgeInv'
    BY <1>2, <1>4, NobodyIsBilled, NobodyPasses, PurgeFrame
  <1> QED
    BY <1>6, <1>7

LEMMA EnterStep ==
    ASSUME IInv, NEW w \in Workers, Enter(w)
    PROVE  IInv'
  <1> USE DEF IInv
  <1> DEFINE text == TextOf[turn[w].m]
  <1>1. PICK c \in Convs :
            /\ IF Exists(turn[w].c) THEN c = turn[w].c /\ UNCHANGED chat
                                    ELSE Create(c, Row("web", Author(turn[w].m)))
            /\ throttle' = [throttle EXCEPT ![c] = Heard(c, text)]
            /\ turn' = [turn EXCEPT ![w] = IF Throttled(c, text) THEN Idle
                                          ELSE [@ EXCEPT !.at = "store", !.c = c]]
    BY DEF Enter
  <1>2. UNCHANGED <<now, deliveries, usage, history, purge, faults>> /\ turn[w].at = "enter"
    BY DEF Enter
  <1>3. turn \in [Workers -> TurnRecord] /\ turn[w].m \in Messages
    BY <1>2 DEF TypeOK, TurnRecord
  <1>4. throttle' \in [Convs -> [texts : SUBSET {TextOf[m] : m \in Messages},
                                 count : 0..MessageLimit]]
    <2>1. /\ throttle \in [Convs -> [texts : SUBSET {TextOf[m] : m \in Messages},
                                     count : 0..MessageLimit]]
          /\ text \in {TextOf[m] : m \in Messages}
      BY <1>3 DEF TypeOK
    <2> HIDE DEF text
    <2>2. Heard(c, text) \in [texts : SUBSET {TextOf[m] : m \in Messages},
                              count : 0..MessageLimit]
      BY <2>1, Bounds DEF Heard, Throttled
    <2> QED
      BY <1>1, <2>1, <2>2
  <1> HIDE DEF text
  <1> DEFINE t == IF Throttled(c, text) THEN Idle
                  ELSE [turn[w] EXCEPT !.at = "store", !.c = c]
  <1>5. /\ t \in TurnRecord /\ t.at \in {"idle", "store"}
        /\ (t.at = "store" => t.m = turn[w].m)
    BY <1>3, IdleIsATurn DEF TurnRecord, Idle
  <1>6. turn' = [turn EXCEPT ![w] = t] /\ HasMessage(t)
    BY <1>1, <1>3, <1>5 DEF HasMessage
  <1> HIDE DEF t
  <1>7. /\ turn' \in [Workers -> TurnRecord] /\ turn'[w] = t
        /\ \A v \in Workers : v # w => turn'[v] = turn[v]
        /\ \A v \in Workers : HasMessage(turn'[v])
    BY <1>5, <1>6, TurnMoves
  <1>8. /\ conv' \in [Convs -> ConvRecord \cup {NoRow}]
        /\ used' \subseteq Convs
        /\ \A d \in Convs : Exists(d)' => d \in used'
        /\ \A d \in Convs : Exists(d) => Exists(d)'
        /\ last' \in [Convs -> Nat] /\ inbox' = inbox
        /\ purge' \in PurgeRecord' /\ PurgeInv'
    <2>1. CASE Exists(turn[w].c)
      <3>1. UNCHANGED <<conv, used, inbox, last>>
        BY <1>1, <2>1 DEF chat
      <3>2. PurgeInv'
        BY <1>2, <3>1, PurgeFrame
      <3> QED
        BY <1>2, <3>1, <3>2 DEF TypeOK, ConvRecord, PurgeRecord, Exists
    <2>2. CASE ~Exists(turn[w].c)
      <3>1. Row("web", Author(turn[w].m)) \in ConvRecord
        BY RowsAreTyped DEF TypeOK
      <3> QED
        BY <1>1, <1>2, <2>2, <3>1, CreateEffect
    <2> QED
      BY <2>1, <2>2
  <1>9. TypeOK'
    BY <1>2, <1>4, <1>7, <1>8
       DEF TypeOK, TurnRecord, HasMessage, PurgeRecord, ConvRecord, history
  <1>10. BillInv' /\ OverrunIsBounded'
    BY <1>2, <1>5, <1>7, <1>8, NobodyIsBilled, NobodyPasses
  <1> QED
    BY <1>8, <1>9, <1>10

LEMMA EnterUnthrottledStep ==
    ASSUME IInv, NEW w \in Workers, EnterUnthrottled(w)
    PROVE  IInv'
  <1> USE DEF IInv, EnterUnthrottled, chat, history
  <1>1. turn \in [Workers -> TurnRecord] /\ turn[w].m \in Messages
    BY DEF TypeOK, TurnRecord
  <1> DEFINE t == [turn[w] EXCEPT !.at = "store"]
  <1>2. t \in TurnRecord /\ t.at = "store" /\ t.m = turn[w].m
    BY <1>1 DEF TurnRecord
  <1>3. turn' = [turn EXCEPT ![w] = t] /\ HasMessage(t)
    BY <1>1, <1>2 DEF HasMessage
  <1> HIDE DEF t
  <1>4. /\ turn' \in [Workers -> TurnRecord] /\ turn'[w] = t
        /\ \A v \in Workers : v # w => turn'[v] = turn[v]
        /\ \A v \in Workers : HasMessage(turn'[v])
    BY <1>2, <1>3, TurnMoves
  <1>5. TypeOK'
    BY <1>4 DEF TypeOK, TurnRecord, HasMessage, Exists
  <1>6. BillInv' /\ OverrunIsBounded' /\ PurgeInv'
    BY <1>2, <1>4, NobodyIsBilled, NobodyPasses, PurgeFrame
  <1> QED
    BY <1>5, <1>6

LEMMA LapseStep ==
    ASSUME IInv, NEW c \in Convs, Lapse(c)
    PROVE  IInv'
  <1> USE DEF IInv, Lapse, chat, history
  <1>1. throttle' \in [Convs -> [texts : SUBSET {TextOf[m] : m \in Messages},
                                 count : 0..MessageLimit]]
    BY Bounds DEF TypeOK, Calm
  <1>2. TypeOK'
    BY <1>1 DEF TypeOK, Exists
  <1>3. BillInv' /\ OverrunIsBounded' /\ PurgeInv'
    BY NobodyIsBilled, NobodyPasses, PurgeFrame
  <1> QED
    BY <1>2, <1>3

\* A row of a turn that moves on from the model, or from the budget.
LEMMA RowStep ==
    ASSUME IInv, NEW w \in Workers, NEW next \in TurnRecord,
           Write(w, turn[w].c, next),
           UNCHANGED <<now, used, inbox, throttle, deliveries, usage, history, faults>>,
           next.at # "idle" => next.m \in Messages,
           next.at \in {"idle", "model", "record"},
           next.at # "idle" => turn[w].at \in {"model", "record"},
           conv' \in [Convs -> ConvRecord \cup {NoRow}],
           \A d \in Convs : conv'[d] = NoRow <=> conv[d] = NoRow,
           \A d \in Convs : d # turn[w].c \/ ~Exists(turn[w].c) => conv'[d] = conv[d]
    PROVE  IInv'
  <1> USE DEF IInv
  <1>1. turn[w].c \in Convs \cup {NoConv} /\ turn \in [Workers -> TurnRecord]
    BY DEF TypeOK, TurnRecord
  <1>2. /\ last' \in [Convs -> Nat] /\ purge' \in PurgeRecord /\ PurgeInv'
        /\ \/ turn' = [turn EXCEPT ![w] = next]
           \/ turn' = [turn EXCEPT ![w] = Idle]
    BY <1>1, WriteEffect
  <1>3. PICK t \in TurnRecord : /\ turn' = [turn EXCEPT ![w] = t] /\ t \in {next, Idle}
    BY <1>2, IdleIsATurn
  <1>4. HasMessage(t)
    BY <1>3, Bounds DEF HasMessage, Idle
  <1>5. /\ turn' \in [Workers -> TurnRecord] /\ turn'[w] = t
        /\ \A v \in Workers : v # w => turn'[v] = turn[v]
        /\ \A v \in Workers : HasMessage(turn'[v])
    BY <1>3, <1>4, TurnMoves
  <1>6. \A d \in Convs : Exists(d)' <=> Exists(d)
    BY DEF Exists
  <1>7. TypeOK'
    BY <1>2, <1>5, <1>6 DEF TypeOK, TurnRecord, HasMessage, PurgeRecord, ConvRecord, history
  <1>8. t.at \in {"idle", "model", "record"}
    BY <1>3 DEF Idle
  <1>9. \A v \in Workers : turn'[v].at = "budget" => turn'[v] = turn[v]
    BY <1>5, <1>8
  <1>10. t.at # "idle" => turn[w].at \in {"model", "record"}
    BY <1>3 DEF Idle
  <1>11. \A v \in Workers : turn'[v].at \in {"model", "record"} =>
                               turn[v].at \in {"model", "record"}
    BY <1>5, <1>10
  <1>12. BillInv' /\ OverrunIsBounded'
    BY <1>9, <1>11, NobodyIsBilled, NobodyPasses
  <1> QED
    BY <1>2, <1>7, <1>12

LEMMA StoreStep ==
    ASSUME IInv, NEW w \in Workers, Store(w)
    PROVE  IInv'
  <1> USE DEF IInv
  <1>1. turn \in [Workers -> TurnRecord] /\ turn[w].at = "store" /\ turn[w].m \in Messages
    BY DEF TypeOK, TurnRecord, Store
  <1>2. UNCHANGED <<now, conv, used, throttle, deliveries, usage, history, faults>>
    BY DEF Store
  <1>3. CASE Exists(turn[w].c) /\ Storable(turn[w].m)
    <2> DEFINE c == turn[w].c
               m == turn[w].m
               t == [turn[w] EXCEPT !.at = "budget"]
    <2>1. /\ inbox' = IF m \in WhatsApp THEN inbox \cup {[m |-> m, c |-> c]} ELSE inbox
          /\ last' = [last EXCEPT ![c] = now]
          /\ Touch(c)
          /\ turn' = [turn EXCEPT ![w] = t]
      BY <1>1, <1>3 DEF Store
    <2>2. c \in Convs /\ c \in used /\ Exists(c)
      BY <1>1, <1>3 DEF Exists, TypeOK, TurnRecord
    <2>3. t \in TurnRecord /\ t.at = "budget" /\ t.m = m
      BY <1>1 DEF TurnRecord
    <2>4. HasMessage(t)
      BY <1>1, <2>3 DEF HasMessage
    <2>5. m \in WhatsApp => ~Seen(m)
      BY <1>3 DEF Storable
    <2>6. m \in Messages
      BY <1>1
    <2> HIDE DEF t, c, m
    <2>7. /\ turn' \in [Workers -> TurnRecord] /\ turn'[w] = t
          /\ \A v \in Workers : v # w => turn'[v] = turn[v]
          /\ \A v \in Workers : HasMessage(turn'[v])
      BY <2>1, <2>3, <2>4, TurnMoves
    <2>8. /\ last' \in [Convs -> Nat]
          /\ \A d \in Convs \ {c} : conv'[d] = conv[d] /\ last'[d] = last[d]
      BY <1>2, <2>1, <2>2 DEF TypeOK
    <2>9. PurgeInv' /\ purge' \in PurgeRecord
      BY <1>2, <2>1, <2>2, <2>8, TouchedIsExcused
    <2>10. inbox' \subseteq [m : WhatsApp, c : Convs] /\ \A row \in inbox' : Exists(row.c)'
      BY <1>2, <2>1, <2>2 DEF TypeOK, Exists
    <2>11. TypeOK'
      BY <1>2, <2>7, <2>8, <2>9, <2>10
         DEF TypeOK, TurnRecord, HasMessage, PurgeRecord, Exists, history
    <2>12. OverrunIsBounded'
      BY <1>2, <2>3, <2>7, NobodyPasses
    <2>13. \A row \in inbox : row \in inbox'
      BY <2>1
    <2>14. m \in WhatsApp => \E row \in inbox' : row.m = m
      <3> SUFFICES ASSUME m \in WhatsApp PROVE \E row \in inbox' : row.m = m
        OBVIOUS
      <3>1. [m |-> m, c |-> c] \in inbox'
        BY <2>1
      <3> QED
        BY <3>1
    <2>15. BillInv'
      <3>1. BilledOncePerMessage' /\ BilledIsStored'
        BY <1>2, <2>13 DEF BillInv, BilledOncePerMessage, BilledIsStored, Seen, history
      <3>2. m \in WhatsApp \ forgotten => calls[m] = 0
        <4> SUFFICES ASSUME m \in WhatsApp \ forgotten PROVE calls[m] = 0
          OBVIOUS
        <4>1. calls[m] \in Nat /\ ~(calls[m] > 0)
          BY <2>5 DEF BillInv, BilledIsStored, TypeOK
        <4> QED
          BY <4>1
      <3>3. m \in WhatsApp \ forgotten =>
                \A v \in Workers : turn[v].at = "budget" => turn[v].m # m
        BY <2>5 DEF BillInv, BudgetIsFirst
      <3>4. BudgetIsFirst'
        <4> SUFFICES ASSUME NEW v \in Workers, turn'[v].at = "budget",
                            turn'[v].m \in WhatsApp \ forgotten
                     PROVE  /\ \E row \in inbox' : row.m = turn'[v].m
                            /\ calls[turn'[v].m] = 0
                            /\ \A u \in Workers \ {v} :
                                  turn'[u].at = "budget" => turn'[u].m # turn'[v].m
          BY <1>2 DEF BudgetIsFirst, Seen, history
        <4>1. CASE v = w
          BY <2>3, <2>7, <2>14, <3>2, <3>3, <4>1
        <4>2. CASE v # w
          BY <2>3, <2>7, <2>13, <3>3, <4>2 DEF BillInv, BudgetIsFirst, Seen
        <4> QED
          BY <4>1, <4>2
      <3> QED
        BY <3>1, <3>4 DEF BillInv
    <2> QED
      BY <2>9, <2>11, <2>12, <2>15
  <1>4. CASE ~(Exists(turn[w].c) /\ Storable(turn[w].m))
    <2>1. turn' = [turn EXCEPT ![w] = Idle] /\ UNCHANGED <<inbox, last, purge>>
      BY <1>4 DEF Store, Stop
    <2>2. HasMessage(Idle) /\ Idle.at = "idle"
      BY DEF HasMessage, Idle
    <2>3. /\ turn' \in [Workers -> TurnRecord] /\ turn'[w] = Idle
          /\ \A v \in Workers : v # w => turn'[v] = turn[v]
          /\ \A v \in Workers : HasMessage(turn'[v])
      BY <2>1, <2>2, IdleIsATurn, TurnMoves
    <2>4. TypeOK'
      BY <1>2, <2>1, <2>3 DEF TypeOK, TurnRecord, HasMessage, Exists, history
    <2>5. BillInv' /\ OverrunIsBounded' /\ PurgeInv'
      BY <1>2, <2>1, <2>2, <2>3, NobodyIsBilled, NobodyPasses, PurgeFrame
    <2> QED
      BY <2>4, <2>5
  <1> QED
    BY <1>3, <1>4

LEMMA BudgetStep ==
    ASSUME IInv, NEW w \in Workers, Budget(w)
    PROVE  IInv'
  <1> USE DEF IInv
  <1>1. turn \in [Workers -> TurnRecord] /\ turn[w].at = "budget" /\ turn[w].m \in Messages
    BY DEF TypeOK, TurnRecord, Budget
  <1>2. UNCHANGED <<now, conv, used, inbox, throttle, deliveries, usage, forgotten, faults>>
    BY DEF Budget
  <1>3. CASE Allowed
    <2> DEFINE t == [turn[w] EXCEPT !.at = "model"]
    <2>1. /\ turn' = [turn EXCEPT ![w] = t]
          /\ calls' = [m \in WhatsApp |-> IF m = turn[w].m THEN calls[m] + 1 ELSE calls[m]]
          /\ UNCHANGED <<last, purge>>
      BY <1>1, <1>3 DEF Budget
    <2>2. t \in TurnRecord /\ t.at = "model" /\ t.m = turn[w].m
      BY <1>1 DEF TurnRecord
    <2>3. HasMessage(t)
      BY <1>1, <2>2 DEF HasMessage
    <2> HIDE DEF t
    <2>4. /\ turn' \in [Workers -> TurnRecord] /\ turn'[w] = t
          /\ \A v \in Workers : v # w => turn'[v] = turn[v]
          /\ \A v \in Workers : HasMessage(turn'[v])
      BY <2>1, <2>2, <2>3, TurnMoves
    <2>5. calls' \in [WhatsApp -> Nat]
      BY <2>1 DEF TypeOK
    <2>6. TypeOK'
      BY <1>2, <2>1, <2>4, <2>5 DEF TypeOK, TurnRecord, HasMessage, Exists
    <2>7. PurgeInv'
      BY <1>2, <2>1, PurgeFrame
    <2>8. BillInv'
      BY <1>1, <1>2, <2>1, <2>2, <2>4
         DEF BillInv, BilledOncePerMessage, BilledIsStored, BudgetIsFirst, Seen, TypeOK
    <2>9. OverrunIsBounded'
      <3>1. Passed' \in SUBSET Workers
        BY DEF Passed
      <3>2. Cardinality(Passed') \in Nat /\ Cardinality(Passed') <= Cardinality(Workers)
        BY <3>1, Bounds, FS_Subset, FS_CardinalityType
      <3>3. usage \in Nat /\ usage < Limit /\ usage' = usage
        BY <1>2, <1>3 DEF Allowed, TypeOK
      <3> HIDE DEF IInv
      <3> QED
        BY <3>2, <3>3, CrewSize, Bounds DEF OverrunIsBounded
    <2> QED
      BY <2>6, <2>7, <2>8, <2>9
  <1>4. CASE ~Allowed
    <2>1. Write(w, turn[w].c, Idle) /\ UNCHANGED calls
      BY <1>4 DEF Budget
    <2>2. conv' \in [Convs -> ConvRecord \cup {NoRow}] /\ \A d \in Convs : conv'[d] = conv[d]
      BY <1>2 DEF TypeOK, ConvRecord
    <2>3. Idle \in TurnRecord /\ Idle.at = "idle"
      BY IdleIsATurn DEF Idle
    <2>4. UNCHANGED <<now, used, inbox, throttle, deliveries, usage, history, faults>>
      BY <1>2, <2>1 DEF history
    <2> QED
      BY <2>1, <2>2, <2>3, <2>4, RowStep
  <1> QED
    BY <1>3, <1>4

LEMMA ModelUsesToolsStep ==
    ASSUME IInv, NEW w \in Workers, ModelUsesTools(w)
    PROVE  IInv'
  <1>1. /\ turn[w] \in TurnRecord /\ turn[w].at = "model" /\ turn[w].n < MaxModelTurns
        /\ turn[w].m \in Messages
    BY DEF IInv, TypeOK, TurnRecord, ModelUsesTools, AsksForTools
  <1>2. /\ AfterTools(turn[w]) \in TurnRecord /\ AfterTools(turn[w]).at = "model"
        /\ AfterTools(turn[w]).m \in Messages
    BY <1>1, Bounds DEF AfterTools, TurnRecord
  <1>3. conv' \in [Convs -> ConvRecord \cup {NoRow}] /\ conv' = conv
    BY DEF IInv, TypeOK, ConvRecord, ModelUsesTools
  <1>4. /\ Write(w, turn[w].c, AfterTools(turn[w]))
        /\ UNCHANGED <<now, used, inbox, throttle, deliveries, usage, history, faults>>
    BY DEF ModelUsesTools
  <1> QED
    BY <1>1, <1>2, <1>3, <1>4, RowStep

LEMMA ModelEscalatesStep ==
    ASSUME IInv, NEW w \in Workers, ModelEscalates(w)
    PROVE  IInv'
  <1> DEFINE c == turn[w].c
  <1>1. /\ turn[w] \in TurnRecord /\ turn[w].at = "model" /\ turn[w].n < MaxModelTurns
        /\ turn[w].m \in Messages /\ c \in Convs \cup {NoConv}
    BY DEF IInv, TypeOK, TurnRecord, ModelEscalates, AsksForTools
  <1>2. /\ AfterTools(turn[w]) \in TurnRecord /\ AfterTools(turn[w]).at = "model"
        /\ AfterTools(turn[w]).m \in Messages
    BY <1>1, Bounds DEF AfterTools, TurnRecord
  <1>3. /\ Write(w, c, AfterTools(turn[w]))
        /\ UNCHANGED <<now, used, inbox, throttle, deliveries, usage, history, faults>>
        /\ conv' = IF Exists(c) THEN [conv EXCEPT ![c].status = "escalated"] ELSE conv
    BY DEF ModelEscalates
  <1>4. conv \in [Convs -> ConvRecord \cup {NoRow}]
    BY DEF IInv, TypeOK, ConvRecord
  <1> HIDE DEF c
  <1>5. /\ conv' \in [Convs -> ConvRecord \cup {NoRow}]
        /\ \A d \in Convs : conv'[d] = NoRow <=> conv[d] = NoRow
        /\ \A d \in Convs : d # c \/ ~Exists(c) => conv'[d] = conv[d]
    <2>1. CASE Exists(c)
      <3>1. c \in Convs /\ conv[c] \in ConvRecord
        BY <1>1, <1>4, <2>1 DEF Exists
      <3>2. [conv[c] EXCEPT !.status = "escalated"] \in ConvRecord
        BY <3>1 DEF ConvRecord, Statuses
      <3>3. conv' = [conv EXCEPT ![c] = [conv[c] EXCEPT !.status = "escalated"]]
        BY <1>3, <1>4, <2>1, <3>1
      <3>4. NoRow \notin ConvRecord
        BY DEF NoRow, ConvRecord, Statuses
      <3> QED
        BY <1>4, <2>1, <3>1, <3>2, <3>3, <3>4
    <2>2. CASE ~Exists(c)
      BY <1>3, <1>4, <2>2
    <2> QED
      BY <2>1, <2>2
  <1> QED
    BY <1>1, <1>2, <1>3, <1>5, RowStep DEF c

LEMMA ReplyStep ==
    ASSUME IInv, NEW w \in Workers, Reply(w)
    PROVE  IInv'
  <1> DEFINE t == [turn[w] EXCEPT !.at = "record"]
  <1>1. turn[w] \in TurnRecord /\ turn[w].at = "model" /\ turn[w].m \in Messages
    BY DEF IInv, TypeOK, TurnRecord, Reply
  <1>2. t \in TurnRecord /\ t.at = "record" /\ t.m \in Messages
    BY <1>1 DEF TurnRecord
  <1>3. conv' \in [Convs -> ConvRecord \cup {NoRow}] /\ conv' = conv
    BY DEF IInv, TypeOK, ConvRecord, Reply
  <1>4. /\ Write(w, turn[w].c, t)
        /\ UNCHANGED <<now, used, inbox, throttle, deliveries, usage, history, faults>>
    BY DEF Reply
  <1> HIDE DEF t
  <1> QED
    BY <1>1, <1>2, <1>3, <1>4, RowStep

LEMMA RecordUseStep ==
    ASSUME IInv, NEW w \in Workers, RecordUse(w)
    PROVE  IInv'
  <1> USE DEF IInv
  <1>1. /\ turn[w].at = "record" /\ usage' = usage + 1 /\ turn' = [turn EXCEPT ![w] = Idle]
        /\ UNCHANGED <<now, conv, used, inbox, last, throttle, deliveries, calls, forgotten,
                       purge, faults>>
    BY DEF RecordUse, Stop, chat, history
  <1>2. HasMessage(Idle) /\ Idle.at = "idle"
    BY DEF HasMessage, Idle
  <1>3. /\ turn' \in [Workers -> TurnRecord] /\ turn'[w] = Idle
        /\ \A v \in Workers : v # w => turn'[v] = turn[v]
        /\ \A v \in Workers : HasMessage(turn'[v])
    BY <1>1, <1>2, IdleIsATurn, TurnMoves
  <1>4. TypeOK'
    BY <1>1, <1>3 DEF TypeOK, TurnRecord, HasMessage, Exists
  <1>5. BillInv' /\ PurgeInv'
    BY <1>1, <1>2, <1>3, NobodyIsBilled, PurgeFrame DEF history
  <1>6. OverrunIsBounded'
    <2>1. Passed' = Passed \ {w} /\ w \in Passed
      BY <1>1, <1>2, <1>3 DEF Passed
    <2>2. Cardinality(Passed') = Cardinality(Passed) - 1
      BY <2>1, PassedSize, FS_RemoveElement
    <2>3. usage \in Nat
      BY DEF TypeOK
    <2> HIDE DEF IInv
    <2>4. usage' + Cardinality(Passed') = usage + Cardinality(Passed)
      BY <1>1, <2>2, <2>3, PassedSize
    <2> QED
      BY <2>4 DEF IInv, OverrunIsBounded
  <1> QED
    BY <1>4, <1>5, <1>6

LEMMA TurnFailsStep ==
    ASSUME IInv, NEW w \in Workers, TurnFails(w)
    PROVE  IInv'
  <1> USE DEF IInv
  <1>1. /\ turn' = [turn EXCEPT ![w] = Idle] /\ faults' = faults + 1
        /\ UNCHANGED <<now, conv, used, inbox, last, throttle, deliveries, usage, calls,
                       forgotten, purge>>
    BY DEF TurnFails, Stop, chat, history
  <1>2. HasMessage(Idle) /\ Idle.at = "idle"
    BY DEF HasMessage, Idle
  <1>3. /\ turn' \in [Workers -> TurnRecord] /\ turn'[w] = Idle
        /\ \A v \in Workers : v # w => turn'[v] = turn[v]
        /\ \A v \in Workers : HasMessage(turn'[v])
    BY <1>1, <1>2, IdleIsATurn, TurnMoves
  <1>4. TypeOK'
    BY <1>1, <1>3 DEF TypeOK, TurnRecord, HasMessage, Exists
  <1>5. BillInv' /\ OverrunIsBounded' /\ PurgeInv'
    BY <1>1, <1>2, <1>3, NobodyIsBilled, NobodyPasses, PurgeFrame DEF history
  <1> QED
    BY <1>4, <1>5

LEMMA MarkResolvedStep ==
    ASSUME IInv, NEW c \in Convs, MarkResolved(c)
    PROVE  IInv'
  <1> USE DEF IInv
  <1>1. /\ conv[c].status \in {"open", "escalated"}
        /\ conv' = [conv EXCEPT ![c].status = "resolved"] /\ Touch(c)
        /\ UNCHANGED <<now, used, inbox, last, throttle, turn, deliveries, usage, calls,
                       forgotten, faults>>
    BY DEF MarkResolved, history
  <1>2. conv \in [Convs -> ConvRecord \cup {NoRow}]
    BY DEF TypeOK, ConvRecord
  <1>3. conv[c] \in ConvRecord /\ Exists(c) /\ NoRow \notin ConvRecord
    BY <1>1, <1>2, Bounds DEF NoRow, ConvRecord, Statuses, Exists
  <1>4. [conv[c] EXCEPT !.status = "resolved"] \in ConvRecord
    BY <1>3 DEF ConvRecord, Statuses
  <1>5. conv' = [conv EXCEPT ![c] = [conv[c] EXCEPT !.status = "resolved"]]
    BY <1>1, <1>2
  <1>6. /\ conv' \in [Convs -> ConvRecord \cup {NoRow}]
        /\ \A d \in Convs : conv'[d] = NoRow <=> conv[d] = NoRow
        /\ \A d \in Convs \ {c} : conv'[d] = conv[d] /\ last'[d] = last[d]
    BY <1>1, <1>2, <1>3, <1>4, <1>5
  <1>7. c \in used
    BY <1>3 DEF TypeOK
  <1>8. PurgeInv' /\ purge' \in PurgeRecord
    BY <1>1, <1>6, <1>7, TouchedIsExcused
  <1>9. TypeOK'
    BY <1>1, <1>6, <1>8 DEF TypeOK, ConvRecord, PurgeRecord, Exists
  <1>10. BillInv' /\ OverrunIsBounded'
    BY <1>1, NobodyIsBilled, NobodyPasses DEF history
  <1> QED
    BY <1>8, <1>9, <1>10

-----------------------------------------------------------------------------
(* The purge.                                                               *)

LEMMA PurgeRecordsTyped ==
    ASSUME TypeOK
    PROVE  purge \in PurgeRecord /\ NoPurge \in PurgeRecord
  BY Bounds DEF TypeOK, PurgeRecord, NoPurge

\* A step of the purge that deletes nothing.
LEMMA PurgeMoves ==
    ASSUME IInv, purge' \in PurgeRecord, faults' \in Nat,
           UNCHANGED <<now, chat, throttle, turn, deliveries, usage, history>>
    PROVE  TypeOK' /\ BillInv' /\ OverrunIsBounded'
  <1> USE DEF IInv, chat, history
  <1>1. TypeOK'
    BY DEF TypeOK, PurgeRecord, Exists
  <1>2. BillInv' /\ OverrunIsBounded'
    BY NobodyIsBilled, NobodyPasses
  <1> QED
    BY <1>1, <1>2

LEMMA PurgeReadStep == ASSUME IInv, PurgeRead PROVE IInv'
  <1> DEFINE cutoff == IF purge.at = "idle" THEN now - Retention ELSE purge.cutoff
  <1>1. cutoff \in Int /\ cutoff <= now - Retention
    BY Bounds DEF IInv, TypeOK, PurgeInv, CutoffIsPast
  <1>2. PICK b \in Batches(cutoff, purge.taken) :
            purge' = IF b.ids = {} THEN NoPurge
                     ELSE [NoPurge EXCEPT !.at = "read", !.cutoff = cutoff, !.ids = b.ids,
                                          !.more = b.more, !.taken = purge.taken]
    BY DEF PurgeRead
  <1>3. /\ UNCHANGED <<now, chat, throttle, turn, deliveries, usage, history, faults>>
        /\ faults' \in Nat
    BY DEF PurgeRead, IInv, TypeOK
  <1> HIDE DEF cutoff
  <1>4. b.ids \in SUBSET {c \in Convs : ExpiredAt(c, cutoff)} /\ b.more \in BOOLEAN
    <2> DEFINE due == {c \in Convs : ExpiredAt(c, cutoff)}
               take == IF BatchSize < MaxPerRun - purge.taken THEN BatchSize
                                                              ELSE MaxPerRun - purge.taken
    <2>1. PICK ids \in SUBSET due : b = [ids |-> ids, more |-> Cardinality(ids) = take]
      BY <1>2 DEF Batches
    <2> HIDE DEF due, take
    <2>2. b.ids = ids /\ b.more = (Cardinality(ids) = take)
      BY <2>1
    <2> QED
      BY <2>2 DEF due
  <1>5. b.ids \subseteq used
    BY <1>4 DEF ExpiredAt, IInv, TypeOK
  <1>6. /\ purge' \in PurgeRecord /\ purge'.at \in {"idle", "read"}
        /\ purge'.at = "read" => purge'.cutoff = cutoff
    BY <1>1, <1>2, <1>4, <1>5, PurgeRecordsTyped DEF IInv, PurgeRecord, NoPurge
  <1>7. PurgeInv'
    BY <1>1, <1>3, <1>6 DEF PurgeInv, CutoffIsPast, CheckedIsExpired
  <1> QED
    BY <1>3, <1>6, <1>7, PurgeMoves DEF IInv

LEMMA PurgeCheckStep == ASSUME IInv, PurgeCheck PROVE IInv'
  <1> DEFINE ids == StillEligible(purge.ids, purge.cutoff)
  <1>1. /\ purge.at = "read"
        /\ purge' = IF ids = {} THEN NoPurge
                    ELSE [purge EXCEPT !.at = "checked", !.ids = ids, !.touched = {}]
        /\ UNCHANGED <<now, chat, throttle, turn, deliveries, usage, history, faults>>
        /\ faults' \in Nat
    BY DEF PurgeCheck, IInv, TypeOK
  <1>2. ids \subseteq purge.ids /\ \A c \in ids : ExpiredAt(c, purge.cutoff)
    BY DEF StillEligible
  <1> HIDE DEF ids
  <1>3. /\ purge' \in PurgeRecord /\ purge'.at \in {"idle", "checked"}
        /\ purge'.at = "checked" => purge'.cutoff = purge.cutoff /\ purge'.ids = ids
    BY <1>1, <1>2, PurgeRecordsTyped DEF IInv, PurgeRecord, NoPurge
  <1>4. PurgeInv'
    <2>1. CutoffIsPast'
      BY <1>1, <1>3 DEF IInv, PurgeInv, CutoffIsPast
    <2>2. CheckedIsExpired'
      BY <1>1, <1>2, <1>3 DEF CheckedIsExpired, ExpiredAt, Exists, chat
    <2> QED
      BY <2>1, <2>2 DEF PurgeInv
  <1> QED
    BY <1>1, <1>3, <1>4, PurgeMoves DEF IInv

LEMMA PurgeFailsStep == ASSUME IInv, PurgeFails PROVE IInv'
  <1>1. /\ purge' = NoPurge /\ faults' = faults + 1 /\ faults' \in Nat
        /\ UNCHANGED <<now, chat, throttle, turn, deliveries, usage, history>>
    BY DEF PurgeFails, IInv, TypeOK
  <1>2. purge' \in PurgeRecord /\ purge'.at = "idle"
    BY <1>1, PurgeRecordsTyped DEF IInv, NoPurge
  <1>3. PurgeInv'
    BY <1>2 DEF PurgeInv, CutoffIsPast, CheckedIsExpired
  <1> QED
    BY <1>1, <1>2, <1>3, PurgeMoves DEF IInv

LEMMA PurgeDeleteStep == ASSUME IInv, PurgeDelete PROVE IInv'
  <1> USE DEF IInv
  <1> DEFINE taken == purge.taken + Cardinality(purge.ids)
  <1>1. /\ purge.at = "checked"
        /\ conv' = [c \in Convs |-> IF c \in purge.ids THEN NoRow ELSE conv[c]]
        /\ inbox' = {row \in inbox : row.c \notin purge.ids}
        /\ forgotten' = forgotten \cup {row.m : row \in inbox \ inbox'}
        /\ last' = [c \in Convs |-> IF c \in purge.ids THEN 0 ELSE last[c]]
        /\ throttle' = [c \in Convs |-> IF c \in purge.ids THEN Calm ELSE throttle[c]]
        /\ purge' = IF purge.more /\ taken < MaxPerRun
                    THEN [NoPurge EXCEPT !.at = "again", !.cutoff = purge.cutoff,
                                         !.taken = taken]
                    ELSE NoPurge
        /\ UNCHANGED <<now, used, turn, deliveries, usage, calls, faults>>
    BY DEF PurgeDelete, Remaining
  <1>2. purge \in PurgeRecord /\ purge.taken \in Nat /\ purge.ids \in SUBSET (1..MaxConvs)
    <2>1. purge \in PurgeRecord /\ used \subseteq 1..MaxConvs
      BY PurgeRecordsTyped DEF TypeOK, Convs
    <2>2. purge.ids \in SUBSET used /\ purge.taken \in 0..MaxPerRun
      BY <2>1 DEF PurgeRecord
    <2> HIDE DEF IInv
    <2>3. 0..MaxPerRun \subseteq Nat
      BY Bounds
    <2>4. purge.ids \in SUBSET (1..MaxConvs)
      BY <2>1, <2>2
    <2> QED
      BY <2>1, <2>2, <2>3, <2>4
  <1>3. Cardinality(purge.ids) \in Nat
    <2>1. IsFiniteSet(1..MaxConvs)
      BY Bounds, FS_Interval
    <2> QED
      BY <1>2, <2>1, FS_Subset, FS_CardinalityType
  <1>4. taken \in Nat
    BY <1>2, <1>3
  <1> HIDE DEF taken
  <1>5. /\ purge' \in PurgeRecord /\ purge'.at \in {"idle", "again"}
        /\ purge'.at = "again" => purge'.cutoff = purge.cutoff
    <2>1. CASE purge.more /\ taken < MaxPerRun
      <3>1. purge' = [NoPurge EXCEPT !.at = "again", !.cutoff = purge.cutoff, !.taken = taken]
        BY <1>1, <2>1
      <3>2. taken \in 0..MaxPerRun /\ purge.cutoff \in Int /\ NoPurge \in PurgeRecord
        BY <1>2, <1>4, <2>1, Bounds, PurgeRecordsTyped DEF PurgeRecord
      <3> HIDE DEF IInv
      <3> QED
        BY <3>1, <3>2 DEF PurgeRecord, NoPurge
    <2>2. CASE ~(purge.more /\ taken < MaxPerRun)
      <3>1. purge' = NoPurge
        BY <1>1, <2>2
      <3> QED
        BY <3>1, PurgeRecordsTyped DEF NoPurge
    <2> QED
      BY <2>1, <2>2
  <1>6. PurgeInv'
    BY <1>1, <1>5 DEF PurgeInv, CutoffIsPast, CheckedIsExpired
  <1>7. /\ conv' \in [Convs -> ConvRecord \cup {NoRow}]
        /\ last' \in [Convs -> Nat]
        /\ throttle' \in [Convs -> [texts : SUBSET {TextOf[m] : m \in Messages},
                                    count : 0..MessageLimit]]
    BY <1>1, Bounds DEF TypeOK, ConvRecord, Calm
  <1>8. \A c \in Convs : Exists(c)' <=> Exists(c) /\ c \notin purge.ids
    BY <1>1 DEF Exists
  <1>9. forgotten' \subseteq WhatsApp /\ inbox' \subseteq inbox
    BY <1>1 DEF TypeOK
  <1>10. TypeOK'
    BY <1>1, <1>5, <1>7, <1>8, <1>9 DEF TypeOK, ConvRecord, PurgeRecord
  <1>11. \A m \in WhatsApp \ forgotten' : m \notin forgotten /\ (Seen(m) => \E row \in inbox' : row.m = m)
    BY <1>1 DEF Seen
  <1>12. BillInv'
    BY <1>1, <1>11 DEF BillInv, BilledOncePerMessage, BilledIsStored, BudgetIsFirst, Seen
  <1>13. OverrunIsBounded'
    BY <1>1, NobodyPasses
  <1> QED
    BY <1>6, <1>10, <1>12, <1>13

LEMMA StutterStep == ASSUME IInv, UNCHANGED vars PROVE IInv'
  <1> USE DEF IInv, vars, chat, history
  <1>1. TypeOK'
    BY DEF TypeOK, Exists
  <1>2. BillInv' /\ OverrunIsBounded' /\ PurgeInv'
    BY NobodyIsBilled, NobodyPasses, PurgeFrame
  <1> QED
    BY <1>1, <1>2

-----------------------------------------------------------------------------
LEMMA NextStep == IInv /\ [Next]_vars => IInv'
  <1> SUFFICES ASSUME IInv, [Next]_vars PROVE IInv'
    OBVIOUS
  <1>1. CASE \E w \in Workers : TurnStep(w)
    BY <1>1, FindThreadStep, OpenThreadStep, EnterStep, StoreStep, BudgetStep,
       ModelUsesToolsStep, ModelEscalatesStep, ReplyStep, RecordUseStep DEF TurnStep
  <1>2. CASE PurgeStep
    BY <1>2, PurgeReadStep, PurgeCheckStep, PurgeDeleteStep DEF PurgeStep
  <1>3. CASE \E w \in Workers : EnterUnthrottled(w) \/ TurnFails(w)
    BY <1>3, EnterUnthrottledStep, TurnFailsStep
  <1>4. CASE \E w \in Workers, m \in WhatsApp : Receive(w, m)
    BY <1>4, ReceiveStep
  <1>5. CASE \E w \in Workers, m \in Web, c \in Convs \cup {NoConv} : TypeMessage(w, m, c)
    BY <1>5, TypeMessageStep
  <1>6. CASE \E c \in Convs : Lapse(c) \/ MarkResolved(c)
    BY <1>6, LapseStep, MarkResolvedStep
  <1> QED
    BY <1>1, <1>2, <1>3, <1>4, <1>5, <1>6, TickStep, PurgeFailsStep, StutterStep DEF Next

\* Only the purge's delete takes a conversation away.
LEMMA RowsAreKept ==
    ASSUME IInv, NEW c \in Convs, Exists(c), Next, ~PurgeDelete
    PROVE  conv'[c] # NoRow
  <1> USE DEF IInv
  <1>1. conv[c] # NoRow
    BY DEF Exists
  <1>2. CASE conv' = conv
    BY <1>1, <1>2
  <1>3. ASSUME NEW d \in Convs, NEW row \in ConvRecord, Create(d, row)
        PROVE  conv'[c] # NoRow
    BY <1>1, <1>3 DEF Create, TypeOK, NoRow, ConvRecord, Statuses
  <1>4. CASE \E w \in Workers : OpenThread(w)
    <2>1. PICK w \in Workers : OpenThread(w)
      BY <1>4
    <2>2. Row("whatsapp", Author(turn[w].m)) \in ConvRecord
      BY RowsAreTyped DEF TypeOK
    <2> QED
      BY <1>3, <2>1, <2>2 DEF OpenThread
  <1>5. CASE \E w \in Workers : Enter(w)
    <2>1. PICK w \in Workers : Enter(w)
      BY <1>5
    <2>2. Row("web", Author(turn[w].m)) \in ConvRecord
      BY RowsAreTyped DEF TypeOK
    <2> QED
      BY <1>2, <1>3, <2>1, <2>2 DEF Enter, chat
  <1>6. ASSUME NEW d, NEW status \in Statuses, conv' = [conv EXCEPT ![d].status = status]
        PROVE  conv'[c] # NoRow
    <2>1. conv \in [Convs -> ConvRecord \cup {NoRow}] /\ conv[c] \in ConvRecord
      BY <1>1 DEF TypeOK, ConvRecord
    <2>2. conv'[c] = conv[c] \/ conv'[c] = [conv[c] EXCEPT !.status = status]
      BY <1>6, <2>1
    <2> QED
      BY <1>1, <2>1, <2>2 DEF ConvRecord, NoRow, Statuses
  <1>7. CASE \E w \in Workers : ModelEscalates(w)
    <2>1. PICK w \in Workers : ModelEscalates(w)
      BY <1>7
    <2>2. conv' = conv \/ conv' = [conv EXCEPT ![turn[w].c].status = "escalated"]
      BY <2>1 DEF ModelEscalates
    <2> QED
      BY <1>2, <1>6, <2>2 DEF Statuses
  <1>8. CASE \E d \in Convs : MarkResolved(d)
    BY <1>6, <1>8 DEF MarkResolved, Statuses
  <1>9. Tick => conv' = conv
    BY DEF Tick, chat
  <1>10. \A w \in Workers, m \in WhatsApp : Receive(w, m) => conv' = conv
    BY DEF Receive, chat
  <1>11. \A w \in Workers, m \in Web, d \in Convs \cup {NoConv} :
            TypeMessage(w, m, d) => conv' = conv
    BY DEF TypeMessage, chat
  <1>12. \A w \in Workers : FindThread(w) \/ Store(w) \/ Budget(w) \/ ModelUsesTools(w)
                             \/ Reply(w) => conv' = conv
    BY DEF FindThread, Store, Budget, ModelUsesTools, Reply, chat
  <1>13. \A w \in Workers : RecordUse(w) \/ EnterUnthrottled(w) \/ TurnFails(w)
                             => conv' = conv
    BY DEF RecordUse, EnterUnthrottled, TurnFails, chat
  <1>14. (\E d \in Convs : Lapse(d)) => conv' = conv
    BY DEF Lapse, chat
  <1>15. PurgeRead \/ PurgeCheck \/ PurgeFails => conv' = conv
    BY DEF PurgeRead, PurgeCheck, PurgeFails, chat
  <1> HIDE DEF IInv
  <1> QED
    BY <1>2, <1>4, <1>5, <1>7, <1>8, <1>9, <1>10, <1>11, <1>12, <1>13, <1>14, <1>15
       DEF Next, TurnStep, PurgeStep

(****************************************************************************)
(* The inductive invariant holds in every reachable state.                  *)
(****************************************************************************)
THEOREM ConversationInvariant == Spec => []IInv
  BY InitIInv, NextStep, PTL DEF Spec

(****************************************************************************)
(* The rows and the turns are of their types.                               *)
(****************************************************************************)
THEOREM ConversationTypeOK == Spec => []TypeOK
  <1>1. IInv => TypeOK
    BY DEF IInv
  <1> QED
    BY <1>1, ConversationInvariant, PTL

(****************************************************************************)
(* A WhatsApp message reaches the model once, however many deliveries of it *)
(* are handled at one time, while its row is kept (Message's unique index   *)
(* on externalId, agent.service.ts).                                        *)
(****************************************************************************)
THEOREM MessagesAreBilledOnce == Spec => []BilledOncePerMessage
  <1>1. IInv => BilledOncePerMessage
    BY DEF IInv, BillInv
  <1> QED
    BY <1>1, ConversationInvariant, PTL

(****************************************************************************)
(* The monthly budget is overrun by fewer turns than there are workers      *)
(* (AgentBudgetService.check and record).                                   *)
(****************************************************************************)
THEOREM OverrunBounded == Spec => []OverrunIsBounded
  <1>1. IInv => OverrunIsBounded
    BY DEF IInv
  <1> QED
    BY <1>1, ConversationInvariant, PTL

(****************************************************************************)
(* The purge deletes what was silent for the whole retention period and not *)
(* escalated, but for what was touched inside its transaction               *)
(* (purgeTenantBatch).                                                      *)
(****************************************************************************)
THEOREM PurgeSparesLive == Spec => PurgeSparesTheLive
  <1> DEFINE Spares ==
        \A c \in Convs : Exists(c) /\ conv'[c] = NoRow =>
          \/ c \in purge.touched
          \/ /\ conv[c].status # "escalated"
             /\ conv[c].started < now - Retention
             /\ last[c] < now - Retention
  <1>1. IInv /\ [Next]_vars => [Spares]_vars
    <2> SUFFICES ASSUME IInv, Next, NEW c \in Convs, Exists(c), conv'[c] = NoRow,
                        c \notin purge.touched
                 PROVE  /\ conv[c].status # "escalated"
                        /\ conv[c].started < now - Retention
                        /\ last[c] < now - Retention
      OBVIOUS
    <2>1. PurgeDelete
      BY RowsAreKept
    <2>2. purge.at = "checked" /\ c \in purge.ids
      BY <2>1 DEF PurgeDelete, Exists
    <2>3. ExpiredAt(c, purge.cutoff) /\ purge.cutoff <= now - Retention
      BY <2>2 DEF IInv, PurgeInv, CheckedIsExpired, CutoffIsPast
    <2>4. /\ conv[c].started \in Nat /\ last[c] \in Nat /\ now \in Nat
          /\ purge.cutoff \in Int
      BY DEF IInv, TypeOK, Exists
    <2>5. /\ conv[c].status # "escalated"
          /\ conv[c].started < purge.cutoff /\ last[c] < purge.cutoff
      BY <2>3 DEF ExpiredAt, Protected
    <2> QED
      BY <2>3, <2>4, <2>5, Bounds
  <1> QED
    BY <1>1, ConversationInvariant, PTL DEF Spec, PurgeSparesTheLive
=============================================================================
