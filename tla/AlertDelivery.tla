--------------------------- MODULE AlertDelivery ---------------------------
(***************************************************************************)
(* Recording an alert (alerts::record in src/alerts.rs): the row first,    *)
(* then the legacy webhook, the channels operators configured, and a       *)
(* NOTIFY that the API's listener (src/events.rs) forwards to the browsers *)
(* connected to /events.  Nothing after the row is retried, and nothing    *)
(* that fails may keep the rest from happening.                            *)
(*                                                                         *)
(* The ingester records one alert at a time; ingest modules say which.     *)
(* What a webhook answers only decides what is logged, so that a post is   *)
(* the same to the rest whether it succeeds or not.                        *)
(***************************************************************************)
EXTENDS Integers, Sequences, FiniteSets

CONSTANTS
    Total,          \* alerts raised, numbered as they are (a bound)
    FindingOf,      \* per alert what was found
    Channels,       \* ids of the rows the alert_channels table may hold
    Webhook,        \* ALERT_WEBHOOK_URL
    WebhookMin,     \* ALERT_MIN_SEVERITY, or Off without a webhook
    FirstChannels,  \* the channels configured at the start
    Capacity,       \* messages the broadcast bus holds; 256 in the code
    MaxEdits,       \* bound on edits of the channels
    MaxFaults,      \* bound on failed calls, lost connections and crashes
    Off,            \* no such channel, or not enabled
    NoJob

Alerts == 1..Total

(* What calls record: a payment and the threshold it cleared, a drop and   *)
(* the threshold it exceeded, in percent, or a lending position's risk.    *)
Findings ==
    [kind : {"whale", "drop"}, size : Nat, threshold : Nat]
    \cup [kind : {"risk"}, level : {"LOW", "MEDIUM", "HIGH", "CRITICAL"}]

Info == 1
Warning == 2
Critical == 3

Severities == {Info, Warning, Critical}

(* severity_for_risk_level.                                                *)
SeverityOfRisk(level) ==
    CASE level = "CRITICAL" -> Critical [] level = "HIGH" -> Warning [] OTHER -> Info

(* severity_for_whale_multiple; a threshold of zero is no measure.         *)
SeverityOfWhale(size, threshold) ==
    IF      threshold = 0          THEN Info
    ELSE IF size >= 20 * threshold THEN Critical
    ELSE IF size >= 5 * threshold  THEN Warning
    ELSE Info

(* severity_for_liquidity_drop, severity_for_holder_drop.                  *)
SeverityOfDrop(size, threshold) == IF size >= 2 * threshold THEN Critical ELSE Warning

SeverityOf(alert) ==
    LET found == FindingOf[alert]
    IN  CASE found.kind = "risk"  -> SeverityOfRisk(found.level)
          [] found.kind = "whale" -> SeverityOfWhale(found.size, found.threshold)
          [] found.kind = "drop"  -> SeverityOfDrop(found.size, found.threshold)

ASSUME DeliveryAssumption ==
    /\ Total \in Nat
    /\ FindingOf \in [Alerts -> Findings]
    /\ Channels \subseteq Nat
    /\ Webhook \notin Channels
    /\ Off \notin Severities
    /\ WebhookMin \in Severities \cup {Off}
    /\ FirstChannels \in [Channels -> Severities \cup {Off}]
    /\ Capacity \in Nat \ {0} /\ MaxEdits \in Nat /\ MaxFaults \in Nat

Targets == Channels \cup {Webhook}

VARIABLES
    stored,     \* the alerts table, oldest row first
    raised,     \* the number of alerts record has been called for
    channels,   \* per channel its minimum severity, or Off
    job,        \* the call of record under way
    listening,  \* the API's LISTEN connection is up
    streaming,  \* the browser's connection to /events is up
    inbox,      \* notifications on their way to the browser
    edits, faults

deliveryVars ==
    <<stored, raised, channels, job, listening, streaming, inbox, edits, faults>>

Stored == {stored[i] : i \in DOMAIN stored}

(* A severity meets a target's minimum.                                    *)
Meets(alert, min) == min # Off /\ SeverityOf(alert) >= min

WebhookDue(alert) == IF Meets(alert, WebhookMin) THEN {Webhook} ELSE {}

(* Faulty variant of ChannelsDue: an alert must exceed the minimum.        *)
ChannelsDueAbove(alert) ==
    {c \in Channels : channels[c] # Off /\ SeverityOf(alert) > channels[c]}

ChannelsDue(alert) == {c \in Channels : Meets(alert, channels[c])}

DeliveryInit ==
    /\ stored = <<>>
    /\ raised = 0
    /\ channels = FirstChannels
    /\ job = NoJob
    /\ listening = TRUE /\ streaming = TRUE
    /\ inbox = <<>>
    /\ edits = 0 /\ faults = 0

Fault == faults < MaxFaults /\ faults' = faults + 1

At(stage) == job # NoJob /\ job.stage = stage
----------------------------------------------------------------------------
(* record, step by step.  job.due is what the job has found it owes, and   *)
(* job.tried what it has posted to.                                        *)

Raise ==
    /\ job = NoJob
    /\ raised < Total
    /\ raised' = raised + 1
    /\ job' = [alert |-> raised + 1, stage |-> "insert", due |-> {}, tried |-> {}]
    /\ UNCHANGED <<stored, channels, listening, streaming, inbox, edits, faults>>

Insert ==
    /\ At("insert")
    /\ stored' = Append(stored, job.alert)
    /\ job' = [job EXCEPT !.stage = "webhook"]
    /\ UNCHANGED <<raised, channels, listening, streaming, inbox, edits, faults>>

(* Faulty variant of InsertFails: the error is swallowed.                  *)
InsertSwallowed ==
    /\ At("insert")
    /\ Fault
    /\ job' = [job EXCEPT !.stage = "webhook"]
    /\ UNCHANGED <<stored, raised, channels, listening, streaming, inbox, edits>>

(* The insert fails, or its answer is lost: record returns, and the caller *)
(* logs it.                                                                *)
InsertFails ==
    /\ At("insert")
    /\ Fault
    /\ stored' \in {stored, Append(stored, job.alert)}
    /\ job' = NoJob
    /\ UNCHANGED <<raised, channels, listening, streaming, inbox, edits>>

(* deliver_legacy_webhook, whatever the endpoint answers.                  *)
PostWebhook ==
    /\ At("webhook")
    /\ job' = [job EXCEPT !.stage = "channels",
                          !.due = WebhookDue(job.alert), !.tried = WebhookDue(job.alert)]
    /\ UNCHANGED <<stored, raised, channels, listening, streaming, inbox, edits, faults>>

(* deliver_to_channels reads the enabled channels once.                    *)
LoadChannels ==
    /\ At("channels")
    /\ job' = [job EXCEPT !.stage = "send", !.due = @ \cup ChannelsDue(job.alert)]
    /\ UNCHANGED <<stored, raised, channels, listening, streaming, inbox, edits, faults>>

(* Without them it returns: no channel is posted to.                       *)
LoadChannelsFails ==
    /\ At("channels")
    /\ Fault
    /\ job' = [job EXCEPT !.stage = "notify"]
    /\ UNCHANGED <<stored, raised, channels, listening, streaming, inbox, edits>>

(* One channel's post, in the order of their ids; it may fail or time out: *)
(* the loop goes on.                                                       *)
Send ==
    /\ At("send")
    /\ \E c \in job.due \ job.tried :
          /\ \A d \in job.due \ job.tried : c <= d
          /\ job' = [job EXCEPT !.tried = @ \cup {c}]
    /\ UNCHANGED <<stored, raised, channels, listening, streaming, inbox, edits, faults>>

AllSent ==
    /\ At("send")
    /\ job.due \subseteq job.tried
    /\ job' = [job EXCEPT !.stage = "notify"]
    /\ UNCHANGED <<stored, raised, channels, listening, streaming, inbox, edits, faults>>

(* Faulty variant of Deliver: an unbounded queue.                          *)
DeliverAll(queue, alert) == Append(queue, alert)

(* The bus forgets its oldest message for a subscriber that lags behind.   *)
Deliver(queue, alert) ==
    Append(IF Len(queue) < Capacity THEN queue ELSE Tail(queue), alert)

(* pg_notify reaches whoever listens at this moment.                       *)
Notify ==
    /\ At("notify")
    /\ inbox' = IF listening /\ streaming THEN Deliver(inbox, job.alert) ELSE inbox
    /\ job' = NoJob
    /\ UNCHANGED <<stored, raised, channels, listening, streaming, edits, faults>>

NotifyFails ==
    /\ At("notify")
    /\ Fault
    /\ job' = NoJob
    /\ UNCHANGED <<stored, raised, channels, listening, streaming, inbox, edits>>

(* The ingester is killed: what record had not done is never done.         *)
Crash ==
    /\ job # NoJob
    /\ Fault
    /\ job' = NoJob
    /\ UNCHANGED <<stored, raised, channels, listening, streaming, inbox, edits>>
----------------------------------------------------------------------------
(* Meanwhile.                                                              *)

(* create_alert_channel, enabled, and delete_alert_channel.                *)
EditChannel(c) ==
    /\ edits < MaxEdits
    /\ edits' = edits + 1
    /\ \E min \in IF channels[c] = Off THEN Severities ELSE {Off} :
          channels' = [channels EXCEPT ![c] = min]
    /\ UNCHANGED <<stored, raised, job, listening, streaming, inbox, faults>>

(* The LISTEN connection breaks: what it had not forwarded is gone.        *)
ListenerLost ==
    /\ listening
    /\ Fault
    /\ listening' = FALSE
    /\ \E n \in 0..Len(inbox) : inbox' = SubSeq(inbox, 1, n)
    /\ UNCHANGED <<stored, raised, channels, job, streaming, edits>>

(* The outer loop of listen_and_forward, after its pause.                  *)
ListenerReturns ==
    /\ ~ listening
    /\ listening' = TRUE
    /\ UNCHANGED <<stored, raised, channels, job, streaming, inbox, edits, faults>>

(* The browser's EventSource loses its connection, and retries.            *)
StreamLost ==
    /\ streaming
    /\ Fault
    /\ streaming' = FALSE
    /\ inbox' = <<>>
    /\ UNCHANGED <<stored, raised, channels, job, listening, edits>>

StreamReturns ==
    /\ ~ streaming
    /\ streaming' = TRUE
    /\ UNCHANGED <<stored, raised, channels, job, listening, inbox, edits, faults>>
----------------------------------------------------------------------------
RecordStep ==
    \/ Insert \/ InsertFails \/ PostWebhook
    \/ LoadChannels \/ LoadChannelsFails
    \/ Send \/ AllSent \/ Notify \/ NotifyFails

DeliveryNext ==
    \/ Raise \/ RecordStep \/ Crash
    \/ (\E c \in Channels : EditChannel(c))
    \/ ListenerLost \/ ListenerReturns \/ StreamLost \/ StreamReturns

(* The calls record makes answer or time out (15 seconds, ingest.rs:48),   *)
(* and both connections are tried again and again.                         *)
DeliveryFairness ==
    /\ WF_deliveryVars(RecordStep)
    /\ WF_deliveryVars(ListenerReturns) /\ WF_deliveryVars(StreamReturns)
----------------------------------------------------------------------------
(* Properties.                                                             *)

Job == [alert : Alerts, stage : {"insert", "webhook", "channels", "send", "notify"},
        due : SUBSET Targets, tried : SUBSET Targets]

DeliveryTypeOK ==
    /\ stored \in Seq(Alerts)
    /\ raised \in 0..Total
    /\ channels \in [Channels -> Severities \cup {Off}]
    /\ job \in Job \cup {NoJob}
    /\ listening \in BOOLEAN /\ streaming \in BOOLEAN
    /\ inbox \in Seq(Alerts) /\ Len(inbox) <= Capacity
    /\ edits \in 0..MaxEdits /\ faults \in 0..MaxFaults

(* The targets whose minimum, as configured at the start, an alert meets.  *)
Configured(alert) ==
    {t \in Targets :
        LET min == IF t = Webhook THEN WebhookMin ELSE FirstChannels[t]
        IN  min # Off /\ SeverityOf(alert) >= min}

(* By the time an alert is announced it has been posted to all it was      *)
(* found due to and to no other, whatever posts fail and channels change   *)
(* meanwhile: "one channel's failure never blocks the others"              *)
(* (alerts.rs:168-170).  As long as nothing but posts failed and nobody    *)
(* touched the channels, that is each target whose minimum it meets.       *)
DeliveredExactly ==
    At("notify") =>
       /\ job.tried = job.due
       /\ edits = 0 /\ faults = 0 => job.tried = Configured(job.alert)

(* A row is stored at most once, and what is announced or being delivered  *)
(* is stored: whoever hears of an alert can read it, and no target hears   *)
(* of an alert the table never had (record's `?` at alerts.rs:124).        *)
AnnouncedIsStored ==
    /\ \A i, j \in DOMAIN stored : stored[i] = stored[j] => i = j
    /\ \A i \in DOMAIN inbox : inbox[i] \in Stored
    /\ job # NoJob /\ job.stage # "insert" => job.alert \in Stored
============================================================================
