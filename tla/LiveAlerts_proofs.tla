------------------------- MODULE LiveAlerts_proofs -------------------------
(***************************************************************************)
(* Proofs about AlertDelivery and LiveAlerts for any number of alerts,     *)
(* channels, requests, faults and edits, and every window and capacity of  *)
(* the bus: every alert announced is stored once and was posted to all it  *)
(* was due to, and none is acknowledged that nobody was shown.             *)
(***************************************************************************)
EXTENDS LiveAlerts, TLAPS

(* The job records the alert raised last, which has no row before its      *)
(* insert; up to the channels it has posted to all it owes, and while it   *)
(* goes through them to nothing else.                                      *)
JobOK ==
    job # NoJob =>
       /\ job.alert = raised
       /\ job.stage = "insert"   => job.alert \notin Stored
       /\ job.stage = "channels" => job.tried = job.due /\ job.due = WebhookDue(job.alert)
       /\ job.stage = "send"     => job.tried \subseteq job.due
       /\ job.stage = "send" /\ edits = 0 /\ faults = 0 => job.due = Configured(job.alert)

(* Channels nobody touched are those of the start.                         *)
ChannelsFirst == edits = 0 => channels = FirstChannels

(* No row is of an alert yet to be raised.                                 *)
RowsRaised == \A i \in DOMAIN stored : stored[i] <= raised

DeliveryInv ==
    /\ DeliveryTypeOK /\ JobOK /\ ChannelsFirst /\ RowsRaised
    /\ DeliveredExactly /\ AnnouncedIsStored

(* What is shown, and what is acknowledged from it, some operator has seen *)
(* and so the table holds; answers on their way show rows.                 *)
ShownIsSeen   == \A a \in Alerts : shown[a] # "absent" => a \in seen
OpIsSeen      == op # NoJob => op.ids \subseteq seen
AnswersStored ==
    \A f \in Fetches : fetch[f] \notin {Free, Asked} =>
       \A a \in Alerts : fetch[f][a] # "absent" => a \in Stored

PageTypes ==
    /\ acked \subseteq Stored
    /\ shown \in Answers
    /\ fetch \in [Fetches -> Answers \cup {Free, Asked}]
    /\ op \in [kind : {"ack", "unack"}, ids : SUBSET Stored, done : BOOLEAN] \cup {NoJob}
    /\ ops \in 0..MaxOps
    /\ seen \subseteq Stored

PageInv == PageTypes /\ ShownIsSeen /\ OpIsSeen /\ AnswersStored /\ UnseenStaysNew

Inv == DeliveryInv /\ PageInv
----------------------------------------------------------------------------
(* Rows are only ever added, one alert at a time.                          *)

LEMMA StoredGrows ==
    ASSUME NEW s \in Seq(Alerts), NEW a \in Alerts
    PROVE  /\ Append(s, a) \in Seq(Alerts)
           /\ {Append(s, a)[i] : i \in DOMAIN Append(s, a)} = {s[i] : i \in DOMAIN s} \cup {a}
<1>1. Append(s, a) \in Seq(Alerts) /\ DOMAIN Append(s, a) = 1..(Len(s) + 1)
  OBVIOUS
<1>2. /\ Append(s, a)[Len(s) + 1] = a
      /\ \A i \in DOMAIN s : i \in DOMAIN Append(s, a) /\ Append(s, a)[i] = s[i]
      /\ \A i \in DOMAIN Append(s, a) : i = Len(s) + 1 \/ i \in DOMAIN s
      /\ Len(s) + 1 \in DOMAIN Append(s, a)
  OBVIOUS
<1>3. \A x : x \in {Append(s, a)[i] : i \in DOMAIN Append(s, a)}
             <=> x \in {s[i] : i \in DOMAIN s} \cup {a}
  BY <1>2, Zenon
<1>. QED
  BY <1>1, <1>3

LEMMA DeliveryStart == DeliveryInit => DeliveryInv
  BY DeliveryAssumption
     DEF DeliveryInit, DeliveryInv, DeliveryTypeOK, JobOK, ChannelsFirst, RowsRaised, DeliveredExactly,
         AnnouncedIsStored, At, Stored, Alerts

(* What a step of the job that writes no row must see to.                  *)
LEMMA JobMoves ==
    ASSUME DeliveryInv, job # NoJob, NEW stage \in {"webhook", "channels", "send", "notify"},
           NEW due \in SUBSET Targets, NEW tried \in SUBSET Targets,
           job.stage # "insert",
           job' = [job EXCEPT !.stage = stage, !.due = due, !.tried = tried],
           stage = "channels" => tried = due,
           stage = "send" => tried \subseteq due,
           stage = "notify" => tried = due,
           stage = "channels" => due = WebhookDue(job.alert),
           stage \in {"send", "notify"} /\ edits = 0 /\ faults' = 0 =>
              due = Configured(job.alert),
           faults' \in 0..MaxFaults,
           UNCHANGED <<stored, raised, channels, listening, streaming, inbox, edits>>
    PROVE  DeliveryInv'
<1>1. job \in Job
  BY DEF DeliveryInv, DeliveryTypeOK
<1>2. /\ job' \in Job /\ job'.alert = job.alert /\ job'.stage = stage
      /\ job'.due = due /\ job'.tried = tried
  BY <1>1 DEF Job
<1>3. Stored' = Stored
  BY DEF Stored
<1>4. DeliveryTypeOK'
  BY <1>2 DEF DeliveryInv, DeliveryTypeOK
<1>5. WebhookDue(job.alert)' = WebhookDue(job.alert) /\ Configured(job.alert)' = Configured(job.alert)
  BY <1>2 DEF WebhookDue, Configured, Meets, SeverityOf
<1>6. JobOK' /\ DeliveredExactly'
  BY <1>2, <1>3, <1>5 DEF DeliveryInv, JobOK, DeliveredExactly, At
<1>. QED
  BY <1>2, <1>3, <1>4, <1>6 DEF DeliveryInv, ChannelsFirst, RowsRaised, AnnouncedIsStored

(* The job ends, and perhaps something happens to what it has sent.        *)
LEMMA JobEnds ==
    ASSUME DeliveryInv, job' = NoJob \/ job' = job,
           inbox' \in Seq(Alerts), Len(inbox') <= Capacity,
           \A i \in DOMAIN inbox' : inbox'[i] \in Stored,
           listening' \in BOOLEAN, streaming' \in BOOLEAN,
           channels' \in [Channels -> Severities \cup {Off}],
           edits' \in 0..MaxEdits, faults' \in 0..MaxFaults,
           edits' = 0 => edits = 0 /\ channels' = channels, faults' = 0 => faults = 0,
           UNCHANGED <<stored, raised>>
    PROVE  DeliveryInv'
<1>1. Stored' = Stored
  BY DEF Stored
<1>2. DeliveryTypeOK'
  BY DEF DeliveryInv, DeliveryTypeOK
<1>3. JobOK' /\ DeliveredExactly'
  BY <1>1 DEF DeliveryInv, JobOK, DeliveredExactly, At, WebhookDue, Configured, Meets, SeverityOf
<1>. QED
  BY <1>1, <1>2, <1>3 DEF DeliveryInv, ChannelsFirst, RowsRaised, AnnouncedIsStored

(* The row of the job's alert enters the table.                            *)
LEMMA RowStored ==
    ASSUME DeliveryInv, At("insert"), stored' = Append(stored, job.alert),
           \/ job' = NoJob
           \/ job' = [job EXCEPT !.stage = "webhook"],
           faults' \in 0..MaxFaults,
           UNCHANGED <<raised, channels, listening, streaming, inbox, edits>>
    PROVE  DeliveryInv' /\ Stored' = Stored \cup {job.alert}
<1>1. /\ job # NoJob /\ job \in Job /\ job.stage = "insert"
      /\ job.alert \in Alerts /\ job.alert = raised /\ job.alert \notin Stored
  BY DEF At, DeliveryInv, DeliveryTypeOK, JobOK, Job
<1>2. stored \in Seq(Alerts)
  BY DEF DeliveryInv, DeliveryTypeOK
<1>3. stored' \in Seq(Alerts) /\ Stored' = Stored \cup {job.alert}
  BY <1>1, <1>2, StoredGrows DEF Stored
<1>4. /\ DOMAIN stored' = 1..(Len(stored) + 1)
      /\ \A i \in DOMAIN stored' : IF i = Len(stored) + 1
            THEN stored'[i] = job.alert
            ELSE i \in DOMAIN stored /\ stored'[i] = stored[i]
  BY <1>1, <1>2
<1>5. /\ job' # NoJob => /\ job' \in Job /\ job'.alert = job.alert
                         /\ job'.stage = "webhook"
      /\ job' \in Job \cup {NoJob}
  BY <1>1 DEF Job
<1>6. DeliveryTypeOK'
  BY <1>3, <1>5 DEF DeliveryInv, DeliveryTypeOK
<1>7. JobOK' /\ DeliveredExactly'
  BY <1>1, <1>5 DEF JobOK, DeliveredExactly, At
<1>8. RowsRaised'
  BY <1>1, <1>4 DEF DeliveryInv, DeliveryTypeOK, RowsRaised, Alerts
<1>9. \A i, j \in DOMAIN stored' : stored'[i] = stored'[j] => i = j
  <2>1. \A i \in DOMAIN stored : stored[i] # job.alert
    BY <1>1 DEF Stored
  <2>. QED
    BY <1>4, <2>1 DEF DeliveryInv, AnnouncedIsStored
<1>10. AnnouncedIsStored'
  BY <1>1, <1>3, <1>5, <1>9 DEF DeliveryInv, AnnouncedIsStored
<1>. QED
  BY <1>3, <1>6, <1>7, <1>8, <1>10 DEF DeliveryInv, ChannelsFirst

LEMMA FaultCounts ==
    ASSUME DeliveryInv, Fault PROVE faults' \in 0..MaxFaults /\ faults' # 0
  BY DeliveryAssumption DEF Fault, DeliveryInv, DeliveryTypeOK

LEMMA InboxShape ==
    ASSUME DeliveryInv
    PROVE  /\ inbox \in Seq(Alerts) /\ Len(inbox) <= Capacity
           /\ \A i \in DOMAIN inbox : inbox[i] \in Stored
           /\ inbox # <<>> => /\ Tail(inbox) \in Seq(Alerts) /\ Len(Tail(inbox)) <= Capacity
                              /\ Len(Tail(inbox)) = Len(inbox) - 1
                              /\ \A i \in DOMAIN Tail(inbox) : Tail(inbox)[i] \in Stored
<1>1. /\ inbox \in Seq(Alerts) /\ Len(inbox) <= Capacity
      /\ \A i \in DOMAIN inbox : inbox[i] \in Stored
  BY DEF DeliveryInv, DeliveryTypeOK, AnnouncedIsStored
<1>2. ASSUME inbox # <<>>
      PROVE  /\ Tail(inbox) \in Seq(Alerts) /\ Len(Tail(inbox)) = Len(inbox) - 1
             /\ \A i \in DOMAIN Tail(inbox) : i + 1 \in DOMAIN inbox
                                              /\ Tail(inbox)[i] = inbox[i + 1]
  BY <1>1, <1>2
<1>. QED
  BY <1>1, <1>2, DeliveryAssumption

(* What a job owes by the channels of the start.                           *)
LEMMA DueConfigured ==
    ASSUME ChannelsFirst, edits = 0, NEW alert
    PROVE  WebhookDue(alert) \cup ChannelsDue(alert) = Configured(alert)
  BY DeliveryAssumption
     DEF ChannelsFirst, WebhookDue, ChannelsDue, Configured, Meets, Targets

LEMMA DeliveryKept ==
    DeliveryInv /\ DeliveryNext => DeliveryInv' /\ Stored \subseteq Stored'
<1>. SUFFICES ASSUME DeliveryInv, DeliveryNext
              PROVE  DeliveryInv' /\ Stored \subseteq Stored'
  OBVIOUS
<1>. USE DeliveryAssumption
<1>0. /\ DeliveryTypeOK /\ JobOK /\ ChannelsFirst /\ RowsRaised /\ DeliveredExactly /\ AnnouncedIsStored
      /\ faults \in 0..MaxFaults /\ edits \in 0..MaxEdits
      /\ listening \in BOOLEAN /\ streaming \in BOOLEAN
      /\ channels \in [Channels -> Severities \cup {Off}]
      /\ job # NoJob => job \in Job
  BY DEF DeliveryInv, DeliveryTypeOK
<1>1. ASSUME UNCHANGED stored PROVE Stored \subseteq Stored'
  BY <1>1 DEF Stored
<1>2. CASE Raise
  <2>1. /\ job' = [alert |-> raised + 1, stage |-> "insert", due |-> {}, tried |-> {}]
        /\ raised' = raised + 1 /\ raised' \in 0..Total /\ raised + 1 \in Alerts
        /\ UNCHANGED <<stored, channels, listening, streaming, inbox, edits, faults>>
    BY <1>0, <1>2 DEF Raise, DeliveryTypeOK, Alerts
  <2>2. job' \in Job /\ job'.alert = raised' /\ job'.stage = "insert"
    BY <2>1 DEF Job
  <2>3. Stored' = Stored /\ raised' \notin Stored
    BY <1>0, <2>1 DEF Stored, RowsRaised, DeliveryTypeOK, Alerts
  <2>4. DeliveryTypeOK'
    BY <1>0, <2>1, <2>2 DEF DeliveryTypeOK
  <2>5. JobOK' /\ DeliveredExactly'
    BY <2>2, <2>3 DEF JobOK, DeliveredExactly, At
  <2>6. RowsRaised'
    BY <1>0, <2>1 DEF RowsRaised, DeliveryTypeOK, Alerts
  <2>7. AnnouncedIsStored'
    BY <1>0, <2>1, <2>2, <2>3 DEF AnnouncedIsStored
  <2>. QED
    BY <1>0, <2>1, <2>3, <2>4, <2>5, <2>6, <2>7 DEF DeliveryInv, ChannelsFirst
<1>3. CASE Insert
  BY <1>0, <1>3, RowStored DEF Insert
<1>4. CASE InsertFails
  <2>1. faults' \in 0..MaxFaults /\ faults' # 0 /\ job' = NoJob
    BY <1>4, FaultCounts DEF InsertFails
  <2>2. ASSUME stored' = Append(stored, job.alert)
        PROVE  DeliveryInv' /\ Stored \subseteq Stored'
    BY <1>4, <2>1, <2>2, RowStored DEF InsertFails
  <2>3. ASSUME stored' = stored PROVE DeliveryInv' /\ Stored \subseteq Stored'
    BY <1>0, <1>1, <1>4, <2>1, <2>3, InboxShape, JobEnds DEF InsertFails
  <2>. QED
    BY <1>4, <2>2, <2>3 DEF InsertFails
<1>5. CASE PostWebhook
  <2>1. WebhookDue(job.alert) \in SUBSET Targets
    BY DEF WebhookDue, Targets
  <2>2. /\ job # NoJob /\ job.stage = "webhook"
        /\ job' = [job EXCEPT !.stage = "channels", !.due = WebhookDue(job.alert),
                              !.tried = WebhookDue(job.alert)]
    BY <1>5 DEF PostWebhook, At
  <2>3. UNCHANGED <<stored, raised, channels, listening, streaming, inbox, edits, faults>>
    BY <1>5 DEF PostWebhook
  <2>. QED
    BY <1>0, <1>1, <2>1, <2>2, <2>3, JobMoves
<1>6. CASE LoadChannels \/ LoadChannelsFails
  <2>1. /\ job # NoJob /\ job.stage = "channels" /\ job.tried = job.due
        /\ job \in Job /\ job.due \in SUBSET Targets
    BY <1>0, <1>6 DEF LoadChannels, LoadChannelsFails, At, JobOK, Job
  <2>2. /\ faults' \in 0..MaxFaults
        /\ UNCHANGED <<stored, raised, channels, listening, streaming, inbox, edits>>
    BY <1>0, <1>6, FaultCounts DEF LoadChannels, LoadChannelsFails
  <2>3. ASSUME LoadChannels PROVE DeliveryInv'
    <3>1. job.due \cup ChannelsDue(job.alert) \in SUBSET Targets
      BY <2>1 DEF ChannelsDue, Targets
    <3>2. job' = [job EXCEPT !.stage = "send", !.due = job.due \cup ChannelsDue(job.alert),
                             !.tried = job.tried]
      BY <2>1, <2>3 DEF LoadChannels, Job
    <3>3. edits = 0 => job.due \cup ChannelsDue(job.alert) = Configured(job.alert)
      BY <1>0, <2>1, <2>3, DueConfigured DEF LoadChannels, JobOK
    <3>. QED
      BY <2>1, <2>2, <3>1, <3>2, <3>3, JobMoves
  <2>4. ASSUME LoadChannelsFails PROVE DeliveryInv'
    <3>1. job' = [job EXCEPT !.stage = "notify", !.due = job.due, !.tried = job.tried]
      BY <2>1, <2>4 DEF LoadChannelsFails, Job
    <3>2. faults' # 0
      BY <1>0, <2>4 DEF LoadChannelsFails, Fault
    <3>. QED
      BY <2>1, <2>2, <3>1, <3>2, JobMoves
  <2>. QED
    BY <1>1, <1>6, <2>2, <2>3, <2>4
<1>7. CASE Send \/ AllSent
  <2>1. /\ job # NoJob /\ job.stage = "send" /\ job.tried \subseteq job.due
        /\ job \in Job /\ job.due \in SUBSET Targets
        /\ edits = 0 /\ faults = 0 => job.due = Configured(job.alert)
    BY <1>0, <1>7 DEF Send, AllSent, At, JobOK, Job
  <2>2. UNCHANGED <<stored, raised, channels, listening, streaming, inbox, edits, faults>>
    BY <1>7 DEF Send, AllSent
  <2>3. ASSUME Send PROVE DeliveryInv'
    <3>1. PICK c \in job.due \ job.tried : job' = [job EXCEPT !.tried = @ \cup {c}]
      BY <2>3 DEF Send
    <3>2. job' = [job EXCEPT !.stage = "send", !.due = job.due,
                             !.tried = job.tried \cup {c}]
      BY <2>1, <3>1 DEF Job
    <3>3. job.tried \cup {c} \subseteq job.due /\ job.tried \cup {c} \in SUBSET Targets
      BY <2>1, <3>1
    <3>. QED
      BY <1>0, <2>1, <2>2, <3>2, <3>3, JobMoves
  <2>4. ASSUME AllSent PROVE DeliveryInv'
    <3>1. job.tried = job.due
      BY <2>1, <2>4 DEF AllSent
    <3>2. job' = [job EXCEPT !.stage = "notify", !.due = job.due, !.tried = job.tried]
      BY <2>1, <2>4 DEF AllSent, Job
    <3>. QED
      BY <1>0, <2>1, <2>2, <3>1, <3>2, JobMoves
  <2>. QED
    BY <1>1, <1>7, <2>2, <2>3, <2>4
<1>8. CASE Notify
  <2>1. /\ job # NoJob /\ job.alert \in Stored /\ job.alert \in Alerts /\ job' = NoJob
        /\ UNCHANGED <<stored, raised, channels, listening, streaming, edits, faults>>
    BY <1>0, <1>8 DEF Notify, At, AnnouncedIsStored, Job
  <2>2. /\ Deliver(inbox, job.alert) \in Seq(Alerts)
        /\ Len(Deliver(inbox, job.alert)) <= Capacity
        /\ \A i \in DOMAIN Deliver(inbox, job.alert) :
              Deliver(inbox, job.alert)[i] \in Stored
    <3>1. ASSUME NEW q \in Seq(Alerts), Len(q) + 1 <= Capacity,
                 \A i \in DOMAIN q : q[i] \in Stored,
                 Deliver(inbox, job.alert) = Append(q, job.alert)
          PROVE  /\ Deliver(inbox, job.alert) \in Seq(Alerts)
                 /\ Len(Deliver(inbox, job.alert)) <= Capacity
                 /\ \A i \in DOMAIN Deliver(inbox, job.alert) :
                       Deliver(inbox, job.alert)[i] \in Stored
      BY <2>1, <3>1
    <3>2. CASE Len(inbox) < Capacity
      <4>1. Deliver(inbox, job.alert) = Append(inbox, job.alert)
        BY <3>2 DEF Deliver
      <4>2. inbox \in Seq(Alerts) /\ Len(inbox) + 1 <= Capacity
        BY <3>2, InboxShape
      <4>. QED
        BY <3>1, <4>1, <4>2, InboxShape
    <3>3. CASE ~ (Len(inbox) < Capacity)
      <4>1. Deliver(inbox, job.alert) = Append(Tail(inbox), job.alert)
        BY <3>3 DEF Deliver
      <4>2. inbox # <<>>
        BY <3>3, InboxShape
      <4>3. Tail(inbox) \in Seq(Alerts) /\ Len(Tail(inbox)) + 1 <= Capacity
        BY <4>2, InboxShape
      <4>. QED
        BY <3>1, <4>1, <4>2, <4>3, InboxShape
    <3>. QED
      BY <3>2, <3>3
  <2>3. inbox' = inbox \/ inbox' = Deliver(inbox, job.alert)
    BY <1>8 DEF Notify
  <2>. QED
    BY <1>0, <1>1, <2>1, <2>2, <2>3, InboxShape, JobEnds
<1>9. CASE NotifyFails \/ Crash
  <2>1. /\ job' = NoJob /\ faults' \in 0..MaxFaults /\ faults' # 0
        /\ UNCHANGED <<stored, raised, channels, listening, streaming, inbox, edits>>
    BY <1>9, FaultCounts DEF NotifyFails, Crash
  <2>. QED
    BY <1>0, <1>1, <2>1, InboxShape, JobEnds
<1>10. ASSUME NEW c \in Channels, EditChannel(c)
       PROVE  DeliveryInv' /\ Stored \subseteq Stored'
  <2>1. /\ edits' \in 0..MaxEdits /\ edits' # 0
        /\ UNCHANGED <<stored, raised, job, listening, streaming, inbox, faults>>
    BY <1>0, <1>10 DEF EditChannel
  <2>2. channels' \in [Channels -> Severities \cup {Off}]
    BY <1>0, <1>10 DEF EditChannel
  <2>. QED
    BY <1>0, <1>1, <2>1, <2>2, InboxShape, JobEnds
<1>11. CASE ListenerLost
  <2>1. PICK n \in 0..Len(inbox) : inbox' = SubSeq(inbox, 1, n)
    BY <1>11 DEF ListenerLost
  <2>2. /\ inbox' \in Seq(Alerts) /\ Len(inbox') = n
        /\ \A i \in DOMAIN inbox' : i \in DOMAIN inbox /\ inbox'[i] = inbox[i]
    BY <2>1, InboxShape
  <2>3. Len(inbox') <= Capacity
    BY <2>1, <2>2, InboxShape
  <2>4. /\ faults' \in 0..MaxFaults /\ faults' # 0 /\ listening' \in BOOLEAN
        /\ UNCHANGED <<stored, raised, channels, job, streaming, edits>>
    BY <1>11, FaultCounts DEF ListenerLost
  <2>. QED
    BY <1>0, <1>1, <2>2, <2>3, <2>4, InboxShape, JobEnds
<1>12. CASE StreamLost
  <2>1. /\ inbox' = <<>> /\ faults' \in 0..MaxFaults /\ faults' # 0
        /\ streaming' \in BOOLEAN
        /\ UNCHANGED <<stored, raised, channels, job, listening, edits>>
    BY <1>12, FaultCounts DEF StreamLost
  <2>2. /\ inbox' \in Seq(Alerts) /\ Len(inbox') <= Capacity
        /\ \A i \in DOMAIN inbox' : inbox'[i] \in Stored
    BY <2>1
  <2>. QED
    BY <1>0, <1>1, <2>1, <2>2, JobEnds
<1>13. CASE ListenerReturns \/ StreamReturns
  <2>1. /\ listening' \in BOOLEAN /\ streaming' \in BOOLEAN
        /\ UNCHANGED <<stored, raised, channels, job, inbox, edits, faults>>
    BY <1>0, <1>13 DEF ListenerReturns, StreamReturns
  <2>. QED
    BY <1>0, <1>1, <2>1, InboxShape, JobEnds
<1>. QED
  BY <1>2, <1>3, <1>4, <1>5, <1>6, <1>7, <1>8, <1>9, <1>10, <1>11, <1>12, <1>13
     DEF DeliveryNext, RecordStep
----------------------------------------------------------------------------
(* The page.                                                               *)

LEMMA PageStart == Init => PageInv
<1>. SUFFICES ASSUME Init PROVE PageInv
  OBVIOUS
<1>1. /\ shown = Nothing /\ acked = {} /\ op = NoJob /\ ops = 0 /\ seen = {}
      /\ fetch = [f \in Fetches |-> IF f = AnyFetch THEN Asked ELSE Free]
  BY DEF Init
<1>2. PageTypes
  BY <1>1, PageAssumption DEF PageTypes, Nothing, Answers
<1>3. AnswersStored
  BY <1>1 DEF AnswersStored
<1>. QED
  BY <1>1, <1>2, <1>3
     DEF PageInv, ShownIsSeen, OpIsSeen, UnseenStaysNew, Nothing

(* A step that neither touches what the delivery owns but its inbox and    *)
(* the count of faults...                                                  *)
LEMMA DeliveryRests ==
    ASSUME DeliveryInv, faults' \in 0..MaxFaults, faults' = 0 => faults = 0,
           inbox' = inbox \/ (inbox # <<>> /\ inbox' = Tail(inbox)),
           UNCHANGED <<stored, raised, channels, job, listening, streaming, edits>>
    PROVE  DeliveryInv' /\ Stored' = Stored
<1>1. Stored' = Stored
  BY DEF Stored
<1>2. /\ listening' \in BOOLEAN /\ streaming' \in BOOLEAN
      /\ channels' \in [Channels -> Severities \cup {Off}] /\ edits' \in 0..MaxEdits
  BY DEF DeliveryInv, DeliveryTypeOK
<1>. QED
  BY <1>1, <1>2, InboxShape, JobEnds

(* ...nor takes rows away from what the page relies on.                    *)
LEMMA PageRests ==
    ASSUME PageInv, Stored \subseteq Stored', UNCHANGED pageVars
    PROVE  PageInv'
<1>1. PageTypes'
  BY DEF PageInv, PageTypes, pageVars
<1>2. AnswersStored'
  BY DEF PageInv, AnswersStored, pageVars
<1>. QED
  BY <1>1, <1>2 DEF PageInv, ShownIsSeen, OpIsSeen, UnseenStaysNew, pageVars

LEMMA RowsAreStored == Rows \in Answers /\ \A a \in Alerts : Rows[a] # "absent" => a \in Stored
<1>1. Newest \subseteq Stored
  BY DEF Newest, Stored
<1>. QED
  BY <1>1 DEF Rows, Answers

(* Requests are sent, answered or dropped; nothing else of the page moves. *)
LEMMA FetchMoves ==
    ASSUME PageInv, Stored' = Stored, NEW f, f \in Fetches,
           NEW slot \in Answers \cup {Free, Asked},
           fetch' = [fetch EXCEPT ![f] = slot],
           slot \notin {Free, Asked} => \A a \in Alerts : slot[a] # "absent" => a \in Stored,
           op' = op \/ op' = NoJob,
           UNCHANGED <<acked, shown, ops, seen>>
    PROVE  PageInv'
<1>1. PageTypes'
  BY DEF PageInv, PageTypes
<1>2. \A g \in Fetches : fetch'[g] = IF g = f THEN slot ELSE fetch[g]
  BY DEF PageInv, PageTypes
<1>3. AnswersStored'
  BY <1>2 DEF PageInv, AnswersStored
<1>. QED
  BY <1>1, <1>3 DEF PageInv, ShownIsSeen, OpIsSeen, UnseenStaysNew

LEMMA AskMoves ==
    ASSUME PageInv, Stored' = Stored, Ask, op' = op \/ op' = NoJob,
           UNCHANGED <<acked, shown, ops, seen>>
    PROVE  PageInv'
<1>1. (CHOOSE f \in Fetches : fetch[f] = Free) \in Fetches
  BY Zenon DEF Ask
<1>2. fetch' = [fetch EXCEPT ![CHOOSE f \in Fetches : fetch[f] = Free] = Asked]
  BY Zenon DEF Ask
<1>3. ASSUME NEW f, f \in Fetches, fetch' = [fetch EXCEPT ![f] = Asked] PROVE PageInv'
  <2>1. Asked \in Answers \cup {Free, Asked} /\ Asked \in {Free, Asked}
    OBVIOUS
  <2>. QED
    BY <1>3, <2>1, FetchMoves
<1>. QED
  BY <1>1, <1>2, <1>3, Zenon

LEMMA InvStart == Init => Inv
  BY DeliveryStart, PageStart DEF Init, Inv

LEMMA InvStep == Inv /\ [Next]_vars => Inv'
<1>. SUFFICES ASSUME Inv, [Next]_vars PROVE Inv'
  OBVIOUS
<1>0. /\ DeliveryInv /\ PageInv /\ PageTypes /\ ShownIsSeen /\ OpIsSeen
      /\ AnswersStored /\ UnseenStaysNew /\ faults \in 0..MaxFaults
  BY DEF Inv, PageInv, DeliveryInv, DeliveryTypeOK
(* Most of the page's steps leave the delivery alone.                      *)
<1>1. ASSUME UNCHANGED deliveryVars PROVE DeliveryInv' /\ Stored' = Stored
  BY <1>0, <1>1, DeliveryRests DEF deliveryVars
<1>2. CASE UNCHANGED vars
  BY <1>0, <1>1, <1>2, PageRests DEF vars, Inv
<1>3. CASE DeliveryStep
  BY <1>0, <1>3, DeliveryKept, PageRests DEF DeliveryStep, Inv
<1>4. CASE Poll
  BY <1>0, <1>1, <1>4, AskMoves DEF Poll, Inv
<1>5. CASE Hear
  <2>1. /\ inbox # <<>> /\ inbox' = Tail(inbox)
        /\ faults' \in 0..MaxFaults /\ faults' = faults
        /\ UNCHANGED <<stored, raised, channels, job, listening, streaming, edits>>
        /\ Ask /\ UNCHANGED <<acked, shown, op, ops, seen>>
    BY <1>0, <1>5 DEF Hear
  <2>2. DeliveryInv' /\ Stored' = Stored
    BY <1>0, <2>1, DeliveryRests
  <2>. QED
    BY <1>0, <2>1, <2>2, AskMoves DEF Inv
<1>6. ASSUME NEW f \in Fetches, Answer(f) PROVE Inv'
  BY <1>0, <1>1, <1>6, RowsAreStored, FetchMoves DEF Answer, Inv
<1>7. ASSUME NEW f \in Fetches, Land(f) PROVE Inv'
  <2>1. /\ shown' = fetch[f] /\ fetch' = [fetch EXCEPT ![f] = Free]
        /\ seen' = seen \cup {a \in Alerts : fetch[f][a] # "absent"}
        /\ UNCHANGED <<acked, op, ops>>
    BY <1>7 DEF Land
  <2>2. fetch[f] \in Answers /\ \A a \in Alerts : fetch[f][a] # "absent" => a \in Stored
    BY <1>0, <1>7 DEF Land, PageTypes, AnswersStored
  <2>3. DeliveryInv' /\ Stored' = Stored
    BY <1>1, <1>7 DEF Land
  <2>4. PageTypes'
    BY <1>0, <2>1, <2>2, <2>3 DEF PageTypes
  <2>5. AnswersStored'
    BY <1>0, <2>1, <2>3 DEF AnswersStored, PageTypes
  <2>6. ShownIsSeen'
    BY <2>1 DEF ShownIsSeen
  <2>7. OpIsSeen' /\ UnseenStaysNew'
    BY <1>0, <2>1 DEF OpIsSeen, UnseenStaysNew
  <2>. QED
    BY <2>3, <2>4, <2>5, <2>6, <2>7 DEF Inv, PageInv
<1>8. ASSUME NEW f \in Fetches, FetchFails(f) PROVE Inv'
  <2>1. /\ faults' \in 0..MaxFaults /\ faults' # 0 /\ fetch' = [fetch EXCEPT ![f] = Free]
        /\ UNCHANGED <<stored, raised, channels, job, listening, streaming, inbox, edits>>
        /\ UNCHANGED <<acked, shown, op, ops, seen>>
    BY <1>0, <1>8, FaultCounts DEF FetchFails
  <2>2. DeliveryInv' /\ Stored' = Stored
    BY <1>0, <2>1, DeliveryRests
  <2>. QED
    BY <1>0, <2>1, <2>2, FetchMoves DEF Inv
<1>9. ASSUME NEW kind \in {"ack", "unack"}, NEW ids \in SUBSET Alerts,
             \A a \in ids : shown[a] # "absent", Begin(kind, ids)
      PROVE  Inv'
  <2>1. ids \subseteq seen /\ ids \in SUBSET Stored
    BY <1>0, <1>9 DEF ShownIsSeen, PageTypes
  <2>2. /\ op' = [kind |-> kind, ids |-> ids, done |-> FALSE]
        /\ ops' \in 0..MaxOps /\ UNCHANGED <<acked, shown, fetch, seen>>
    BY <1>0, <1>9, PageAssumption DEF Begin, PageTypes
  <2>3. DeliveryInv' /\ Stored' = Stored
    BY <1>1, <1>9 DEF Begin
  <2>4. PageTypes'
    BY <1>0, <2>1, <2>2, <2>3 DEF PageTypes
  <2>5. AnswersStored'
    BY <1>0, <2>2, <2>3 DEF AnswersStored
  <2>. QED
    BY <1>0, <2>1, <2>2, <2>3, <2>4, <2>5
       DEF Inv, PageInv, ShownIsSeen, OpIsSeen, UnseenStaysNew
<1>10. CASE Acknowledge \/ Unacknowledge
  BY <1>9, <1>10 DEF Acknowledge, Unacknowledge, Showing
<1>11. CASE Apply
  <2>1. /\ op # NoJob /\ op.ids \subseteq seen /\ op.ids \subseteq Stored
        /\ op \in [kind : {"ack", "unack"}, ids : SUBSET Stored, done : BOOLEAN]
    BY <1>0, <1>11 DEF Apply, OpIsSeen, PageTypes
  <2>2. /\ acked' \in {acked \cup op.ids, acked \ op.ids}
        /\ op' = [op EXCEPT !.done = TRUE]
        /\ UNCHANGED <<shown, fetch, ops, seen>>
    BY <1>11 DEF Apply
  <2>3. DeliveryInv' /\ Stored' = Stored
    BY <1>1, <1>11 DEF Apply
  <2>4. op' \in [kind : {"ack", "unack"}, ids : SUBSET Stored, done : BOOLEAN]
        /\ op'.ids = op.ids
    BY <2>1, <2>2
  <2>5. PageTypes'
    BY <1>0, <2>1, <2>2, <2>3, <2>4 DEF PageTypes
  <2>6. AnswersStored'
    BY <1>0, <2>2, <2>3 DEF AnswersStored
  <2>7. OpIsSeen' /\ UnseenStaysNew' /\ ShownIsSeen'
    BY <1>0, <2>1, <2>2, <2>4 DEF ShownIsSeen, OpIsSeen, UnseenStaysNew
  <2>. QED
    BY <2>3, <2>5, <2>6, <2>7 DEF Inv, PageInv
<1>12. CASE Confirm
  BY <1>0, <1>1, <1>12, AskMoves DEF Confirm, Inv
<1>13. CASE Refused
  <2>1. /\ faults' \in 0..MaxFaults /\ faults' # 0 /\ op' = NoJob
        /\ UNCHANGED <<stored, raised, channels, job, listening, streaming, inbox, edits>>
        /\ UNCHANGED <<acked, shown, fetch, ops, seen>>
    BY <1>0, <1>13, FaultCounts DEF Refused
  <2>2. DeliveryInv' /\ Stored' = Stored
    BY <1>0, <2>1, DeliveryRests
  <2>3. PageTypes' /\ AnswersStored'
    BY <1>0, <2>1, <2>2 DEF PageTypes, AnswersStored
  <2>. QED
    BY <1>0, <2>1, <2>2, <2>3 DEF Inv, PageInv, ShownIsSeen, OpIsSeen, UnseenStaysNew
<1>14. CASE Other
  <2>1. PICK a \in Stored : /\ seen' = seen \cup {a}
                            /\ acked' \in {acked \cup {a}, acked \ {a}}
    BY <1>14 DEF Other
  <2>2. ops' \in 0..MaxOps /\ UNCHANGED <<shown, fetch, op>>
    BY <1>0, <1>14, PageAssumption DEF Other, PageTypes
  <2>3. DeliveryInv' /\ Stored' = Stored
    BY <1>1, <1>14 DEF Other
  <2>4. PageTypes' /\ AnswersStored'
    BY <1>0, <2>1, <2>2, <2>3 DEF PageTypes, AnswersStored
  <2>. QED
    BY <1>0, <2>1, <2>2, <2>3, <2>4 DEF Inv, PageInv, ShownIsSeen, OpIsSeen, UnseenStaysNew
<1>. QED
  BY <1>2, <1>3, <1>4, <1>5, <1>6, <1>7, <1>8, <1>10, <1>11, <1>12, <1>13, <1>14
     DEF Next

(* Alerts, channels, the job, the bus and the page keep their types        *)
(* (alerts.rs, events.rs, routes/alerts.rs, Alerts.tsx).                   *)
THEOREM AlertTypes == Spec => []TypeOK
<1>1. Inv => TypeOK
  BY DEF Inv, DeliveryInv, PageInv, PageTypes, TypeOK
<1>. QED
  BY InvStart, InvStep, <1>1, PTL DEF Spec

(* An announced alert has been posted to every target it was found due to  *)
(* and to no other, however many fail (alerts::record, alerts.rs:114-170). *)
THEOREM DeliveryExact == Spec => []DeliveredExactly
<1>1. Inv => DeliveredExactly
  BY DEF Inv, DeliveryInv
<1>. QED
  BY InvStart, InvStep, <1>1, PTL DEF Spec

(* A row is stored at most once, and whoever hears of an alert can read it *)
(* (alerts::record, alerts.rs:114-166).                                    *)
THEOREM DeliveryStored == Spec => []AnnouncedIsStored
<1>1. Inv => AnnouncedIsStored
  BY DEF Inv, DeliveryInv
<1>. QED
  BY InvStart, InvStep, <1>1, PTL DEF Spec

(* However stale the lists operators act on, no alert is acknowledged that *)
(* none of them was shown (routes/alerts.rs:94-97).                        *)
THEOREM NothingAckedUnseen == Spec => []UnseenStaysNew
<1>1. Inv => UnseenStaysNew
  BY DEF Inv, PageInv
<1>. QED
  BY InvStart, InvStep, <1>1, PTL DEF Spec
============================================================================
