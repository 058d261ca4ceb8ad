------------------------------ MODULE Delivery ------------------------------
(***************************************************************************)
(* The WeChat messages to one user.  Each uses up a one-time grant the     *)
(* user gave: the notification of an event any free one, the reminder that *)
(* a favourite companion is available the one it was armed with            *)
(* (notification-delivery.worker.ts, wechat-subscribe-message.provider.ts, *)
(* favorites.service.ts, availability-reminder-*.ts).                      *)
(*                                                                         *)
(* A row has at most one worker that can still change it, because a lease  *)
(* that ends makes it final; the worker that lost it may still call        *)
(* WeChat.  Due times, mutes, blocks and the limit on grants per day are   *)
(* left out, and so is the claim that only keeps two runners apart.  The   *)
(* two kinds of messages have different templates and share no grant.      *)
(***************************************************************************)
EXTENDS Account

CONSTANTS
    Deliveries,     \* NotificationDelivery rows
    EventGrants,    \* grants for the template of events
    ReminderGrants, \* grants for the template of reminders
    Slots,          \* handoffs: new availability a reminder is for
    MaxTries        \* how often a message that was not sent is tried again

Grants == EventGrants \cup ReminderGrants
Messages == Deliveries \cup Slots

Outcomes == {"sent", "unknown", "rejected", "skipped", "retryable"}
Attempts == {"reserved", "readyToSend", "sending", "sent", "uncertain", "rejected", "skipped",
             "failedBeforeSend", "erased"}

DeliveryRows ==
    [status : {"pending", "processing", "sent", "failed", "skipped", "erased"}, tries : 0..MaxTries]
GrantRows == {"free", "consumed", "erased"}
AttemptRows == [status : Attempts, grant : ReminderGrants]

ASSUME DeliveryAssumption ==
    /\ EventGrants \cap ReminderGrants = {} /\ Messages \cap Grants = {} /\ Deliveries \cap Slots = {}
    /\ None \notin Grants /\ {"absent", "disarmed"} \cap ReminderGrants = {}
    /\ None \notin DeliveryRows /\ None \notin GrantRows /\ None \notin AttemptRows
    /\ MaxTries \in Nat

VARIABLES
    delivery,   \* NotificationDelivery
    grant,      \* WeChatSubscriptionGrant
    favourite,  \* the CompanionFavorite: absent, disarmed, or the grant it is armed with
    attempt,    \* AvailabilityReminderAttempt of each handoff
    worker,     \* the process that works on a message
    crossed     \* how many calls WeChat may have taken, for each message and grant

deliveryVars == <<delivery, grant, favourite, attempt, worker, crossed>>

DeliveryTypeOK ==
    /\ delivery \in [Deliveries -> DeliveryRows \cup {None}]
    /\ grant \in [Grants -> GrantRows \cup {None}]
    /\ favourite \in {"absent", "disarmed"} \cup ReminderGrants
    /\ attempt \in [Slots -> AttemptRows \cup {None}]
    /\ worker \in [Messages -> [step : {"idle", "claimed", "calling"} \cup Outcomes, grant : Grants \cup {None}]]
    /\ crossed \in [Messages \cup Grants -> 0..2]

Idle == [step |-> "idle", grant |-> None]

DeliveryInit ==
    /\ delivery = [d \in Deliveries |-> None]
    /\ grant = [g \in Grants |-> None]
    /\ favourite = "absent"
    /\ attempt = [h \in Slots |-> None]
    /\ worker = [x \in Messages |-> Idle]
    /\ crossed = [x \in Messages \cup Grants |-> 0]

\* A user whose account is not active cannot make requests.
RecordGrant(g) ==
    /\ account = "active"
    /\ grant[g] = None
    /\ grant' = [grant EXCEPT ![g] = "free"]
    /\ UNCHANGED <<delivery, favourite, attempt, worker, crossed>>

\* WeChat may have taken the message when it says so or does not answer.
Call(x) ==
    /\ worker[x].step = "calling"
    /\ \E outcome \in Outcomes :
         /\ worker' = [worker EXCEPT ![x].step = outcome]
         /\ crossed' = IF outcome \in {"sent", "unknown"}
                       THEN [crossed EXCEPT ![x] = @ + 1, ![worker[x].grant] = @ + 1]
                       ELSE crossed
    /\ UNCHANGED <<delivery, grant, favourite, attempt>>

Crash(x) ==
    /\ worker[x].step # "idle"
    /\ worker' = [worker EXCEPT ![x] = Idle]
    /\ UNCHANGED <<delivery, grant, favourite, attempt, crossed>>

-----------------------------------------------------------------------------
(* Notifications of events. *)

\* With the transaction of an event; the same event never makes a second row.
Notify(d) ==
    /\ delivery[d] = None
    /\ delivery' = [delivery EXCEPT ![d] = [status |-> "pending", tries |-> 0]]
    /\ UNCHANGED <<grant, favourite, attempt, worker, crossed>>

Is(d, status) == delivery[d] # None /\ delivery[d].status = status

ClaimDelivery(d) ==
    /\ Is(d, "pending")
    /\ delivery' = [delivery EXCEPT ![d].status = "processing"]
    /\ worker' = [worker EXCEPT ![d] = [step |-> "claimed", grant |-> None]]
    /\ UNCHANGED <<grant, favourite, attempt, crossed>>

\* Mutant of Recovered: the message is sent again.
RecoveredPending == "pending"

Recovered == "failed"

LeaseExpires(d) ==
    /\ Is(d, "processing")
    /\ delivery' = [delivery EXCEPT ![d].status = Recovered]
    /\ UNCHANGED <<grant, favourite, attempt, worker, crossed>>

Lost(x) ==
    /\ worker' = [worker EXCEPT ![x] = Idle]
    /\ UNCHANGED <<delivery, grant, favourite, attempt, crossed>>

ReserveGrant(d) ==
    /\ worker[d].step = "claimed"
    /\ IF ~Is(d, "processing") THEN Lost(d)
       ELSE \/ \* it is muted, blocked, or of no known template
               /\ delivery' = [delivery EXCEPT ![d].status = "skipped"]
               /\ worker' = [worker EXCEPT ![d] = Idle]
               /\ UNCHANGED <<grant, favourite, attempt, crossed>>
            \/ \* wait for a grant
               /\ \A g \in EventGrants : grant[g] # "free"
               /\ delivery' = [delivery EXCEPT ![d].status = "pending"]
               /\ worker' = [worker EXCEPT ![d] = Idle]
               /\ UNCHANGED <<grant, favourite, attempt, crossed>>
            \/ \E g \in EventGrants :
               /\ grant[g] = "free"
               /\ grant' = [grant EXCEPT ![g] = "consumed"]
               /\ worker' = [worker EXCEPT ![d] = [step |-> "calling", grant |-> g]]
               /\ UNCHANGED <<delivery, favourite, attempt, crossed>>

Retried(d) == worker[d].step = "retryable" /\ delivery[d].tries < MaxTries

\* The grant comes back only with the row.
ReleaseGrantAndRetry(d) ==
    /\ Retried(d) /\ Is(d, "processing")
    /\ delivery' = [delivery EXCEPT ![d] = [status |-> "pending", tries |-> @.tries + 1]]
    /\ grant' = [grant EXCEPT ![worker[d].grant] = IF @ = "consumed" THEN "free" ELSE @]
    /\ worker' = [worker EXCEPT ![d] = Idle]
    /\ UNCHANGED <<favourite, attempt, crossed>>

FinishDelivery(d) ==
    /\ worker[d].step \in Outcomes
    /\ IF ~Is(d, "processing") THEN Lost(d)
       ELSE /\ ~Retried(d)
            /\ delivery' = [delivery EXCEPT ![d].status =
                              IF worker[d].step \in {"sent", "skipped"} THEN worker[d].step ELSE "failed"]
            /\ worker' = [worker EXCEPT ![d] = Idle]
            /\ UNCHANGED <<grant, favourite, attempt, crossed>>

-----------------------------------------------------------------------------
(* Reminders. *)

SaveFavourite ==
    /\ account = "active" /\ favourite = "absent"
    /\ favourite' = "disarmed"
    /\ UNCHANGED <<delivery, grant, attempt, worker, crossed>>

Reserved(g) == \E h \in Slots : attempt[h] # None /\ attempt[h].status # "erased" /\ attempt[h].grant = g

ArmReminder(g) ==
    /\ account = "active" /\ favourite # "absent"
    /\ grant[g] = "free" /\ ~Reserved(g)
    /\ favourite' = g
    /\ UNCHANGED <<delivery, grant, attempt, worker, crossed>>

DisarmReminder ==
    /\ account = "active" /\ favourite # "absent"
    /\ favourite' = "disarmed"
    /\ UNCHANGED <<delivery, grant, attempt, worker, crossed>>

Erased(attempts) ==
    [h \in Slots |-> IF h \in attempts /\ attempt[h] # None THEN [attempt[h] EXCEPT !.status = "erased"]
                                                            ELSE attempt[h]]

\* Its handoffs and attempts go with a favourite.
RemoveFavourite ==
    /\ account = "active" /\ favourite # "absent"
    /\ favourite' = "absent"
    /\ attempt' = Erased(Slots)
    /\ UNCHANGED <<delivery, grant, worker, crossed>>

Armed(g) == favourite = g /\ grant[g] = "free"

\* One attempt for a handoff, one for a grant.
ReserveReminder(h) ==
    \E g \in ReminderGrants :
      /\ attempt[h] = None
      /\ Armed(g) /\ ~Reserved(g)
      /\ attempt' = [attempt EXCEPT ![h] = [status |-> "reserved", grant |-> g]]
      /\ UNCHANGED <<delivery, grant, favourite, worker, crossed>>

At(h, status) == attempt[h] # None /\ attempt[h].status = status

\* The grant is consumed before the call; what makes it useless skips the attempt.
AcquireFinalSendAuthorization(h) ==
    /\ At(h, "reserved")
    /\ \/ /\ Armed(attempt[h].grant)
          /\ attempt' = [attempt EXCEPT ![h].status = "readyToSend"]
          /\ grant' = [grant EXCEPT ![attempt[h].grant] = "consumed"]
          /\ worker' = [worker EXCEPT ![h] = [step |-> "claimed", grant |-> attempt[h].grant]]
       \/ /\ attempt' = [attempt EXCEPT ![h].status = "skipped"]
          /\ UNCHANGED <<grant, worker>>
    /\ UNCHANGED <<delivery, favourite, crossed>>

ClaimableAttempt(h) == At(h, "readyToSend")

ClaimProviderAttempt(h) ==
    /\ worker[h].step = "claimed"
    /\ \/ /\ ClaimableAttempt(h)
          /\ favourite = attempt[h].grant /\ grant[attempt[h].grant] = "consumed"
          /\ attempt' = [attempt EXCEPT ![h].status = "sending"]
          /\ worker' = [worker EXCEPT ![h].step = "calling"]
       \/ /\ ClaimableAttempt(h)
          /\ attempt' = [attempt EXCEPT ![h].status =
                           IF favourite = attempt[h].grant /\ grant[attempt[h].grant] = "erased"
                           THEN "failedBeforeSend" ELSE "skipped"]
          /\ worker' = [worker EXCEPT ![h] = Idle]
       \/ /\ ~ClaimableAttempt(h)
          /\ attempt' = attempt
          /\ worker' = [worker EXCEPT ![h] = Idle]
    /\ UNCHANGED <<delivery, grant, favourite, crossed>>

\* The send lease has expired: the outcome is unknown for good.
RecoverExpiredSendLease(h) ==
    /\ At(h, "readyToSend") \/ At(h, "sending")
    /\ attempt' = [attempt EXCEPT ![h].status = "uncertain"]
    /\ UNCHANGED <<delivery, grant, favourite, worker, crossed>>

FinalStatus(outcome) ==
    CASE outcome = "unknown" -> "uncertain"
      [] outcome = "retryable" -> "failedBeforeSend"
      [] OTHER -> outcome

FinalizeProviderOutcome(h) ==
    /\ worker[h].step \in Outcomes
    /\ attempt' = IF At(h, "sending") THEN [attempt EXCEPT ![h].status = FinalStatus(worker[h].step)]
                                      ELSE attempt
    /\ worker' = [worker EXCEPT ![h] = Idle]
    /\ UNCHANGED <<delivery, grant, favourite, crossed>>

NotificationSteps ==
    \/ \E g \in EventGrants : RecordGrant(g)
    \/ \E d \in Deliveries : \/ ClaimDelivery(d) \/ LeaseExpires(d) \/ ReserveGrant(d) \/ Call(d) \/ Crash(d)
                             \/ ReleaseGrantAndRetry(d) \/ FinishDelivery(d)

ReminderSteps ==
    \/ SaveFavourite \/ DisarmReminder \/ RemoveFavourite
    \/ \E g \in ReminderGrants : RecordGrant(g) \/ ArmReminder(g)
    \/ \E h \in Slots : \/ ReserveReminder(h) \/ AcquireFinalSendAuthorization(h) \/ ClaimProviderAttempt(h)
                        \/ Call(h) \/ Crash(h)
                        \/ RecoverExpiredSendLease(h) \/ FinalizeProviderOutcome(h)

-----------------------------------------------------------------------------
\* WeChat may have taken a message at most once, and at most one message for
\* each grant, also when workers stop, lose their lease, or call after it
\* (NotificationDeliveryWorker, AvailabilityReminderAttemptDeliveryService).
MessageOnce == \A x \in Messages \cup Grants : crossed[x] <= 1

=============================================================================
