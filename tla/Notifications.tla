----------------------------- MODULE Notifications -----------------------------
(***************************************************************************)
(* Push notifications (internal/modules/notification, providers/push): the *)
(* tokens of the users' devices, a send by any goroutine of the backend,   *)
(* and the cron of cmd/notification-api that fetches the receipts of what  *)
(* was sent.                                                               *)
(*                                                                         *)
(* The push service (Expo) is external.  A token is alive while the app    *)
(* that has it is installed and may notify; an app that comes back may     *)
(* have the same token.  Each message is answered with a ticket; its       *)
(* receipt appears later, or never, and may tell of an absence that is     *)
(* over by then.                                                           *)
(*                                                                         *)
(* Every statement and call may fail (pushFaults); the code logs the error  *)
(* and goes on, or ends.  Left out: the inbox and its read flags, which    *)
(* no other step reads, the wording and the channel of a message, and the  *)
(* check of the device that registers (DeviceLogin).                       *)
(***************************************************************************)
EXTENDS Integers, Sequences, FiniteSets, SequencesExt

CONSTANTS
    Owners,      \* pairs of a user and a device
    UserOf,      \* the user of such a pair
    Tokens,      \* the tokens of installed apps
    Senders,     \* goroutines that send a notification
    Batch,       \* receiptPollBatchSize
    Nothing,
    MaxTickets,  \* bound: tickets
    MaxMissing,  \* bound: tickets that never get a receipt
    MaxChanges,  \* bound: registrations, toggles and tokens that come back
    MaxSends,    \* bound: notifications sent
    MaxPushFaults \* bound: failed statements and calls

Users == {UserOf[o] : o \in Owners}

ASSUME PushAssumption ==
    /\ Nothing \notin Tokens /\ Nothing \notin Users /\ IsFiniteSet(Tokens)
    /\ Batch \in Nat \ {0}
    /\ MaxTickets \in Nat /\ MaxMissing \in Nat /\ MaxChanges \in Nat /\ MaxPushFaults \in Nat /\ MaxSends \in Nat
\* Tickets without a receipt are listed again and again, oldest first: as many
\* as the batch holds would keep every later ticket from being looked at.
ASSUME BatchAssumption == MaxMissing < Batch

VARIABLES
    registered,  \* wallet_push_tokens: the token of a user's device
    muted,       \* users with is_notifications_enabled off
    ticket,      \* wallet_notification_tickets, oldest first
    receipt,     \* the push service: what became of each ticket
    alive,       \* the push service: tokens it delivers to
    lives,       \* the push service: how often a token has come back
    sender,      \* sends in progress
    poller,      \* ProcessPendingReceipts
    dropped,     \* history: how often a ticket's receipt has deleted its token
    pushFaults, changes, sends

pushVars == <<registered, muted, ticket, receipt, alive, lives, sender, poller, dropped,
              pushFaults, changes, sends>>
table == <<registered, muted>>
service == <<receipt, alive, lives>>
polling == <<poller, dropped>>

Verdicts == {"ok", "gone", "error"}
\* Of a message, "life" is the count of the token's returns when it was sent.
Ticket == [token : Tokens, life : Nat, checked : BOOLEAN]
Sender == [pc : {"idle", "enabled", "list", "push", "drop"},
           user : Users \cup {Nothing}, list : SUBSET Tokens, gone : SUBSET Tokens,
           tickets : SUBSET Tokens, life : [Tokens -> Nat]]
Poller == [todo : SUBSET (1..MaxTickets), drop : BOOLEAN]

PushTypeOK ==
    /\ registered \in [Owners -> Tokens \cup {Nothing}] /\ muted \subseteq Users
    /\ ticket \in Seq(Ticket) /\ Len(ticket) <= MaxTickets
    /\ receipt \in [1..MaxTickets -> Verdicts \cup {"none", "missing"}]
    /\ alive \subseteq Tokens /\ lives \in [Tokens -> Nat]
    /\ sender \in [Senders -> Sender]
    /\ poller \in Poller /\ dropped \in [1..MaxTickets -> Nat]
    /\ pushFaults \in 0..MaxPushFaults /\ changes \in 0..MaxChanges
    /\ sends \in 0..MaxSends

NoSend == [pc |-> "idle", user |-> Nothing, list |-> {}, gone |-> {}, tickets |-> {},
           life |-> [k \in Tokens |-> 0]]
NoPoll == [todo |-> {}, drop |-> FALSE]

\* Devices may have registered before; no token has two rows.
InitPush ==
    /\ registered \in [Owners -> Tokens \cup {Nothing}] /\ muted = {}
    /\ \A o, p \in Owners : o # p => registered[o] # registered[p] \/ registered[o] = Nothing
    /\ ticket = <<>> /\ receipt = [i \in 1..MaxTickets |-> "none"]
    /\ alive = Tokens /\ lives = [k \in Tokens |-> 0]
    /\ sender = [s \in Senders |-> NoSend] /\ poller = NoPoll
    /\ dropped = [i \in 1..MaxTickets |-> 0]
    /\ pushFaults = 0 /\ changes = 0 /\ sends = 0

PushFault == pushFaults < MaxPushFaults /\ pushFaults' = pushFaults + 1
Change == changes < MaxChanges /\ changes' = changes + 1
SendEnds(s) == sender' = [sender EXCEPT ![s] = NoSend]

-----------------------------------------------------------------------------
(* The users' devices *)

\* UpsertToken: one transaction deletes the row that another device has for the
\* token and writes this device's row.
Register(o, k) ==
    /\ Change /\ k \in alive
    /\ registered' = [p \in Owners |-> IF p = o THEN k
                                       ELSE IF registered[p] = k THEN Nothing ELSE registered[p]]
    /\ UNCHANGED <<muted, ticket, service, sender, polling, pushFaults, sends>>

DeleteToken(o) ==
    /\ registered[o] # Nothing
    /\ registered' = [registered EXCEPT ![o] = Nothing]
    /\ UNCHANGED <<muted, ticket, service, sender, polling, pushFaults, changes, sends>>

\* NOT is_notifications_enabled
Toggle(u) ==
    /\ Change
    /\ muted' = IF u \in muted THEN muted \ {u} ELSE muted \cup {u}
    /\ UNCHANGED <<registered, ticket, service, sender, polling, pushFaults, sends>>

Dies(k) ==
    /\ k \in alive
    /\ alive' = alive \ {k}
    /\ UNCHANGED <<table, ticket, receipt, lives, sender, polling, pushFaults, changes, sends>>

\* The app is back, or may notify again, with the token it had.
ComesBack(k) ==
    /\ Change /\ k \notin alive
    /\ alive' = alive \cup {k}
    /\ lives' = [lives EXCEPT ![k] = @ + 1]
    /\ UNCHANGED <<table, ticket, receipt, sender, polling, pushFaults, sends>>

\* The token has not been alive all the time since its n-th life.
GoneSince(k, n) == k \notin alive \/ lives[k] > n

\* DeleteTokenByValue
Without(k) == [o \in Owners |-> IF registered[o] = k THEN Nothing ELSE registered[o]]

-----------------------------------------------------------------------------
(* SendToUserWithOptions, a statement or a call at a time *)

\* CreateNotification: the inbox has its row whatever becomes of the push.
SendToUser(s, u) ==
    /\ sender[s].pc = "idle" /\ sends < MaxSends /\ sends' = sends + 1
    /\ sender' = [sender EXCEPT ![s] = [@ EXCEPT !.pc = "enabled", !.user = u]]
    /\ UNCHANGED <<table, ticket, service, polling, pushFaults, changes>>

IsEnabled(s) ==
    /\ sender[s].pc = "enabled"
    /\ IF sender[s].user \in muted THEN SendEnds(s)
       ELSE sender' = [sender EXCEPT ![s].pc = "list"]
    /\ UNCHANGED <<table, ticket, service, polling, pushFaults, changes, sends>>

TokensOf(u) == {registered[o] : o \in {p \in Owners : UserOf[p] = u}} \ {Nothing}

ListTokens(s) ==
    /\ sender[s].pc = "list"
    /\ LET list == TokensOf(sender[s].user) IN
       IF list = {} THEN SendEnds(s)
       ELSE sender' = [sender EXCEPT ![s] = [@ EXCEPT !.pc = "push", !.list = list]]
    /\ UNCHANGED <<table, ticket, service, polling, pushFaults, changes, sends>>

\* The tickets of the answer, one per token: an app that is gone is reported at
\* once or by the receipt; any other error leaves neither ticket nor deletion.
Push(s) ==
    /\ sender[s].pc = "push"
    /\ \E gone \in SUBSET (sender[s].list \ alive) :
       \E refused \in SUBSET (sender[s].list \ gone) :
         /\ refused # {} => PushFault
         /\ refused = {} => UNCHANGED pushFaults
         /\ sender' = [sender EXCEPT ![s] =
                         [@ EXCEPT !.pc = "drop", !.gone = gone, !.life = lives,
                                   !.tickets = sender[s].list \ (gone \cup refused)]]
    /\ UNCHANGED <<table, ticket, service, polling, changes, sends>>

\* isDeviceNotRegistered: the rows of these tokens go, whoever has them now; a
\* deletion that fails is logged.
DropGone(s, k) ==
    /\ sender[s].pc = "drop" /\ k \in sender[s].gone
    /\ \/ registered' = Without(k) /\ UNCHANGED pushFaults
       \/ PushFault /\ UNCHANGED registered
    /\ sender' = [sender EXCEPT ![s].gone = @ \ {k}]
    /\ UNCHANGED <<muted, ticket, service, polling, changes, sends>>

\* CreateNotificationTickets
StoreTickets(s) ==
    /\ sender[s].pc = "drop" /\ sender[s].gone = {}
    /\ Len(ticket) + Cardinality(sender[s].tickets) <= MaxTickets
    /\ \E order \in SetToSeqs(sender[s].tickets) :
         ticket' = ticket \o [i \in DOMAIN order |-> [token |-> order[i], life |-> sender[s].life[order[i]],
                                                   checked |-> FALSE]]
    /\ SendEnds(s)
    /\ UNCHANGED <<table, service, polling, pushFaults, changes, sends>>

\* Any of these fails: the send ends.  The caller ignores it.
SendFails(s) ==
    /\ sender[s].pc # "idle" /\ PushFault
    /\ SendEnds(s)
    /\ UNCHANGED <<table, ticket, service, polling, changes, sends>>

SendStep(s) ==
    \/ IsEnabled(s) \/ ListTokens(s) \/ Push(s)
    \/ \E k \in Tokens : DropGone(s, k)
    \/ StoreTickets(s)

-----------------------------------------------------------------------------
(* The push service *)

Missing == {i \in DOMAIN receipt : receipt[i] = "missing"}

ReceiptAppears(i) ==
    /\ i <= Len(ticket) /\ receipt[i] = "none"
    /\ \E verdict \in {"ok", "error"} \cup 
                        (IF GoneSince(ticket[i].token, ticket[i].life) THEN {"gone"} ELSE {}) :
         receipt' = [receipt EXCEPT ![i] = verdict]
    /\ UNCHANGED <<table, ticket, alive, lives, sender, polling, pushFaults, changes, sends>>

ReceiptIsMissing(i) ==
    /\ i <= Len(ticket) /\ receipt[i] = "none"
    /\ Cardinality(Missing) < MaxMissing
    /\ receipt' = [receipt EXCEPT ![i] = "missing"]
    /\ UNCHANGED <<table, ticket, alive, lives, sender, polling, pushFaults, changes, sends>>

-----------------------------------------------------------------------------
(* ProcessPendingReceipts, every five minutes; a mutex admits one *)

\* Mutant: receipt_checked_at is not asked for.
AllTickets == 1..Len(ticket)

Unchecked == {i \in 1..Len(ticket) : ~ticket[i].checked}

\* ListPendingNotificationTickets
Listed == {i \in Unchecked : Cardinality({j \in Unchecked : j < i}) < Batch}

\* Mutant: a receipt that reports an error is left for the next poll.
OnlyDelivered(i) == receipt[i] = "ok"

\* The push service has a receipt for the ticket by now.
Arrived(i) == receipt[i] \in Verdicts

\* The list and its receipts: what is stored between the two is not listed, and
\* a ticket without a receipt is passed over.
Poll ==
    /\ poller.todo = {}
    /\ LET found == {i \in Listed : Arrived(i)} IN
       found # {} /\ poller' = [poller EXCEPT !.todo = found]
    /\ UNCHANGED <<table, ticket, service, sender, dropped, pushFaults, changes, sends>>

\* Mutant: every error is taken for an app that is gone.
AnyError(i) == receipt[i] \in {"gone", "error"}

\* isDeviceNotRegisteredReceipt
IsGone(i) == receipt[i] = "gone"

\* The loop takes the tickets in the order of the list.
InHand == CHOOSE i \in poller.todo : \A j \in poller.todo : i <= j

NextTicket == poller' = [todo |-> poller.todo \ {InHand}, drop |-> FALSE]

\* MarkNotificationTicketReceipt; if it fails the loop goes on with the ticket.
MarkReceipt ==
    /\ poller.todo # {} /\ ~poller.drop
    /\ \/ ticket' = [ticket EXCEPT ![InHand].checked = TRUE] /\ UNCHANGED pushFaults
       \/ PushFault /\ UNCHANGED ticket
    /\ IF IsGone(InHand) THEN poller' = [poller EXCEPT !.drop = TRUE] ELSE NextTicket
    /\ UNCHANGED <<table, service, sender, dropped, changes, sends>>

\* DeleteTokenByValue, of the token the ticket was sent to; logged if it fails.
DropToken ==
    /\ poller.drop
    /\ \/ /\ registered' = Without(ticket[InHand].token)
          /\ dropped' = [dropped EXCEPT ![InHand] = @ + 1]
          /\ UNCHANGED pushFaults
       \/ PushFault /\ UNCHANGED <<registered, dropped>>
    /\ NextTicket
    /\ UNCHANGED <<muted, ticket, service, sender, changes, sends>>

\* A call fails, the two minutes are over, or the process dies.
PollFails ==
    /\ poller.todo # {} /\ PushFault
    /\ poller' = NoPoll
    /\ UNCHANGED <<table, ticket, service, sender, dropped, changes, sends>>

PollStep == Poll \/ MarkReceipt \/ DropToken

-----------------------------------------------------------------------------
DeviceStep ==
    \/ \E o \in Owners, k \in Tokens : Register(o, k)
    \/ \E o \in Owners : DeleteToken(o)
    \/ \E u \in Users : Toggle(u)
    \/ \E k \in Tokens : Dies(k) \/ ComesBack(k)

NextPush ==
    \/ DeviceStep
    \/ \E s \in Senders :
         \/ \E u \in Users : SendToUser(s, u)
         \/ SendStep(s) \/ SendFails(s)
    \/ \E i \in 1..MaxTickets : ReceiptAppears(i) \/ ReceiptIsMissing(i)
    \/ PollStep \/ PollFails

\* The cron fires again and again and what it calls returns.
PushFairness ==
    /\ WF_pushVars(PollStep)
    /\ \A i \in 1..MaxTickets : WF_pushVars(ReceiptAppears(i))

SpecPush == InitPush /\ [][NextPush]_pushVars /\ PushFairness

-----------------------------------------------------------------------------
(* Properties *)

\* A message unsubscribes a device only if its token has been gone since the
\* message was sent: other errors of the push service, failed statements and
\* messages sent after the token came back never do.  (An older message may:
\* DeleteTokenByValue does not ask whether the token has come back.)
Subscribed == {registered[o] : o \in Owners}
DropsOnlyGone ==
    [][\A k \in alive : k \in Subscribed /\ k \notin Subscribed' =>
         \/ DeviceStep
         \/ \E s \in Senders : k \in sender[s].gone /\ sender[s].life[k] < lives[k]
         \/ poller.drop /\ ticket[InHand].token = k /\ ticket[InHand].life < lives[k]]_pushVars

\* A receipt is acted on once, and once more for each statement that failed: a
\* device that registers again is not unsubscribed by the same receipt at every
\* poll (MarkReceipt, DropToken, and the crash between them).
ActedOnOnce == \A i \in 1..MaxTickets : dropped[i] <= 1 + pushFaults

\* A receipt that has appeared is recorded on its ticket sooner or later, as
\* long as fewer tickets than the batch stay without one.
ReceiptsRecorded ==
    \A i \in 1..MaxTickets :
      receipt[i] \in Verdicts ~> (i <= Len(ticket) /\ ticket[i].checked)
=============================================================================
