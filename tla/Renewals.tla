------------------------------ MODULE Renewals ------------------------------
(* The morning's check of expiry dates (utils/notifier/expire.go) and the     *)
(* check a client's connection makes (utils/notifier/offline.go), which both  *)
(* renew (utils/renewal) and send messages, slowly, while the other goes on.  *)
(* Dates are days.                                                            *)
EXTENDS Integers, FiniteSets

CONSTANTS
  Clients,
  MaxDay,     \* bound on the clock, in days
  Dates,      \* the expiry dates the administrator may set
  Cycle,      \* the billing cycle, in days
  LongAgo,    \* 30: days after which a renewal counts from today
  LeadDays    \* days before the expiry at which reminders begin

Renewers == {"daily"} \cup Clients
Free == [pc |-> "idle", rows |-> <<>>]

VARIABLES
  day,
  connected,  \* clients with a connection
  expiry,     \* expiry dates, of clients that renew automatically
  renewer,    \* the daily check, and per client the check on connection
  touched     \* clients whose date was edited while a check ran

vars == <<day, connected, expiry, renewer, touched>>

Init ==
  /\ day = 0 /\ connected = {} /\ expiry \in [Clients -> Dates] /\ touched = {}
  /\ renewer = [r \in Renewers |-> Free]

(* CheckExpire reads every row, sends one reminder for the dates that are     *)
(* near, and then renews row by row; a connection reads its own row.          *)
Near(c) == day <= expiry[c] /\ expiry[c] <= day + LeadDays

CheckExpire ==
  /\ renewer["daily"].pc = "idle"
  /\ renewer' = [renewer EXCEPT !["daily"] = [Free EXCEPT !.rows = expiry,
                   !.pc = IF \E c \in Clients : Near(c) THEN "sending" ELSE "next"]]
  /\ UNCHANGED <<day, connected, expiry, touched>>

Connect(c) ==
  /\ c \notin connected /\ renewer[c].pc = "idle"
  /\ connected' = connected \cup {c}
  /\ renewer' = [renewer EXCEPT ![c] = [Free EXCEPT !.rows = [d \in {c} |-> expiry[d]], !.pc = "next"]]
  /\ UNCHANGED <<day, expiry, touched>>

Disconnect(c) ==
  /\ c \in connected /\ connected' = connected \ {c}
  /\ UNCHANGED <<day, expiry, renewer, touched>>

(* CheckAndAutoRenewal: the new date counts from the date that was read.      *)
(* Faulty variant: it counts from the date in the table.                      *)
RenewedFromTable(read, c) == (IF expiry[c] < day - LongAgo THEN day ELSE expiry[c]) + Cycle

Renewed(read, c) == (IF read < day - LongAgo THEN day ELSE read) + Cycle

Renew(r) ==
  /\ renewer[r].pc = "next" /\ renewer[r].rows # <<>>
  /\ \E c \in DOMAIN renewer[r].rows :
       LET read == renewer[r].rows[c]
           renews == c \in connected /\ read <= day
       IN /\ expiry' = IF renews THEN [expiry EXCEPT ![c] = Renewed(read, c)] ELSE expiry
          /\ renewer' = [renewer EXCEPT ![r] = [@ EXCEPT !.rows = [d \in DOMAIN @ \ {c} |-> @[d]], !.pc = IF renews THEN "sending" ELSE "next"]]
  /\ UNCHANGED <<day, connected, touched>>

(* The message is sent, or given up after three attempts.                     *)
SendRenewal(r) ==
  /\ renewer[r].pc = "sending"
  /\ renewer' = [renewer EXCEPT ![r].pc = "next"]
  /\ UNCHANGED <<day, connected, expiry, touched>>

RenewalDone(r) ==
  /\ renewer[r].pc = "next" /\ renewer[r].rows = <<>>
  /\ renewer' = [renewer EXCEPT ![r] = Free]
  /\ touched' = IF \A q \in Renewers \ {r} : renewer[q].pc = "idle" THEN {} ELSE touched
  /\ UNCHANGED <<day, connected, expiry>>

EditDate(c) ==
  /\ \E d \in Dates : d # expiry[c] /\ expiry' = [expiry EXCEPT ![c] = d]
  /\ touched' = IF \E r \in Renewers : renewer[r].pc # "idle" THEN touched \cup {c} ELSE touched
  /\ UNCHANGED <<day, connected, renewer>>

(* A check begun in the morning is over before the day is.                    *)
NextDay ==
  /\ day < MaxDay /\ \A r \in Renewers : renewer[r].pc = "idle"
  /\ day' = day + 1
  /\ UNCHANGED <<connected, expiry, renewer, touched>>

Next ==
  \/ CheckExpire \/ NextDay
  \/ \E c \in Clients : Connect(c) \/ Disconnect(c) \/ EditDate(c)
  \/ \E r \in Renewers : Renew(r) \/ SendRenewal(r) \/ RenewalDone(r)

Spec == Init /\ [][Next]_vars

-----------------------------------------------------------------------------
(* A date that falls due is moved once: whatever checks see it due, and       *)
(* although each works on rows it read before it sent its messages, a check   *)
(* changes a date only if it is due, by one cycle from that date (from today  *)
(* when it is long past), unless the date was edited while the check ran.     *)
RenewsDueOnce ==
  \A c \in Clients :
    expiry'[c] # expiry[c] /\ renewer' # renewer /\ c \notin touched =>
      /\ expiry[c] <= day
      /\ expiry'[c] \in {expiry[c] + Cycle, day + Cycle}
RenewedOnce == [][RenewsDueOnce]_vars
=============================================================================
