------------------------------ MODULE Reminders ------------------------------
(***************************************************************************)
(* Payment reminders: the rules of a tenant and the send_reminder verb of  *)
(* an invoice (sales/viewsets.py), which queues a row of the reminder log. *)
(*                                                                         *)
(* The verb reads the invoice, then a rule, and locks neither: between its *)
(* steps the invoice is paid, corrected or found overdue by the requests   *)
(* of Receivables, and the rule edited or deleted.  A PATCH of a rule may  *)
(* leave any values, so it is one action whatever copy it started from.    *)
(* Nothing in the code sends a queued reminder.                            *)
(***************************************************************************)
EXTENDS Receivables

CONSTANTS
  Rule,      \* the reminder rules of the tenant
  Offset,    \* days before (negative) or after the due date
  Channel,   \* email, SMS and WhatsApp
  Collector  \* workers that ask for reminders

ASSUME RemindersConstantsOK == Offset \subseteq Int

VARIABLES
  rules,     \* the rules
  log,       \* the rows of the reminder log
  asks       \* the request of each collector

chaseVars == <<rules, log, asks>>

(* least is minimum_amount_due, and date scheduled_for.                    *)
RuleRow == [status : {"absent", "active", "off"}, offset : Int, channel : Channel \cup {"none"},
            least : Nat]
LogRow  == [invoice : Invoice, rule : Rule, date : Int, owed : Nat,
            channel : Channel \cup {"none"}]

NoTerms == [status |-> "absent", offset |-> 0, channel |-> "none", least |-> 0]

(* uq_reminder_rule_offset_channel.                                        *)
Unique(r, row) == \A q \in Rule \ {r} :
  rules[q].status # "absent" => rules[q].offset # row.offset \/ rules[q].channel # row.channel

(* What a request holds: the invoice it read, and the rule.                *)
NoAsk == [at |-> "idle", doc |-> Nobody, seen |-> NoRow, rule |-> Nobody, terms |-> NoTerms]
Ask(w, r) == asks' = [asks EXCEPT ![w] = r]

-----------------------------------------------------------------------------
(* A rule is created or edited.                                            *)
WriteRule(r) == \E row \in [status : {"active", "off"}, offset : Offset, channel : Channel,
                            least : Amount] :
  /\ Unique(r, row)
  /\ rules' = [rules EXCEPT ![r] = row]
  /\ UNCHANGED <<log, asks>>

(* A rule with rows in the log is protected.                               *)
DeleteRule(r) ==
  /\ rules[r].status # "absent" /\ \A x \in log : x.rule # r
  /\ rules' = [rules EXCEPT ![r].status = "absent"]
  /\ UNCHANGED <<log, asks>>

(* get_object, and the check of the status on what it read.                *)
ReadInvoice(w) == \E i \in Invoice :
  /\ asks[w].at = "idle" /\ Open(rows[i])
  /\ Ask(w, [NoAsk EXCEPT !.at = "rule", !.doc = i, !.seen = rows[i]])
  /\ UNCHANGED <<rules, log>>

(* The rule the request names, or else the one of the lowest offset: of    *)
(* the active ones it may be any.                                          *)
ChooseRule(w) == \E r \in Rule :
  /\ asks[w].at = "rule"
  /\ rules[r].status = "active" /\ asks[w].seen.due >= rules[r].least
  /\ Ask(w, [asks[w] EXCEPT !.at = "log", !.rule = r, !.terms = rules[r]])
  /\ UNCHANGED <<rules, log>>

ScheduledFor(ask) == ask.seen.dueDay + ask.terms.offset

(* uq_reminder_log_dedup.                                                  *)
Logged(ask) == \E x \in log :
  x.invoice = ask.doc /\ x.rule = ask.rule /\ x.date = ScheduledFor(ask)

LogOf(ask) == [invoice |-> ask.doc, rule |-> ask.rule, date |-> ScheduledFor(ask),
               owed |-> ask.seen.due, channel |-> ask.terms.channel]

(* get_or_create: a row that is there is the answer, also to the loser of  *)
(* a race; a new one refers to a rule that still exists.                   *)
LogReminder(w) == LET ask == asks[w] IN
  /\ ask.at = "log"
  /\ IF Logged(ask) THEN log' = log
     ELSE rules[ask.rule].status # "absent" /\ log' = log \cup {LogOf(ask)}
  /\ Ask(w, NoAsk) /\ UNCHANGED rules

(* A request is refused or dies, and leaves nothing.                       *)
DropAsk(w) == asks[w].at # "idle" /\ Ask(w, NoAsk) /\ UNCHANGED <<rules, log>>

ChaseInit ==
  /\ rules = [r \in Rule |-> NoTerms]
  /\ log = {} /\ asks = [w \in Collector |-> NoAsk]

Chase ==
  \/ \E r \in Rule : WriteRule(r) \/ DeleteRule(r)
  \/ \E w \in Collector : ReadInvoice(w) \/ ChooseRule(w) \/ LogReminder(w) \/ DropAsk(w)

RemindersSpec ==
  /\ Init /\ ChaseInit
  /\ [][\/ Next /\ UNCHANGED chaseVars
        \/ Chase /\ UNCHANGED vars]_<<vars, chaseVars>>

-----------------------------------------------------------------------------
(* A customer is reminded once for each date a rule names, of an invoice   *)
(* that was issued and, as money only comes in, of no more than was billed *)
(* and no less than is still owed, whatever was paid or corrected since it *)
(* was read; and the log names rules that exist.                           *)
RemindedOfWhatIsOwed ==
  /\ \A x, y \in log : x.invoice = y.invoice /\ x.rule = y.rule /\ x.date = y.date => x = y
  /\ \A x \in log :
       /\ Issued(rows[x.invoice]) /\ rules[x.rule].status # "absent"
       /\ 0 < x.owed /\ x.owed <= rows[x.invoice].total
       /\ x.owed >= rows[x.invoice].due
=============================================================================
