------------------------------- MODULE Client -------------------------------
(***************************************************************************)
(* The page a browser runs, app.js: its session, its screens, the one      *)
(* overlay that forms and dialogs share, and the functions that wait for   *)
(* the server.  One event loop runs them: a function goes on alone until   *)
(* its next await, where another function or the user may come first.      *)
(*                                                                         *)
(* A function is the sequence of what it waits for or does at the end:     *)
(* asking, proving the password, writing a document, settling it, ...      *)
(* Every form is one of a few such sequences.  Inputs, layout and the      *)
(* figures shown while typing are left out: no property is about them.     *)
(***************************************************************************)
EXTENDS Naturals, Sequences

CONSTANTS
  File,          \* the files a user can attach
  Users,         \* what a user does: the forms, the other moves, and whether
                 \* the user waits for an answer before the next of them
  Loses,         \* answers can be lost after the server did the work
  MaxCalls,      \* bound: functions that wait at the same time
  MaxDocs,       \* bound: documents saved
  MaxForms,      \* bound: forms opened
  MaxExpiries    \* bound: access tokens that run out

VARIABLES
  session,   \* S: the access and refresh token and the proof of the password
  page,      \* the screen in the address, the one painted, the report in it
  box,       \* the overlay #ov
  iv,        \* IV.editing and ATTACH.queued
  calls,     \* the functions that wait
  rows,      \* the documents on the server
  newest,    \* the refresh token the server accepts
  expiries,  \* access tokens that ran out
  opened,    \* by form: the document it was opened for
  picked,    \* by file: the form it was chosen in
  user       \* who is at the page

vars == <<session, page, box, iv, calls, rows, newest, expiries, opened, picked, user>>
browser == <<session, page, box, iv>>
server == <<rows, newest, expiries>>

Call == 1..MaxCalls
Doc == 1..MaxDocs
None == 0
Screen == {"invoices", "books", "reports"}
Report == {"profit", "balance"}

-----------------------------------------------------------------------------
(* The functions.                                                          *)
SaveDraft == <<"write", "collect", "files", "tidy", "leave">>
SaveAndIssue == <<"ask", "write", "prove", "settle", "collect", "files", "tidy", "leave">>
SaveJournal == <<"prove", "write", "settle", "leave">>
PayBill == <<"write", "leave">>
Disburse == <<"prove", "settle", "leave">>
AddAccount == <<"write", "close", "show">>
Act == <<"ask", "prove", "settle", "leave">>
MemberAct == <<"prove", "settle", "leave">>
OpenSensitive == <<"prove", "load">>
Open == <<"load">>
Upload == <<"files">>
Show == <<"show">>
Generate == <<"report">>

(* What the buttons of a form run.                                         *)
Saves == [invoice |-> {SaveDraft, SaveAndIssue}, journal |-> {SaveJournal},
          payment |-> {PayBill}, payout |-> {Disburse}, account |-> {AddAccount}]
(* Forms that are opened on a document that is there already.              *)
OnRow == {"invoice", "payout"}
(* Forms whose document is final once written.                             *)
AtOnce == {"payment", "account"}
ScreenOf(kind) == IF kind = "invoice" THEN "invoices" ELSE "books"

Moves == {"go", "report", "row", "pick", "reload", "linger", "back", "colleague"}
ClientConstantsOK ==
  /\ Users \subseteq [waits : BOOLEAN, kinds : SUBSET DOMAIN Saves, moves : SUBSET Moves]
  /\ Loses \in BOOLEAN
  /\ {MaxCalls, MaxDocs, MaxForms, MaxExpiries} \subseteq Nat

Idle == [todo |-> <<>>, at |-> "idle", kind |-> "none", doc |-> None, form |-> 0,
         files |-> {}, screen |-> "books", report |-> "none", said |-> "none", again |-> FALSE]
NoBox == [kind |-> "none", call |-> None, form |-> 0]
NoRow == [status |-> "absent", made |-> 0, form |-> 0, files |-> {}]
Waiting(c) == calls[c].at \notin {"idle", "dead"}
Stage(c) == IF calls[c].todo = <<>> THEN "end" ELSE Head(calls[c].todo)

Spare(c) == calls[c] = Idle /\ \A x \in 1..(c - 1) : calls[x] # Idle
(* The loop is free: no function has been resumed that has still to run.   *)
Quiet == \A c \in Call : calls[c].at # "ready"
Signed == page.at # "login"
(* The user may start something: a patient one waits for every answer.     *)
Hand == Quiet /\ Signed /\ (user.waits => \A c \in Call : ~Waiting(c))

To(c, r) == calls' = [calls EXCEPT ![c] = r]
Past(c) == [calls[c] EXCEPT !.todo = Tail(@), !.at = "ready"]
Start(c, todo, kind, d) ==
  /\ Spare(c)
  /\ To(c, [Idle EXCEPT !.todo = todo, !.at = "ready", !.kind = kind, !.doc = d,
                        !.screen = ScreenOf(kind), !.form = box.form])

Init ==
  /\ session = [access |-> "live", refresh |-> 0, proof |-> "none"]
  /\ page = [at |-> "invoices", shown |-> "invoices", report |-> "none"]
  /\ box = NoBox
  /\ iv = [editing |-> None, queued |-> {}]
  /\ calls = [c \in Call |-> Idle]
  /\ \E old \in BOOLEAN :  \* a draft of an earlier day is there, or none
       rows = [d \in Doc |-> IF old /\ d = 1 THEN [NoRow EXCEPT !.status = "draft"] ELSE NoRow]
  /\ newest = 0 /\ expiries = 0
  /\ opened = <<>>
  /\ picked = [f \in File |-> 0]
  /\ user \in Users

-----------------------------------------------------------------------------
(* The user.                                                               *)

(* A menu entry or the Back button: the address changes, the old screen is *)
(* wiped and the new one asks for its rows.  Back works under an overlay.  *)
Go(c, s) ==
  /\ "go" \in user.moves /\ Hand /\ Spare(c) /\ (box = NoBox \/ "back" \in user.moves)
  /\ To(c, [Idle EXCEPT !.todo = Show, !.at = "ready", !.screen = s])
  /\ page' = [at |-> s, shown |-> "loading", report |-> "none"]
  /\ UNCHANGED <<session, box, iv, server, opened, picked, user>>

(* A report is generated into the report screen that is painted now.       *)
RunReport(c, r) ==
  /\ "report" \in user.moves /\ Hand /\ box = NoBox /\ page.shown = "reports" /\ Spare(c)
  /\ To(c, [Idle EXCEPT !.todo = Generate, !.at = "ready", !.report = r])
  /\ page' = [page EXCEPT !.report = "none"]
  /\ UNCHANGED <<session, box, iv, server, opened, picked, user>>

(* + New or Edit on a list.  Edit shows on drafts, by a list that may be   *)
(* older than the row.                                                     *)
OpenForm(c, kind, d) ==
  /\ kind \in user.kinds /\ Hand /\ box = NoBox /\ page.shown = ScreenOf(kind) /\ Len(opened) < MaxForms
  /\ d # None => kind \in OnRow /\ rows[d].status # "absent"
  /\ kind = "payout" => d # None
  /\ \E todo \in {Open, OpenSensitive} :
       /\ todo = OpenSensitive => kind = "account"
       /\ Start(c, todo, kind, d)
  /\ UNCHANGED <<browser, server, opened, picked, user>>

(* A button of a form.  Nothing disables it while its function waits.      *)
Save(c) ==
  /\ Hand /\ box.kind \in DOMAIN Saves
  /\ \E todo \in Saves[box.kind] : Start(c, todo, box.kind, opened[box.form])
  /\ UNCHANGED <<browser, server, opened, picked, user>>

(* A button in a row of a list.                                            *)
PressRow(c, d) ==
  /\ "row" \in user.moves /\ Hand /\ box = NoBox /\ page.shown \in {"invoices", "books"}
  /\ rows[d].status # "absent"
  /\ \E todo \in {Act, MemberAct} :
       /\ todo = MemberAct => page.shown = "books"
       /\ Spare(c)
       /\ To(c, [Idle EXCEPT !.todo = todo, !.at = "ready", !.doc = d, !.kind = "row",
                             !.screen = page.shown])
  /\ UNCHANGED <<browser, server, opened, picked, user>>

(* A file is chosen in the invoice form: uploaded at once to the invoice   *)
(* being edited, or queued until there is one.                             *)
Pick(c, f) ==
  /\ "pick" \in user.moves /\ Hand /\ box.kind = "invoice" /\ picked[f] = 0
  /\ picked' = [picked EXCEPT ![f] = box.form]
  /\ IF iv.editing # None
     THEN /\ Spare(c)
          /\ To(c, [Idle EXCEPT !.todo = Upload, !.at = "ready", !.doc = iv.editing,
                                !.files = {f}, !.kind = "upload"])
          /\ iv' = iv
     ELSE iv' = [iv EXCEPT !.queued = @ \union {f}] /\ calls' = calls
  /\ UNCHANGED <<session, page, box, server, opened, user>>

Dismiss ==
  /\ Quiet /\ box.kind \in DOMAIN Saves
  /\ (user.waits => \A c \in Call : ~Waiting(c))
  /\ box' = NoBox
  /\ UNCHANGED <<session, page, iv, calls, server, opened, picked, user>>

(* What a function does when its dialog is declined: ivSave leaves its     *)
(* draft saved, the others return.                                         *)
Declined(r) ==
  IF r.kind = "invoice" /\ Head(r.todo) = "prove"
  THEN [r EXCEPT !.todo = <<"leave">>, !.at = "ready"] ELSE Idle

(* A dialog is answered: a confirmation, or a password that is checked.    *)
Agree(c) ==
  /\ Quiet /\ box.call = c /\ calls[c].at = "dialog"
  /\ box' = NoBox
  /\ To(c, Past(c))
  /\ session' = IF Stage(c) = "prove" THEN [session EXCEPT !.proof = "fresh"] ELSE session
  /\ UNCHANGED <<page, iv, server, opened, picked, user>>
Decline(c) ==
  /\ Quiet /\ box.call = c /\ calls[c].at = "dialog"
  /\ box' = NoBox
  /\ To(c, Declined(calls[c]))
  /\ UNCHANGED <<session, page, iv, server, opened, picked, user>>

(* Escape declines every dialog that waits, those whose overlay another    *)
(* form has replaced too, and each of them takes the overlay away.         *)
Escape ==
  /\ Quiet /\ \E c \in Call : calls[c].at = "dialog"
  /\ calls' = [c \in Call |-> IF calls[c].at = "dialog" THEN Declined(calls[c]) ELSE calls[c]]
  /\ box' = NoBox
  /\ UNCHANGED <<session, page, iv, server, opened, picked, user>>

-----------------------------------------------------------------------------
(* The page between two awaits.                                            *)
Asks(c) == Stage(c) = "ask" \/ (Stage(c) = "prove" /\ session.proof = "none")

(* modal(): a dialog takes the place of whatever the overlay shows.        *)
AskUser(c) ==
  /\ Asks(c)
  /\ To(c, [calls[c] EXCEPT !.at = "dialog"])
  /\ box' = [kind |-> "dialog", call |-> c, form |-> 0]
  /\ UNCHANGED <<session, page, iv>>
Proven(c) ==
  /\ Stage(c) = "prove" /\ session.proof # "none"
  /\ To(c, Past(c)) /\ UNCHANGED browser

(* The document ivSave writes is the one IV.editing names by now.          *)
Send(c) ==
  /\ Stage(c) \in {"load", "write", "settle", "show", "report"}
  /\ To(c, [calls[c] EXCEPT !.at = "sent", !.again = FALSE,
              !.doc = IF Stage(c) = "write" /\ calls[c].kind = "invoice" THEN iv.editing ELSE @])
  /\ UNCHANGED browser
Collect(c) ==
  /\ Stage(c) = "collect"
  /\ To(c, [Past(c) EXCEPT !.files = iv.queued])
  /\ iv' = [iv EXCEPT !.queued = {}]
  /\ UNCHANGED <<session, page, box>>
SendFile(c) ==
  /\ Stage(c) = "files"
  /\ To(c, IF calls[c].files = {} THEN Past(c) ELSE [calls[c] EXCEPT !.at = "sent"])
  /\ UNCHANGED browser
Tidy(c) ==
  /\ Stage(c) = "tidy"
  /\ To(c, Past(c))
  /\ iv' = [iv EXCEPT !.editing = None]
  /\ UNCHANGED <<session, page, box>>
(* closeModal(); go(): the overlay of whichever form is open goes.         *)
Leave(c) ==
  /\ Stage(c) \in {"leave", "close"}
  /\ box' = NoBox
  /\ IF Stage(c) = "leave"
     THEN /\ page' = [at |-> calls[c].screen, shown |-> "loading", report |-> "none"]
          /\ To(c, [Past(c) EXCEPT !.todo = Show])
     ELSE page' = page /\ To(c, Past(c))
  /\ UNCHANGED <<session, iv>>
Return(c) == Stage(c) = "end" /\ To(c, Idle) /\ UNCHANGED browser

Proceed(c) ==
  /\ calls[c].at = "ready"
  /\ \/ AskUser(c) \/ Proven(c) \/ Send(c) \/ Collect(c) \/ SendFile(c)
     \/ Tidy(c) \/ Leave(c) \/ Return(c)
  /\ UNCHANGED <<server, opened, picked, user>>

-----------------------------------------------------------------------------
(* The server.  A function of a page that was left may be served as well.  *)
Served(c, row, said) ==
  /\ rows' = row
  /\ To(c, IF calls[c].at = "dead" THEN Idle ELSE [calls[c] EXCEPT !.at = "answered", !.said = said])
Refuses(c, said) == Served(c, rows, said)
(* The work is done, and the answer arrives or is lost.                    *)
Told == IF Loses THEN {"yes", "no"} ELSE {"yes"}
Does(c, row) == \E said \in Told : Served(c, row, said)

Written(c, d) ==
  LET status == IF calls[c].kind \in AtOnce THEN "final" ELSE "draft"
  IN IF calls[c].doc = None
     THEN [status |-> status, made |-> calls[c].form, form |-> calls[c].form, files |-> {}]
     ELSE [rows[d] EXCEPT !.form = calls[c].form]

(* A draft that is settled elsewhere takes no more edits.                  *)
Write(c) ==
  \E d \in Doc :
    /\ \/ calls[c].doc = None /\ rows[d].status = "absent"
       \/ calls[c].doc = d /\ rows[d].status = "draft"
    /\ rows' = [rows EXCEPT ![d] = Written(c, d)]
    /\ \E said \in Told :
         To(c, IF calls[c].at = "dead" THEN Idle
               ELSE [calls[c] EXCEPT !.at = "answered", !.said = said, !.doc = d])
(* The proof of the password a request carries.                            *)
Proof(c) == IF calls[c].at = "dead" THEN calls[c].said ELSE session.proof
Settle(c) ==
  LET d == calls[c].doc
  IN IF Proof(c) # "fresh" THEN Refuses(c, "proof")
     ELSE /\ rows[d].status = "draft"
          /\ Does(c, [rows EXCEPT ![d].status = "final"])
Store(c) ==
  \E f \in calls[c].files :
    Served(c, [rows EXCEPT ![calls[c].doc].files = @ \union {f}], "yes")
Load(c) ==
  LET d == calls[c].doc
  IN Refuses(c, IF d = None \/ rows[d].status = "draft" THEN "yes" ELSE "no")

Serve(c) ==
  /\ Quiet /\ calls[c].at \in {"sent", "dead"}
  /\ IF session.access = "live" \/ calls[c].at = "dead"
     THEN \/ Stage(c) = "write" /\ Write(c)
          \/ Stage(c) = "settle" /\ Settle(c)
          \/ Stage(c) = "files" /\ Store(c)
          \/ Stage(c) = "load" /\ Load(c)
          \/ Stage(c) \in {"show", "report"} /\ Refuses(c, "yes")
          \/ Stage(c) # "load" /\ Refuses(c, "no")
     ELSE Refuses(c, "expired")
  /\ UNCHANGED <<browser, newest, expiries, opened, picked, user>>

-----------------------------------------------------------------------------
(* What the page does with an answer.                                      *)

(* The page goes: functions stop, requests under way are still served.     *)
Dropped == [c \in Call |->
  IF calls[c].at = "sent" THEN [calls[c] EXCEPT !.at = "dead", !.said = session.proof]
  ELSE IF calls[c].at = "dead" THEN calls[c] ELSE Idle]
Cleared == box' = NoBox /\ iv' = [editing |-> None, queued |-> {}]
Logout ==
  /\ session' = [access |-> "none", refresh |-> 0, proof |-> "none"]
  /\ page' = [at |-> "login", shown |-> "login", report |-> "none"]
  /\ calls' = Dropped /\ Cleared

(* 401: one new access token and one more try.  The answer also carries a  *)
(* new refresh token and ends the old one; the page keeps the old one.     *)
(* The requests a form loads side by side each do this by themselves.      *)
Retry(c) ==
  /\ Quiet /\ calls[c].said = "expired" /\ calls[c].at = "answered"
  /\ Stage(c) # "files" /\ ~calls[c].again
  /\ IF session.refresh # newest THEN Logout /\ newest' = newest
     ELSE /\ newest' = newest + 1
          /\ IF Stage(c) = "load" THEN Logout
             ELSE /\ session' = [session EXCEPT !.access = "live"]
                  /\ To(c, [calls[c] EXCEPT !.at = "sent", !.again = TRUE])
                  /\ UNCHANGED <<page, box, iv>>
  /\ UNCHANGED <<rows, expiries, opened, picked, user>>

Answered(c) == Quiet /\ calls[c].at = "answered" /\ (calls[c].said = "expired" =>
                                                     Stage(c) = "files" \/ calls[c].again)

(* A form opens in the place of whatever the overlay shows, a dialog too.  *)
(* An invoice form resets what the last one left.                          *)
Loaded(c) ==
  /\ Answered(c) /\ Stage(c) = "load"
  /\ To(c, Idle)
  /\ IF calls[c].said = "yes" /\ Len(opened) < MaxForms
     THEN /\ opened' = Append(opened, calls[c].doc)
          /\ box' = [kind |-> calls[c].kind, call |-> None, form |-> Len(opened) + 1]
          /\ iv' = IF calls[c].kind = "invoice"
                   THEN [editing |-> calls[c].doc, queued |-> {}] ELSE iv
     ELSE UNCHANGED <<opened, box, iv>>
  /\ UNCHANGED <<session, page, server, picked, user>>

(* The rows of a screen are painted over whatever is painted by now.       *)
Painted(c) ==
  /\ Answered(c) /\ Stage(c) = "show"
  /\ page' = IF calls[c].said = "yes"
             THEN [page EXCEPT !.shown = calls[c].screen, !.report = "none"] ELSE page
  /\ calls' = [x \in Call |->
       IF x = c THEN Idle
       ELSE IF calls[x].todo = Generate /\ calls[c].said = "yes"
            THEN [calls[x] EXCEPT !.report = "none"] ELSE calls[x]]
  /\ UNCHANGED <<session, box, iv, server, opened, picked, user>>

(* A report goes into the place it was asked for, if that is still there.  *)
Reported(c) ==
  /\ Answered(c) /\ Stage(c) = "report"
  /\ page' = IF page.shown = "reports" /\ calls[c].report # "none"
             THEN [page EXCEPT !.report = calls[c].report] ELSE page
  /\ To(c, Idle)
  /\ UNCHANGED <<session, box, iv, server, opened, picked, user>>

(* A file that is refused is reported and forgotten.                       *)
Uploaded(c) ==
  /\ Answered(c) /\ Stage(c) = "files"
  /\ \E f \in calls[c].files :
       To(c, [calls[c] EXCEPT !.files = @ \ {f}, !.at = "ready"])
  /\ UNCHANGED <<browser, server, opened, picked, user>>

(* A document was written or settled; a refusal leaves the form open, if   *)
(* it still is.  A proof that ran out is dropped.                          *)
Resumed(c) ==
  /\ Answered(c) /\ Stage(c) \in {"write", "settle"}
  /\ To(c, IF calls[c].said = "yes" THEN Past(c)
           ELSE IF calls[c].said = "proof" THEN Declined([calls[c] EXCEPT !.todo = <<"prove">>])
           ELSE Idle)
  /\ session' = IF calls[c].said = "proof" THEN [session EXCEPT !.proof = "none"] ELSE session
  /\ UNCHANGED <<page, box, iv, server, opened, picked, user>>

(* The page is opened again: the session comes back from the tab's store,  *)
(* without the proof, and the screen from the address.                     *)
Reload(c) ==
  /\ "reload" \in user.moves /\ Quiet /\ Signed
  /\ (user.waits => \A x \in Call : ~Waiting(x))
  /\ session' = [session EXCEPT !.proof = "none"]
  /\ Cleared
  /\ page' = [page EXCEPT !.shown = "loading", !.report = "none"]
  /\ Dropped[c] = Idle
  /\ calls' = [Dropped EXCEPT ![c] = [Idle EXCEPT !.todo = Show, !.at = "ready", !.screen = page.at]]
  /\ UNCHANGED <<server, opened, picked, user>>

Login(c) ==
  /\ ~Signed /\ Spare(c)
  /\ session' = [access |-> "live", refresh |-> newest, proof |-> "none"]
  /\ page' = [at |-> "books", shown |-> "loading", report |-> "none"]
  /\ To(c, [Idle EXCEPT !.todo = Show, !.at = "ready", !.screen = "books"])
  /\ UNCHANGED <<box, iv, server, opened, picked, user>>

-----------------------------------------------------------------------------
(* Time and other users.                                                   *)
AccessExpires ==
  /\ Quiet /\ "linger" \in user.moves /\ session.access = "live" /\ expiries < MaxExpiries
  /\ session' = [session EXCEPT !.access = "stale"] /\ expiries' = expiries + 1
  /\ UNCHANGED <<page, box, iv, calls, rows, newest, opened, picked, user>>
ProofExpires ==
  /\ Quiet /\ "linger" \in user.moves /\ session.proof = "fresh"
  /\ session' = [session EXCEPT !.proof = "stale"]
  /\ UNCHANGED <<page, box, iv, calls, server, opened, picked, user>>
SettledElsewhere(d) ==
  /\ Quiet /\ "colleague" \in user.moves /\ rows[d].status = "draft"
  /\ rows' = [rows EXCEPT ![d].status = "final"]
  /\ UNCHANGED <<browser, calls, newest, expiries, opened, picked, user>>

User ==
  \/ \E c \in Call, s \in Screen : Go(c, s)
  \/ \E c \in Call, r \in Report : RunReport(c, r)
  \/ \E c \in Call, k \in DOMAIN Saves, d \in Doc \union {None} : OpenForm(c, k, d)
  \/ \E c \in Call : Save(c) \/ Agree(c) \/ Decline(c) \/ Reload(c) \/ Login(c)
  \/ \E c \in Call, d \in Doc : PressRow(c, d)
  \/ \E c \in Call, f \in File : Pick(c, f)
  \/ Dismiss \/ Escape
Page ==
  \E c \in Call :
    \/ Proceed(c) \/ Retry(c) \/ Loaded(c) \/ Painted(c) \/ Reported(c)
    \/ Uploaded(c) \/ Resumed(c)
World ==
  \/ \E c \in Call : Serve(c)
  \/ AccessExpires \/ ProofExpires \/ \E d \in Doc : SettledElsewhere(d)
Next == User \/ Page \/ World
Spec == Init /\ [][Next]_vars

-----------------------------------------------------------------------------
ClientTypeOK ==
  /\ session.access \in {"none", "live", "stale"} /\ session.proof \in {"none", "fresh", "stale"}
  /\ page.at \in Screen \union {"login"} /\ page.shown \in Screen \union {"login", "loading"}
  /\ box.kind \in DOMAIN Saves \union {"none", "dialog"}
  /\ \A d \in Doc : rows[d].status \in {"absent", "draft", "final"}

(* The form a document was made in, or one that was opened on it.          *)
FormsOf(d) == {rows[d].made} \union {n \in DOMAIN opened : opened[n] = d}

(* A document holds what was typed into a form of its own: a form that     *)
(* loads late, takes the place of a dialog or is left behind never sends   *)
(* its lines to the document of another form.                              *)
FormsStayApart == \A d \in Doc : rows[d].status # "absent" => rows[d].form \in FormsOf(d)

(* Every overlay that asks belongs to a function that still waits for it.  *)
DialogsAreAnswered ==
  /\ box.kind = "dialog" => calls[box.call].at = "dialog"
  /\ box.kind = "invoice" => opened[box.form] = iv.editing \/ iv.editing = None

(* A user who waits for the answer settles no form twice: of the documents *)
(* one form made, one at most was posted, issued or paid.                  *)
OncePerForm ==
  user.waits => \A d, e \in Doc :
    rows[d].status = "final" /\ rows[e].status = "final" /\ rows[d].made = rows[e].made => d = e

(* A user who waits finds every file on the invoice it was chosen for.     *)
FilesFollowTheirForm ==
  user.waits => \A d \in Doc : \A f \in rows[d].files : picked[f] \in FormsOf(d)

(* A user who waits sees the screen the address names, or none yet.        *)
ScreenIsTheAddress == user.waits => page.shown \in {page.at, "loading"}

PageKeepsItsWord ==
  FormsStayApart /\ DialogsAreAnswered /\ OncePerForm /\ FilesFollowTheirForm /\ ScreenIsTheAddress

(* Not so: nothing but the user ends a session whose refresh token lives.  *)
SessionLasts == page.at # "login"
(* Not so: every file chosen in a form of a saved invoice is on it.        *)
FilesAreUploaded ==
  Quiet /\ user.waits /\ (\A c \in Call : calls[c] = Idle) /\ box = NoBox =>
    \A f \in File, d \in Doc :
      rows[d].status # "absent" /\ picked[f] # 0 /\ picked[f] = rows[d].form => f \in rows[d].files
=============================================================================
