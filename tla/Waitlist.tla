----------------------------- MODULE Waitlist -----------------------------
(***************************************************************************)
(* The waitlist: signups and account claims (waitlist.ts behind            *)
(* handleWaitlist and handleAccess), admissions that mail each member in   *)
(* turn (Waitlist.admit), the export to the private sheet                  *)
(* (googleSheets.ts) and the sheet's own script, which takes the export    *)
(* and asks for the admissions that a person ticked (Code.gs).             *)
(*                                                                         *)
(* A step is what runs between two awaits, here and in the script.  What   *)
(* was answered to whom is kept in history variables.                      *)
(***************************************************************************)
EXTENDS Integers, FiniteSets

CONSTANTS
  Emails, Users, Cohorts,
  Inbox,         \* Inbox[u]: the emails that the account u may have verified
  BatchSize,     \* entries in one export (100)
  GroupSize,     \* emails in one admission request (5)
  MaxRepeats,    \* bound: signups that export an entry anew
  MaxMishaps     \* bound: failed saves, lost calls, crashes, deleted rows

ASSUME WaitlistAssumption ==
  /\ IsFiniteSet(Emails)
  /\ Inbox \in [Users -> SUBSET Emails]
  /\ {BatchSize, GroupSize} \subseteq Nat \ {0} /\ {MaxRepeats, MaxMishaps} \subseteq Nat
  /\ "none" \notin Users \union Cohorts

VARIABLES
  entries,       \* the writer's list, in memory
  file,          \* and on disk
  failed,        \* a save threw
  admission,     \* the admission under way: its members, those left to mail
  running,       \* the export under way: whether each email in it was mailed
  taken,         \* its answer is on the way
  strays,        \* exports that timed out and may still reach the sheet
  sheet,
  locked,        \* the script lock is held by sendApproved
  queue,         \* the cohort of each row that it has yet to post
  waiting,       \* it awaits the answer to the admission under way
  acked,         \* emails whose signup was answered with 200
  granted,       \* <<account, email>> that were let in
  mailed,        \* emails that were told they are approved
  exported,      \* emails that the sheet has taken
  repeats, mishaps

list == <<entries, file, failed>>
export == <<running, taken, strays>>
script == <<locked, queue, waiting>>
history == <<acked, granted, mailed, exported>>
waitlistVars == <<list, admission, export, sheet, script, history, repeats, mishaps>>

None == "none"
NoAdmission == [members |-> {}, todo |-> {}]
NoExport == << >>
Entry == [ts : 0 .. Cardinality(Emails) - 1, cohort : Cohorts \union {None},
          mailed : BOOLEAN, user : Users \union {None}, synced : BOOLEAN]
IsList(rows) == DOMAIN rows \subseteq Emails /\ rows \in [DOMAIN rows -> Entry]
Exports == UNION {[S -> BOOLEAN] : S \in SUBSET Emails}

WaitlistTypeOK ==
  /\ IsList(entries) /\ IsList(file) /\ failed \in BOOLEAN
  /\ admission \in [members : SUBSET Emails, todo : SUBSET Emails]
  /\ running \in Exports /\ taken \in BOOLEAN /\ strays \subseteq Exports
  /\ sheet \in [Emails -> [copies : Nat, cohort : Cohorts \union {None}, sent : BOOLEAN]]
  /\ locked \in BOOLEAN /\ waiting \in BOOLEAN
  /\ queue \in UNION {[S -> Cohorts] : S \in SUBSET Emails}
  /\ acked \subseteq Emails /\ mailed \subseteq Emails /\ exported \subseteq Emails
  /\ granted \subseteq Users \X Emails
  /\ repeats \in 0 .. MaxRepeats /\ mishaps \in 0 .. MaxMishaps

NewEntry(n) == [ts |-> n, cohort |-> None, mailed |-> FALSE, user |-> None, synced |-> FALSE]

WaitlistInit ==
  /\ entries = << >> /\ file = << >> /\ failed = FALSE
  /\ admission = NoAdmission
  /\ running = NoExport /\ taken = FALSE /\ strays = {}
  /\ sheet = [e \in Emails |-> [copies |-> 0, cohort |-> None, sent |-> FALSE]]
  /\ locked = FALSE /\ queue = << >> /\ waiting = FALSE
  /\ acked = {} /\ granted = {} /\ mailed = {} /\ exported = {}
  /\ repeats = 0 /\ mishaps = 0

Mishap == mishaps < MaxMishaps /\ mishaps' = mishaps + 1

-----------------------------------------------------------------------------
(* The list and its file *)

IsAdmitted(rows, e) == rows[e].cohort # None

\* What the constructor refuses to load
Loads(rows) ==
  /\ \A e \in DOMAIN rows : rows[e].user # None => IsAdmitted(rows, e)
  /\ \A e \in DOMAIN rows : rows[e].mailed => IsAdmitted(rows, e)
  /\ \A e, f \in DOMAIN rows : rows[e].user = rows[f].user /\ e # f => rows[e].user = None

Save(rows) == ~failed /\ file' = rows /\ entries' = rows /\ UNCHANGED <<failed, mishaps>>

\* A save that throws: before the rename or after it, at the directory's sync
SaveThrows(rows) ==
  /\ ~failed /\ Mishap
  /\ failed' = TRUE /\ file' \in {file, rows} /\ UNCHANGED entries

\* The batch that flush exports next
NextExport(rows) ==
  LET pending == {e \in DOMAIN rows : ~rows[e].synced}
      older(e) == {f \in pending : rows[f].ts < rows[e].ts}
  IN [e \in {f \in pending : Cardinality(older(f)) < BatchSize} |-> rows[e].mailed]

\* The limiter bounds the repeats of a visitor
Repeats(e) ==
  IF e \in DOMAIN entries /\ entries[e].synced
  THEN repeats < MaxRepeats /\ repeats' = repeats + 1 ELSE UNCHANGED repeats

Added(e, row) == [f \in DOMAIN entries \union {e} |-> IF f = e THEN row ELSE entries[f]]

\* Mutant: the entry is counted before it is numbered.
SignedUpLate(e) ==
  IF e \in DOMAIN entries THEN [entries EXCEPT ![e].synced = FALSE]
  ELSE Added(e, NewEntry(Cardinality(DOMAIN entries) + 1))
SignedUp(e) ==
  IF e \in DOMAIN entries THEN [entries EXCEPT ![e].synced = FALSE]
  ELSE Added(e, NewEntry(Cardinality(DOMAIN entries)))

\* POST /waitlist; the export starts at once unless one is running
Signup(e) ==
  /\ Save(SignedUp(e)) /\ Repeats(e)
  /\ acked' = acked \union {e}
  /\ running' = IF running = NoExport THEN NextExport(entries') ELSE running
  /\ UNCHANGED <<admission, taken, strays, sheet, script, granted, mailed, exported>>

SignupThrows(e) ==
  /\ SignedUp(e) # entries /\ SaveThrows(SignedUp(e)) /\ Repeats(e)
  /\ UNCHANGED <<admission, export, sheet, script, history>>

\* The approvals that the account could redeem
Redeemable(mails) ==
  {e \in DOMAIN entries : IsAdmitted(entries, e) /\ entries[e].user = None /\ e \in mails}

\* Mutant: a bound account is told by its mailbox.
BoundInbox(u) == {e \in DOMAIN entries : entries[e].user = u /\ entries[e].mailed}
Bound(u) == {e \in DOMAIN entries : entries[e].user = u}

Claimed(u, e) == [entries EXCEPT ![e].user = u]

\* POST /access, and the admission check of POST /quote
Access(u, mails) ==
  /\ \/ /\ ~failed /\ Bound(u) # {}
        /\ granted' = granted \union {<<u, e>> : e \in Bound(u)}
        /\ UNCHANGED <<list, mishaps>>
     \/ \E e \in Redeemable(mails) :
          /\ Bound(u) = {}
          /\ \A f \in Redeemable(mails) : entries[e].ts <= entries[f].ts
          /\ \/ Save(Claimed(u, e)) /\ granted' = granted \union {<<u, e>>}
             \/ SaveThrows(Claimed(u, e)) /\ UNCHANGED granted
  /\ UNCHANGED <<admission, export, sheet, script, acked, mailed, exported, repeats>>

-----------------------------------------------------------------------------
(* The export *)

\* The 60 s loop.  Mutant: an export that failed is not retried.
NoRetry == FALSE /\ UNCHANGED waitlistVars
Sync ==
  /\ running = NoExport /\ NextExport(entries) # NoExport
  /\ running' = NextExport(entries)
  /\ UNCHANGED <<list, admission, taken, strays, sheet, script, history, mishaps, repeats>>

\* Mutant: only ticked rows are looked up.
KnownTicked(e) == sheet[e].cohort # None
Known(e) == sheet[e].copies > 0

\* doPost, under the script lock
TakeRows(post) ==
  /\ ~locked
  /\ sheet' = [e \in Emails |->
                 IF e \in DOMAIN post /\ ~Known(e)
                 THEN [copies |-> sheet[e].copies + 1, cohort |-> None, sent |-> post[e]]
                 ELSE sheet[e]]
  /\ exported' = exported \union DOMAIN post
  /\ UNCHANGED <<list, admission, running, script, acked, granted, mailed, mishaps, repeats>>

SheetTakes ==
  /\ running # NoExport /\ ~taken /\ taken' = TRUE
  /\ TakeRows(running) /\ UNCHANGED strays

StrayTaken ==
  \E post \in strays : TakeRows(post) /\ strays' = strays \ {post} /\ UNCHANGED taken

\* Mutant: all that is pending is marked.
MarkedAll == [e \in DOMAIN entries |-> [entries[e] EXCEPT !.synced = TRUE]]
Marked == [e \in DOMAIN entries |->
             IF e \in DOMAIN running THEN [entries[e] EXCEPT !.synced = TRUE] ELSE entries[e]]

\* The answer arrives: markSheetSynced, and the next batch
Synced ==
  /\ taken /\ taken' = FALSE
  /\ \/ Save(Marked) /\ running' = NextExport(entries')
     \/ SaveThrows(Marked) /\ running' = NoExport
     \/ failed /\ running' = NoExport /\ UNCHANGED <<list, mishaps>>
  /\ UNCHANGED <<admission, strays, sheet, script, history, repeats>>

\* The sheet was locked for 5 s, or the call failed or timed out
SyncFails ==
  /\ running # NoExport /\ running' = NoExport /\ taken' = FALSE
  /\ \/ locked /\ ~taken /\ UNCHANGED <<strays, mishaps>>
     \/ Mishap /\ strays' = IF taken THEN strays ELSE strays \union {running}
  /\ UNCHANGED <<list, admission, sheet, script, history, repeats>>

-----------------------------------------------------------------------------
(* Admissions *)

\* A person sets the cohort of a row and ticks it; only a row that was
\* deleted and exported anew gets another cohort
Approve(e, c) ==
  /\ Known(e) /\ sheet[e].cohort = None
  /\ sheet' = [sheet EXCEPT ![e].cohort = c]
  /\ UNCHANGED <<list, admission, export, script, history, mishaps, repeats>>

DeleteRow(e) ==
  /\ Known(e) /\ Mishap
  /\ sheet' = [sheet EXCEPT ![e] = [copies |-> 0, cohort |-> None, sent |-> FALSE]]
  /\ UNCHANGED <<list, admission, export, script, history, repeats>>

Ticked == {e \in Emails : Known(e) /\ sheet[e].cohort # None /\ ~sheet[e].sent}

\* sendApproved, on an edit or from the menu
StartScript ==
  /\ ~locked /\ Ticked # {}
  /\ locked' = TRUE /\ queue' = [e \in Ticked |-> sheet[e].cohort]
  /\ UNCHANGED <<list, admission, export, sheet, waiting, history, mishaps, repeats>>

Left(members) == [e \in DOMAIN queue \ members |-> queue[e]]

\* updateDelivery_ for each member; without its row the script throws
Delivered(members, sent) ==
  /\ waiting' = FALSE
  /\ IF \A e \in members : Known(e)
     THEN /\ queue' = Left(members) /\ UNCHANGED locked
          /\ sheet' = [e \in Emails |-> IF e \in members THEN [sheet[e] EXCEPT !.sent = e \in sent]
                                        ELSE sheet[e]]
     ELSE /\ locked' = FALSE /\ queue' = << >>
          /\ \E done \in SUBSET {e \in members : Known(e)} :
               sheet' = [e \in Emails |-> IF e \in done THEN [sheet[e] EXCEPT !.sent = e \in sent]
                                          ELSE sheet[e]]

\* What admit asks of the members it is given
Admissible(members, c) ==
  /\ admission = NoAdmission /\ members \subseteq DOMAIN entries
  /\ \A e \in members : IsAdmitted(entries, e) => entries[e].cohort = c

Admitted(members, c) == [e \in DOMAIN entries |->
  IF e \in members THEN [entries[e] EXCEPT !.cohort = c] ELSE entries[e]]

\* Mutant: those admitted now are mailed, an earlier failure is not made up for.
UnmailedNow(members) == {e \in members : ~IsAdmitted(entries, e)}
Unmailed(members) == {e \in members : ~entries[e].mailed}

\* The script posts a group and admit saves the approvals, or refuses
Admit(members, c) ==
  /\ locked /\ ~waiting /\ members # {}
  /\ members \subseteq {e \in DOMAIN queue : queue[e] = c}
  /\ \/ Cardinality(members) = GroupSize
     \/ Cardinality(members) < GroupSize /\ members = {e \in DOMAIN queue : queue[e] = c}
  /\ \/ /\ Admissible(members, c) /\ Save(Admitted(members, c))
        /\ admission' = [members |-> members, todo |-> Unmailed(members)]
        /\ waiting' = TRUE /\ UNCHANGED <<sheet, locked, queue>>
     \/ /\ failed \/ ~Admissible(members, c)
        /\ Delivered(members, {}) /\ UNCHANGED <<list, admission, mishaps>>
     \/ /\ Admissible(members, c) /\ Admitted(members, c) # entries
        /\ SaveThrows(Admitted(members, c))
        /\ Delivered(members, {}) /\ UNCHANGED admission
  /\ UNCHANGED <<export, history, repeats>>

\* The member that admit is mailing: the loop follows the list
Current == CHOOSE e \in admission.todo : \A f \in admission.todo : entries[e].ts <= entries[f].ts

\* Resend delivers; an earlier key is not sent twice
Mail ==
  /\ admission.todo # {} /\ Current \notin mailed
  /\ mailed' = mailed \union {Current}
  /\ UNCHANGED <<list, admission, export, sheet, script, acked, granted, exported, mishaps, repeats>>

\* Mutant: the row as admit read it before the send is written back.
WithMailOnOldRow(e) == [entries EXCEPT ![e].mailed = TRUE, ![e].user = None]
WithMail(e) == [entries EXCEPT ![e].mailed = TRUE]

\* The admission is over and the script, if it still waits, is answered
Answer(members, sent) ==
  /\ admission' = NoAdmission
  /\ IF waiting THEN Delivered(members, sent) ELSE UNCHANGED <<sheet, script>>

\* The send returns
MailReturns ==
  /\ admission.todo # {} /\ Current \in mailed
  /\ \/ /\ Save(WithMail(Current))
        /\ admission' = [admission EXCEPT !.todo = @ \ {Current}]
        /\ UNCHANGED <<sheet, script>>
     \/ SaveThrows(WithMail(Current)) /\ Answer(admission.members, {})
     \/ failed /\ Answer(admission.members, {}) /\ UNCHANGED <<list, mishaps>>
  /\ UNCHANGED <<export, history, repeats>>

\* Or throws, delivered or not: the next member's turn
MailFails ==
  /\ admission.todo # {} /\ Mishap
  /\ admission' = [admission EXCEPT !.todo = @ \ {Current}]
  /\ UNCHANGED <<list, export, sheet, script, history, repeats>>

AdmitReturns ==
  /\ admission # NoAdmission /\ admission.todo = {}
  /\ Answer(admission.members, admission.members \ Unmailed(admission.members))
  /\ UNCHANGED <<list, export, history, mishaps, repeats>>

\* The script's call fails while the writer goes on
AnswerLost ==
  /\ waiting /\ Mishap
  /\ Delivered(admission.members, {})
  /\ UNCHANGED <<list, admission, export, history, repeats>>

\* The script is done, or out of time
EndScript ==
  /\ locked
  /\ (queue = << >> /\ UNCHANGED mishaps) \/ Mishap
  /\ locked' = FALSE /\ queue' = << >> /\ waiting' = FALSE
  /\ UNCHANGED <<list, admission, export, sheet, history, repeats>>

\* The writer dies, or a person restarts it after a failed save
Restart ==
  /\ Loads(file)
  /\ (failed /\ UNCHANGED mishaps) \/ Mishap
  /\ entries' = file /\ failed' = FALSE /\ UNCHANGED file
  /\ running' = NoExport /\ taken' = FALSE
  /\ strays' = IF taken \/ running = NoExport THEN strays ELSE strays \union {running}
  /\ Answer(admission.members, {})
  /\ UNCHANGED <<history, repeats>>

-----------------------------------------------------------------------------

WaitlistNext ==
  \/ \E e \in Emails : Signup(e) \/ SignupThrows(e) \/ DeleteRow(e)
  \/ \E u \in Users : \E mails \in SUBSET Inbox[u] : Access(u, mails)
  \/ Sync \/ SheetTakes \/ StrayTaken \/ Synced \/ SyncFails
  \/ \E e \in Emails, c \in Cohorts : Approve(e, c)
  \/ StartScript \/ EndScript
  \/ \E members \in SUBSET Emails, c \in Cohorts : Admit(members, c)
  \/ Mail \/ MailReturns \/ MailFails \/ AdmitReturns \/ AnswerLost
  \/ Restart

WaitlistSpec == WaitlistInit /\ [][WaitlistNext]_waitlistVars

(***************************************************************************)
(* The loop runs every 60 s and every call it makes ends: in an answer, or *)
(* at its timeout.  The script ends by itself or is stopped after six      *)
(* minutes, and whoever starts it leaves it alone long enough for the loop *)
(* to find the sheet free, and doPost to get the lock it waits for.        *)
(***************************************************************************)
Fairness ==
  /\ SF_waitlistVars(Sync /\ ~locked) /\ SF_waitlistVars(SheetTakes) /\ WF_waitlistVars(Synced)
  /\ WF_waitlistVars(\E members \in SUBSET Emails, c \in Cohorts : Admit(members, c))
  /\ WF_waitlistVars(Mail) /\ WF_waitlistVars(MailReturns)
  /\ WF_waitlistVars(AdmitReturns) /\ WF_waitlistVars(EndScript)

FairSpec == WaitlistSpec /\ Fairness

-----------------------------------------------------------------------------
(* Properties *)

\* The next start of the writer accepts the file, whatever was interrupted:
\* no account is bound twice, none is bound to an entry that is not admitted
\* and only a member of a cohort is marked as mailed.
FileLoads == Loads(file)

\* What was answered survives every later save, failed save and restart: a
\* signup that got 200 is on file, an account that was let in is the one
\* account of its approval, and who was told of an approval is approved.
PromisesKept ==
  /\ acked \subseteq DOMAIN file
  /\ \A grant \in granted : grant[2] \in DOMAIN file /\ file[grant[2]].user = grant[1]
  /\ \A e \in mailed : e \in DOMAIN file /\ IsAdmitted(file, e)

\* The store is well typed, can be loaded and keeps what was answered.
StoreHolds == WaitlistTypeOK /\ FileLoads /\ PromisesKept

\* However often an entry is exported, the sheet has one row for it.
OneRowEach == \A e \in Emails : sheet[e].copies <= 1

\* A row that shows its invitation as sent, and so is never retried, is one
\* whose mail went out and whose entry says so on file.
SentIsMailed == \A e \in Emails : sheet[e].sent => e \in mailed /\ file[e].mailed

\* An entry is marked as exported only once the sheet has taken it, so that
\* none is left out when a call is lost between the two.
SyncedIsExported == \A e \in DOMAIN file : file[e].synced => e \in exported

\* A signup that was answered is exported in the end, unless the file failed:
\* through refused, lost and late exports, crashes and a busy sheet.
SignupsExported == \A e \in Emails : e \in acked ~> (e \in exported \/ failed)
=============================================================================
