----------------------------- MODULE CommandHistory -----------------------------
(***************************************************************************)
(* The command history of one device's page (DeviceDetail.tsx) over the    *)
(* routes /devices/:uuid/commands (routes/devices.ts): issuing a command   *)
(* and watching for its outcome, paging, deleting one row or many.         *)
(*                                                                         *)
(* Rows are listed newest first, by issued_at and then by their random id: *)
(* a new command takes any free number.  reloadCmds keeps the path of the  *)
(* render it was taken in, so a timer or a watcher started on one page     *)
(* fetches that page later, whichever is asked for by then.  "acked" and   *)
(* "failed" are one status, done; the two SELECTs of a GET are one step.   *)
(* Bound: one DELETE at a time.                                            *)
(***************************************************************************)
EXTENDS Naturals, Sequences, FiniteSets

CONSTANTS
  MaxIssued,    \* bound: commands ever issued
  Earlier,      \* those that were issued and answered before
  PageSize,     \* limit of a page
  BatchLimit,   \* ids that one DELETE /commands/batch accepts
  MaxGets       \* bound: GETs under way

ASSUME HistoryAssumption ==
  /\ BatchLimit \in Nat /\ MaxGets \in Nat
  /\ MaxIssued \in Nat \ {0} /\ PageSize \in Nat \ {0}
  /\ Earlier \subseteq 1 .. MaxIssued

Id == 1 .. MaxIssued
Page == 1 .. MaxIssued

VARIABLES
  command,   \* command[c]: none, open, done or gone
  page,      \* commandPage
  table,     \* commandHistory, the answer shown
  asked,     \* asked[p]: GETs of page p before their SELECT
  answers,   \* their answers, in the order of the SELECTs
  timers,    \* pages of which a reload is due later
  watch,     \* watch[c]: the page watchCommand was started on, or 0
  told,      \* rows whose outcome was announced (history)
  deleting,  \* the page a DELETE under way was sent from, or 0
  unsure     \* the last answer shown was overtaken or of another page, a call
             \*   failed, or another console changed the rows (history)

historyVars == <<command, page, table, asked, answers, timers, watch, told,
                 deleting, unsure>>

Rows == {c \in Id : command[c] \in {"open", "done"}}
Newer(c) == {d \in Rows : d > c}

\* GET /:uuid/commands?page=p: the rows of the page, those that are done, and
\* total_pages, which is at least 1.
Listed(p) ==
  LET rows == {c \in Rows : Cardinality(Newer(c)) \in (p - 1) * PageSize .. p * PageSize - 1}
      full == (Cardinality(Rows) + PageSize - 1) \div PageSize
  IN [page |-> p, rows |-> rows, done |-> {c \in rows : command[c] = "done"},
      pages |-> IF full = 0 THEN 1 ELSE full, late |-> FALSE]

Gets == Len(answers) + Cardinality({t \in Page \X (1 .. MaxGets) : t[2] <= asked[t[1]]})
Get(p) == Gets < MaxGets /\ asked' = [asked EXCEPT ![p] = @ + 1]

\* The answers SELECTed so far no longer make up for what happened now.
Outdated == [i \in DOMAIN answers |-> [answers[i] EXCEPT !.late = TRUE]]
GoUnsure == unsure' = TRUE /\ answers' = Outdated

PageAnswer == [page : Page, rows : SUBSET Id, done : SUBSET Id, pages : Page,
             late : BOOLEAN]

HistoryTypeOK ==
  /\ command \in [Id -> {"none", "open", "done", "gone"}]
  /\ page \in Page /\ table \in PageAnswer
  /\ asked \in [Page -> 0 .. MaxGets] /\ Gets <= MaxGets
  /\ answers \in Seq(PageAnswer)
  /\ timers \subseteq Page /\ watch \in [Id -> Page \cup {0}]
  /\ told \subseteq Rows /\ unsure \in BOOLEAN
  /\ deleting \in Page \cup {0}

\* The page has been opened and has its first answer.
HistoryInit ==
  /\ command = [c \in Id |-> IF c \in Earlier THEN "done" ELSE "none"]
  /\ page = 1 /\ table = Listed(1)
  /\ asked = [p \in Page |-> 0] /\ answers = << >>
  /\ timers = {} /\ watch = [c \in Id |-> 0]
  /\ told = {} /\ deleting = 0 /\ unsure = FALSE

-----------------------------------------------------------------------------
(* Commands. *)

\* runCommand, and in the same way a repair of the tunnel and a new hostname: once
\* the POST is answered, two reloads are put off and the command is watched.
RunCommand(c) ==
  /\ command[c] = "none"
  /\ command' = [command EXCEPT ![c] = "open"]
  /\ timers' = timers \cup {page}
  /\ watch' = [watch EXCEPT ![c] = page]
  /\ UNCHANGED <<page, table, asked, answers, told, deleting, unsure>>

\* The row is there, but the POST fails: no reload, no watcher.
RunFails(c) ==
  /\ command[c] = "none"
  /\ command' = [command EXCEPT ![c] = "open"] /\ GoUnsure
  /\ UNCHANGED <<page, table, asked, timers, watch, told, deleting>>

\* Another console issues a command or deletes its row.
Elsewhere(c) ==
  /\ \/ command[c] = "none" /\ command' = [command EXCEPT ![c] = "open"]
     \/ c \in Rows /\ command' = [command EXCEPT ![c] = "gone"]
  /\ told' = told \ {c} /\ GoUnsure
  /\ UNCHANGED <<page, table, asked, timers, watch, deleting>>

Acked(c) ==
  /\ command[c] = "open" /\ command' = [command EXCEPT ![c] = "done"]
  /\ UNCHANGED <<page, table, asked, answers, timers, watch, told, deleting, unsure>>

\* An attempt of watchCommand that finds the outcome: a toast and a reload.
WatchTells(c) ==
  /\ watch[c] # 0 /\ command[c] = "done" /\ Get(watch[c])
  /\ told' = told \cup {c} /\ watch' = [watch EXCEPT ![c] = 0]
  /\ UNCHANGED <<command, page, table, answers, timers, deleting, unsure>>

\* Twelve attempts are over, or one fails, as it does when the row is gone.
WatchEnds(c) ==
  /\ watch[c] # 0 /\ watch' = [watch EXCEPT ![c] = 0]
  /\ UNCHANGED <<command, page, table, asked, answers, timers, told, deleting, unsure>>

-----------------------------------------------------------------------------
(* The table. *)

\* One of the reloads put off, or the last of them.
TimerFires(p) ==
  /\ p \in timers /\ Get(p) /\ timers' \in {timers, timers \ {p}}
  /\ UNCHANGED <<command, page, table, answers, watch, told, deleting, unsure>>

SelectPage(p) ==
  /\ asked[p] > 0 /\ asked' = [asked EXCEPT ![p] = @ - 1]
  /\ answers' = Append(answers, Listed(p))
  /\ UNCHANGED <<command, page, table, timers, watch, told, deleting, unsure>>

\* setData with whichever answer comes next; it overtakes the earlier ones.
ShowAnswer(i) ==
  /\ table' = [answers[i] EXCEPT !.late = FALSE]
  /\ answers' = [j \in 1 .. Len(answers) - 1 |->
                   IF j < i THEN [answers[j] EXCEPT !.late = TRUE] ELSE answers[j + 1]]
  /\ unsure' = (answers[i].late \/ answers[i].page # page)
  /\ UNCHANGED <<command, page, asked, timers, watch, told, deleting>>

PageFails(p) ==
  /\ asked[p] > 0 /\ asked' = [asked EXCEPT ![p] = @ - 1] /\ GoUnsure
  /\ UNCHANGED <<command, page, table, timers, watch, told, deleting>>

\* The buttons go by the page shown, setCommandPage by the page asked for; a new
\* path makes useFetch load it.
Turn(p) ==
  /\ \/ table.page > 1 /\ p = (IF page > 1 THEN page - 1 ELSE 1)
     \/ table.page < table.pages
        /\ p = (IF page < table.pages THEN page + 1 ELSE table.pages)
  /\ p # page /\ page' = p /\ Get(p)
  /\ UNCHANGED <<command, table, answers, timers, watch, told, deleting, unsure>>

-----------------------------------------------------------------------------
(* Deleting. *)

\* DELETE of one row that is shown, or of all that are ticked.  The selection keeps
\* what was ticked on other pages and what is gone, so that it is any set of ids.  A
\* batch above the limit and a single row that is gone are refused, which changes
\* nothing.
AskDelete(ids) ==
  /\ deleting = 0 /\ ids # {} /\ \A c \in ids : command[c] # "none"
  /\ Cardinality(ids) <= BatchLimit \/ \E c \in table.rows \cap Rows : ids = {c}
  /\ deleting' = page
  /\ command' = [c \in Id |-> IF c \in ids THEN "gone" ELSE command[c]]
  /\ told' = told \ ids
  /\ UNCHANGED <<page, table, asked, answers, timers, watch, unsure>>

\* Mutant of DeleteReturns: the table is not loaded again.
DeleteReturnsQuietly ==
  /\ deleting # 0 /\ deleting' = 0
  /\ UNCHANGED <<command, page, table, asked, answers, timers, watch, told, unsure>>

DeleteReturns ==
  /\ deleting # 0 /\ Get(deleting) /\ deleting' = 0
  /\ UNCHANGED <<command, page, table, answers, timers, watch, told, unsure>>

\* The call throws after the row has gone: no reload.
DeleteThrows ==
  /\ deleting # 0 /\ deleting' = 0 /\ GoUnsure
  /\ UNCHANGED <<command, page, table, asked, timers, watch, told>>

HistoryNext ==
  \/ \E c \in Id : \/ RunCommand(c) \/ RunFails(c) \/ Elsewhere(c) \/ Acked(c)
                   \/ WatchTells(c) \/ WatchEnds(c)
  \/ \E p \in Page : TimerFires(p) \/ SelectPage(p) \/ PageFails(p) \/ Turn(p)
  \/ \E i \in DOMAIN answers : ShowAnswer(i)
  \/ \E ids \in SUBSET Id : AskDelete(ids)
  \/ DeleteReturns \/ DeleteThrows

HistorySpec == HistoryInit /\ [][HistoryNext]_historyVars

-----------------------------------------------------------------------------
(* Properties. *)

\* When no call and no timer of the page is left, the table is the page the
\* operator asked for, lists exactly its rows, and shows as done each command whose
\* outcome was announced, unless the last answer was overtaken or fetched for
\* another page, a call failed, or another console changed the rows since.
HistoryTrue ==
  /\ answers = << >> /\ timers = {} /\ deleting = 0 /\ ~unsure
  /\ \A p \in Page : asked[p] = 0
  => /\ table.page = page /\ table.rows = Listed(page).rows
     /\ told \cap table.rows \subseteq table.done
=============================================================================
