------------------------------ MODULE Console ------------------------------
(***************************************************************************)
(* The console's monitor (cli/tui): a snapshot of the database that a      *)
(* timer reloads, lists with a selection each, of which jobs and calls are *)
(* read a page at a time, and a layout.  The feed of calls follows the     *)
(* newest call until the operator moves off it.  A move of the cursor is    *)
(* told by a message, which a reload may overtake.                         *)
(*                                                                         *)
(* A call or a job is its number; 0 is no row.  Jobs here are discovery    *)
(* jobs, and the families one found are one row under the job's number.    *)
(***************************************************************************)
EXTENDS Integers, Sequences, SequencesExt

\* All but the first are bounds; MaxPosted is of the messages under way.
CONSTANTS PageSize, MaxCalls, MaxJobs, MaxPage, MaxPosted

ASSUME ConsoleAssumption ==
    /\ PageSize \in Nat \ {0}
    /\ {MaxCalls, MaxJobs, MaxPage, MaxPosted} \subseteq Nat

List == {"jobs", "calls", "discovered"}
Paged == {"jobs", "calls"}

VARIABLES
    traced,    \* the calls of the database, newest first, and the last number
    filed,     \* its jobs: "queued", or "valid" or "corrupt" by the artifact
    page,      \* Console._page
    hasMore,   \* _has_more
    listed,    \* the keys each table shows
    cursor,    \* the row of each that the cursor is on
    posted,    \* RowHighlighted messages on their way
    selected,  \* _selected
    follow,    \* _follow_calls
    found,     \* _discovery_job_id, 0 before the first
    healthy,   \* _healthy
    focus,     \* the table that has the focus, or "detail"
    lastTable, \* _last_table
    maximized, \* _maximized, "none" for None
    expanded,  \* _detail_expanded
    displayed, \* the tables on the screen
    graphs,    \* whether the graphs are
    overtaken  \* the tables whose last message told, since the last reload, of
               \* a row that the cursor was no longer on

databaseVars == <<traced, filed>>
snapshotVars == <<hasMore, listed, cursor, selected, found, overtaken>>
layoutVars == <<focus, maximized, expanded, graphs>>
consoleVars ==
    <<databaseVars, page, follow, snapshotVars, posted, healthy, layoutVars,
      lastTable, displayed>>

\* RowHighlighted: the key and the row, both 0 in an empty table.
Key == Nat \ {0}
Message == [table : List, key : Key \cup {0}, row : Nat]

ConsoleTypeOK ==
    /\ traced \in [calls : Seq(1..traced.last), last : 0..MaxCalls]
    /\ filed \in Seq({"queued", "valid", "corrupt"}) /\ Len(filed) <= MaxJobs
    /\ page \in [Paged -> 0..MaxPage]
    /\ hasMore \in [Paged -> BOOLEAN]
    /\ listed \in [List -> Seq(Key)] /\ selected \in [List -> Nat]
    /\ cursor \in [List -> Nat]
    /\ \A t \in List : IF listed[t] = <<>> THEN cursor[t] = 0
                       ELSE cursor[t] \in DOMAIN listed[t]
    /\ posted \in Seq(Message) /\ Len(posted) <= MaxPosted
    /\ overtaken \subseteq List
    /\ found \in 0..MaxJobs
    /\ focus \in List \cup {"detail"} /\ lastTable \in List
    /\ maximized \in List \cup {"none"}
    /\ {follow, healthy, expanded, graphs} \subseteq BOOLEAN
    /\ displayed \subseteq List

\* Before the first reload.
ConsoleInit ==
    /\ traced = [calls |-> <<>>, last |-> 0] /\ filed = <<>>
    /\ page = [t \in Paged |-> 0] /\ hasMore = [t \in Paged |-> FALSE]
    /\ listed = [t \in List |-> <<>>] /\ selected = [t \in List |-> 0]
    /\ cursor = [t \in List |-> 0] /\ posted = <<>> /\ overtaken = {}
    /\ follow = TRUE /\ found = 0 /\ healthy = TRUE
    /\ focus = "jobs" /\ lastTable = "jobs" /\ maximized = "none"
    /\ expanded = FALSE /\ graphs = TRUE
    /\ displayed = List

-----------------------------------------------------------------------------
\* The gateway records, the operator erases, the worker finishes.
RecordCall ==
    /\ traced.last < MaxCalls
    /\ traced' = [calls |-> <<traced.last + 1>> \o traced.calls,
                  last |-> traced.last + 1]
    /\ UNCHANGED filed

EraseCall(i) ==
    /\ traced' = [traced EXCEPT !.calls = RemoveAt(@, i)]
    /\ UNCHANGED filed

QueueJob ==
    /\ Len(filed) < MaxJobs
    /\ filed' = Append(filed, "queued")
    /\ UNCHANGED traced

FinishJob(j, artifact) ==
    /\ filed[j] = "queued"
    /\ filed' = [filed EXCEPT ![j] = artifact]
    /\ UNCHANGED traced

Work ==
    /\ \/ RecordCall \/ QueueJob
       \/ \E i \in DOMAIN traced.calls : EraseCall(i)
       \/ \E j \in DOMAIN filed, artifact \in {"valid", "corrupt"} :
             FinishJob(j, artifact)
    /\ UNCHANGED <<page, follow, snapshotVars, posted, healthy, layoutVars,
                   lastTable, displayed>>

-----------------------------------------------------------------------------
\* Newest first.
RowsOf(t) ==
    IF t = "calls" THEN traced.calls
    ELSE [i \in 1..Len(filed) |-> Len(filed) + 1 - i]

\* load_state() reads a row more than a page of them.
FromPage(t, n) == SubSeq(RowsOf(t), n * PageSize + 1, Len(RowsOf(t)))
MoreAfter(t, n) == Len(FromPage(t, n)) > PageSize
PageOf(t, n) ==
    IF MoreAfter(t, n) THEN SubSeq(FromPage(t, n), 1, PageSize)
    ELSE FromPage(t, n)

\* latest_job(): the families of its artifact replace those shown, unless it
\* is corrupt.
FinishedJobs == {j \in DOMAIN filed : filed[j] # "queued"}
Discovery ==
    LET latest == {j \in FinishedJobs : \A k \in FinishedJobs : k <= j}
    IN  IF \E j \in latest : filed[j] = "valid"
        THEN CHOOSE j \in latest : TRUE
        ELSE found

\* The first row, or none.
Top(rows) == IF rows = <<>> THEN 0 ELSE rows[1]
Kept(t, rows) == IF selected[t] \in Range(rows) THEN selected[t] ELSE Top(rows)

\* Fault: the feed follows whenever the newest page is shown.
FollowsAnyway(rows, follows, n) == n = 0

\* _fill() for the calls: on the newest page the feed follows, and resumes
\* when the call that was inspected has left it.
Follows(rows, follows, n) ==
    IF rows # <<>> /\ n = 0 /\ selected["calls"] \notin Range(rows)
    THEN TRUE ELSE follows

Chosen(t, rows, follows, n) ==
    IF t = "calls" /\ n = 0 /\ follows THEN Top(rows) ELSE Kept(t, rows)

\* _active_table(), which remembers the focused table it finds.
Focused(picked) ==
    maximized = "none" /\ focus # "detail" /\ picked[focus] # 0
Remembered(picked) == IF Focused(picked) THEN focus ELSE lastTable
Active(picked) ==
    LET some == {t \in List : picked[t] # 0}
    IN  IF maximized # "none" THEN maximized
        ELSE IF Remembered(picked) \in some THEN Remembered(picked)
        ELSE IF "jobs" \in some \/ some = {} THEN "jobs"
        ELSE IF "discovered" \in some THEN "discovered" ELSE "calls"

\* Fault: the pane that has the focus is hidden too when it is empty.
FilledPanesOnly(rows, focused) == {t \in List : rows[t] # <<>>}

\* _collapse_empty_panes(): the focused pane stays, however empty.
FilledPanes(rows, focused) == {t \in List : rows[t] # <<>> \/ t = focused}

RowOf(key, rows) ==
    IF rows = <<>> THEN 0 ELSE CHOOSE i \in DOMAIN rows : rows[i] = key

\* The messages of its own moves are suppressed, those under way are not.
Fill(rows, follows) ==
    /\ listed' = rows
    /\ follow' = Follows(rows["calls"], follows, page'["calls"])
    /\ selected' = [t \in List |->
                      Chosen(t, rows[t], follow', page'["calls"])]
    /\ cursor' = [t \in List |-> RowOf(selected'[t], rows[t])]
    /\ overtaken' = {}
    /\ displayed' = IF maximized = "none"
                    THEN FilledPanes(rows, focus) ELSE displayed
    /\ lastTable' = Remembered(selected')

\* _reload(): a read that fails leaves everything as it was, and says so.
Rereads(follows) ==
    \/ /\ healthy' = TRUE
       /\ hasMore' = [t \in Paged |-> MoreAfter(t, page'[t])]
       /\ found' = Discovery
       /\ Fill([t \in List |->
                  IF t \in Paged THEN PageOf(t, page'[t])
                  ELSE IF found' = 0 THEN <<>> ELSE <<found'>>], follows)
    \/ /\ healthy' = FALSE
       /\ follow' = follows
       /\ UNCHANGED <<snapshotVars, displayed, lastTable>>

\* The timer, or the operator's refresh.
Tick ==
    /\ UNCHANGED <<databaseVars, page, posted, layoutVars>>
    /\ Rereads(follow)

\* _turn_page(): leaving the newest page pauses the feed, returning resumes it.
TurnPage(by) ==
    LET t == Active(selected)
        n == page[t] + by
    IN  /\ t \in Paged
        /\ n \in 0..MaxPage
        /\ by > 0 => hasMore[t]
        /\ page' = [page EXCEPT ![t] = n]
        /\ UNCHANGED <<databaseVars, posted, layoutVars>>
        /\ Rereads(IF t = "calls" THEN n = 0 ELSE follow)

-----------------------------------------------------------------------------
KeyAt(t, i) == IF i = 0 THEN 0 ELSE listed[t][i]

\* A move of the cursor is posted, even one in an empty table.
MoveCursor(t, i) ==
    /\ focus = t /\ t \in displayed
    /\ i # cursor[t] \/ listed[t] = <<>>
    /\ Len(posted) < MaxPosted
    /\ cursor' = [cursor EXCEPT ![t] = i]
    /\ posted' = Append(posted, [table |-> t, key |-> KeyAt(t, i), row |-> i])
    /\ UNCHANGED <<databaseVars, page, follow, hasMore, listed, selected, found,
                   overtaken, healthy, layoutVars, lastTable, displayed>>

\* The cursor is not, or no longer, where a message has it.
Overtaken(message) ==
    LET t == message.table
    IN  cursor[t] # message.row \/ KeyAt(t, cursor[t]) # message.key

\* on_data_table_row_highlighted(), later, from the message alone.
Highlight ==
    /\ posted # <<>>
    /\ LET message == Head(posted)
           t == message.table
       IN  /\ selected' = [selected EXCEPT ![t] = message.key]
           /\ follow' = IF t = "calls" /\ message.key # 0
                        THEN message.row = 1 /\ page["calls"] = 0 ELSE follow
           /\ overtaken' = IF Overtaken(message) THEN overtaken \cup {t}
                           ELSE overtaken \ {t}
    /\ posted' = Tail(posted)
    /\ lastTable' = Remembered(selected')
    /\ UNCHANGED <<databaseVars, page, hasMore, listed, cursor, found, healthy,
                   layoutVars, displayed>>

Still == UNCHANGED <<databaseVars, page, follow, snapshotVars, posted, healthy>>

Focus(widget) ==
    /\ widget \in displayed \cup {"detail"} /\ widget # focus
    /\ focus' = widget
    /\ lastTable' = IF widget # "detail" /\ maximized = "none"
                          /\ selected[widget] # 0
                    THEN widget ELSE lastTable
    /\ UNCHANGED <<maximized, expanded, graphs, displayed>>
    /\ Still

\* A widget that is hidden does not take the focus.
Take(widget, shown) == IF widget \in shown THEN widget ELSE focus

\* The graphs yield to the expanded detail and to a maximized table.
Graphs(opened, alone) == ~opened /\ alone = "none"

SetExpanded(opened) ==
    /\ expanded' = opened
    /\ graphs' = Graphs(opened, maximized)
    /\ focus' = IF opened THEN "detail" ELSE Take(Active(selected), displayed)
    /\ lastTable' = Remembered(selected)
    /\ UNCHANGED <<maximized, displayed>>

SetMaximized(alone) ==
    /\ maximized' = alone
    /\ displayed' = IF alone = "none" THEN FilledPanes(listed, focus) ELSE {alone}
    /\ graphs' = Graphs(expanded, alone)
    /\ focus' = IF alone = "none" THEN focus ELSE alone
    /\ lastTable' = Remembered(selected)
    /\ UNCHANGED expanded

\* Enter on a row.
ExpandDetail ==
    /\ focus # "detail" /\ listed[focus] # <<>>
    /\ SetExpanded(TRUE)
    /\ Still

\* The budget lines need the place of an expanded detail.
ToggleBudget == expanded /\ SetExpanded(FALSE) /\ Still

ToggleMaximize ==
    /\ SetMaximized(IF maximized = "none" THEN Active(selected) ELSE "none")
    /\ Still

\* Escape backs out of the innermost layout.
RestoreLayout ==
    /\ \/ expanded /\ SetExpanded(FALSE)
       \/ ~expanded /\ maximized # "none" /\ SetMaximized("none")
    /\ Still

Operate ==
    \/ \E by \in {-1, 1} : TurnPage(by)
    \/ \E t \in List : \E i \in DOMAIN listed[t] : MoveCursor(t, i)
    \/ \E t \in List : listed[t] = <<>> /\ MoveCursor(t, 0)
    \/ Highlight
    \/ \E widget \in List \cup {"detail"} : Focus(widget)
    \/ ExpandDetail \/ ToggleBudget \/ ToggleMaximize \/ RestoreLayout

ConsoleNext == Work \/ Tick \/ Operate

ConsoleSpec == ConsoleInit /\ [][ConsoleNext]_consoleVars

-----------------------------------------------------------------------------
\* What is selected in a table, and so what a command acts on, is the row the
\* cursor is on, or one of the table while the message of a move is under way.
SelectionAgrees(t) ==
    /\ IF listed[t] = <<>> THEN selected[t] = 0
       ELSE selected[t] \in Range(listed[t])
    /\ (\A i \in DOMAIN posted : posted[i].table # t) =>
          selected[t] = KeyAt(t, cursor[t])

\* Whatever was moved, reloaded, paged, maximized and closed, in whatever order:
\* the selection agrees with the table, the focus is on something that can be
\* seen (refresh.py:161-163, "the cursor never lands on something invisible"),
\* the graphs are back when nothing needs their place, and a feed that follows
\* shows the newest call.  Only the message of a move that is handled when the
\* cursor is no longer there, because of a reload, takes the selection out of
\* step, and no longer than to the next reload.
ScreenAgrees ==
    /\ \A t \in List \ overtaken : SelectionAgrees(t)
    /\ focus # "detail" => focus \in displayed
    /\ graphs = (maximized = "none" /\ ~expanded)
    /\ follow =>
          /\ page["calls"] = 0
          /\ healthy /\ "calls" \notin overtaken =>
                selected["calls"] = Top(listed["calls"])

\* The row that is being read, and that the table still shows, loses the
\* selection, or the feed it is in goes on.
Taken(t) ==
    /\ selected'[t] # selected[t] \/ (t = "calls" /\ follow')
    /\ selected[t] \in Range(listed'[t])
    /\ t = "calls" => ~follow

\* A reload leaves the row that is being read selected while the page still
\* has it, and a paused feed paused, however many calls arrive (detail.py:
\* 95-98, "pause so the inspected call holds still while new ones arrive").
InspectionHoldsStill == [][(\E t \in List : Taken(t)) => ~Tick]_consoleVars

=============================================================================
