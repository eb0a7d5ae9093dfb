--------------------------- MODULE MonitorViewers ---------------------------
(***************************************************************************)
(* The two programs that show the middleware on a terminal: the stand-alone*)
(* monitor and the client of monitord.  They share no state.               *)
(***************************************************************************)
EXTENDS Integers, Sequences, FiniteSets, SequencesExt

-----------------------------------------------------------------------------
(***************************************************************************)
(* middleware_monitor.c, the stand-alone terminal monitor.  A collector    *)
(* thread reads /proc once a second into a copy of g_data, adds to its log *)
(* ring what it noticed and puts the copy back under g_lock; the main      *)
(* thread takes a snapshot under the same lock and draws it.  Signals ask  *)
(* for the end and for new window sizes.                                   *)
(*                                                                         *)
(* Of a panel only the log is drawn here, whose rows are computed from the *)
(* ring; the other panels print fields of the same snapshot.               *)
(***************************************************************************)

CONSTANTS Known,            \* KNOWN_SERVICES
          MaxListed,        \* MAX_SERVICES
          LogLen,           \* MAX_LOG_LINES
          Heights,          \* heights of the terminal
          MaxCycle,         \* bound on the cycles of the collector
          MaxPid            \* bound on the processes started

VARIABLES proc,             \* /proc: what it says of each service's process; 0 is no process
          lastPid,          \* pids given out so far
          smUp,             \* whether a socket of the service manager takes connections
          g_data, tmp,      \* the shared data, and the collector's copy
          collector,        \* what the collector is doing
          static,           \* prev_health, prev_svc_count and prev_sm_ok
          screen,           \* the main thread: what it is doing, g_rows, the panels' height, what is shown
          term,             \* the height of the terminal
          flags,            \* g_running, g_resize
          said              \* history: the lines logged, their number after each cycle, the health seen in each

monVars == <<proc, lastPid, smUp, g_data, tmp, collector, static, screen, term, flags, said>>

NoProcess == [pid |-> 0, fds |-> 0]
NoLine    == [cycle |-> 0, what |-> "", about |-> ""]
NoData    == [services |-> << >>, ring |-> [i \in 0 .. LogLen - 1 |-> NoLine], head |-> 0, count |-> 0,
              alerts |-> 0, sm |-> FALSE, watched |-> << >>, offline |-> {}, cycle |-> 0]

\* create_panels gives every panel the height of the terminal less four.
PanelHeight(rows) == IF rows - 4 < 2 THEN 2 ELSE rows - 4

MonInit ==
    /\ proc = [s \in Known |-> NoProcess] /\ lastPid = 0 /\ smUp = FALSE
    /\ g_data = NoData /\ tmp = NoData
    /\ collector = "start"
    /\ static = [health |-> << >>, count |-> -1, sm |-> -1]
    /\ term \in Heights
    /\ screen = [at |-> "loop", rows |-> term, panel |-> PanelHeight(term), snap |-> NoData, log |-> << >>]
    /\ flags = [running |-> TRUE, resize |-> FALSE]
    /\ said = [lines |-> << >>, upto |-> <<0>>, health |-> << >>]

-----------------------------------------------------------------------------
(* What the collector computes.                                            *)

\* proc_cpu_pct: the difference to the reading kept in the entry, which
\* scan_processes has just cleared, so that there never is one.
CpuPct(s) == 0

\* compute_health, with the restart count at zero: nothing raises it.  A
\* process that ends while it is looked at has no memory.
compute_health(s) ==
    LET cpu == IF CpuPct(s) > 95 THEN 50 ELSE IF CpuPct(s) > 80 THEN 20 ELSE 0
        rss == IF s.ended THEN 10 ELSE 0
        fds == IF s.fds > 500 THEN 20 ELSE IF s.fds > 200 THEN 10 ELSE 0
    IN  100 - cpu - rss - fds

\* scan_processes: the processes of known services in the order of their
\* pids, as many as there is room for; merge_prev_service_state keeps the
\* old readings of those that were there before.
Scanned(ended) ==
    LET alive  == {s \in Known : proc[s].pid # 0}
        sorted == SetToSortSeq(alive, LAMBDA a, b : proc[a].pid < proc[b].pid)
        listed == SubSeq(sorted, 1, IF Len(sorted) < MaxListed THEN Len(sorted) ELSE MaxListed)
    IN  [i \in DOMAIN listed |->
           LET s == [name |-> listed[i], pid |-> proc[listed[i]].pid, ended |-> listed[i] \in ended,
                     fds |-> IF listed[i] \in ended THEN -1 ELSE proc[listed[i]].fds]
           IN  [name |-> s.name, pid |-> s.pid, fds |-> s.fds, health |-> compute_health(s)]]

\* collect_watchdog: an entry for each service scanned, escalated by its health.
collect_watchdog(services) ==
    [i \in DOMAIN services |->
       [name |-> services[i].name,
        escalation |-> IF services[i].health < 50 THEN 2 ELSE IF services[i].health < 70 THEN 1 ELSE 0]]

\* collect_collector_status: all are live, but for two that need the manager.
collect_collector_status(sm) == IF sm THEN {} ELSE {"sm", "security"}

\* Mutant: once the ring is full its head stays where it is.
add_logex_stuck(d, line) ==
    [d EXCEPT !.ring[(d.head + d.count) % LogLen] = line,
              !.count = IF @ < LogLen THEN @ + 1 ELSE @]

add_logex(d, line) ==
    [d EXCEPT !.ring[(d.head + d.count) % LogLen] = line,
              !.count = IF @ < LogLen THEN @ + 1 ELSE @,
              !.head = IF d.count < LogLen THEN @ ELSE (@ + 1) % LogLen]

Line(d, what, about) == [cycle |-> d.cycle, what |-> what, about |-> about]
If(cond, line) == IF cond THEN <<line>> ELSE << >>
ForEach(seq, Op(_)) == FoldLeft(LAMBDA acc, e : acc \o Op(e), << >>, seq)

\* prev_sm_ok: -1 until the first cycle.
SmFlag(d) == IF d.sm THEN 1 ELSE 0

PrevHealth(name) == {i \in DOMAIN static.health : static.health[i].name = name}
Differs(s)       == \E i \in PrevHealth(s.name) :
                       LET d == static.health[i].health - s.health IN d >= 10 \/ d =< -10

\* The lines of check_alerts: per service the descriptors and the health,
\* then the number of services.
AlertLines(d) ==
    ForEach(d.services, LAMBDA s : If(s.fds > 500, Line(d, "fds", s.name)) \o If(Differs(s), Line(d, "health", s.name)))
    \o If(static.count >= 0 /\ Len(d.services) # static.count, Line(d, "count", ""))

\* collect_sm_detail finds the copy's flag clear each time.
collect_sm_detail(d) == If(d.sm, Line(d, "reconnected", ""))

\* The lines of a cycle in their order.
CycleLines(d) ==
    collect_sm_detail(d)
    \o AlertLines(d)
    \o <<Line(d, "system", "")>>
    \o If(static.sm # SmFlag(d), Line(d, "socket", ""))
    \o ForEach(d.services, LAMBDA s : <<Line(d, "service", s.name)>>)
    \o If(d.services = << >>, Line(d, "nothing", ""))

\* The services of which check_alerts makes an alert.
Critical(d) == {i \in DOMAIN d.services : CpuPct(d.services[i]) > 90 \/ d.services[i].health < 50}

-----------------------------------------------------------------------------
(* The collector.                                                          *)

\* The top of the loop: the flag, and the copy under the lock.
CopyShared ==
    /\ collector = "start" /\ flags.running /\ g_data.cycle < MaxCycle
    /\ tmp' = [NoData EXCEPT !.services = g_data.services, !.ring = g_data.ring, !.head = g_data.head,
                             !.count = g_data.count, !.alerts = g_data.alerts, !.cycle = g_data.cycle + 1]
    /\ collector' = "scan"
    /\ UNCHANGED <<proc, lastPid, smUp, g_data, static, screen, term, flags, said>>

\* read_meminfo to collect_collector_status, during which processes end, then
\* check_alerts and the lines of the cycle.
Collect(ended) ==
    /\ collector = "scan"
    /\ \A s \in ended : proc[s].pid # 0
    /\ proc' = [s \in Known |-> IF s \in ended THEN NoProcess ELSE proc[s]]
    /\ LET d == [tmp EXCEPT !.services = Scanned(ended), !.sm = smUp,
                            !.watched = collect_watchdog(Scanned(ended)), !.offline = collect_collector_status(smUp)]
           lines == CycleLines(d)
       IN  /\ tmp' = FoldLeft(add_logex, [d EXCEPT !.alerts = Cardinality(Critical(d))], lines)
           /\ said' = [lines |-> said.lines \o lines, upto |-> Append(said.upto, Len(said.lines \o lines)),
                       health |-> Append(said.health, d.services)]
           /\ static' = [health |-> d.services, count |-> Len(d.services), sm |-> SmFlag(d)]
    /\ collector' = "publish"
    /\ UNCHANGED <<lastPid, smUp, g_data, screen, term, flags>>

\* The copy is put back under the lock.
PublishData ==
    /\ collector = "publish"
    /\ g_data' = tmp
    /\ collector' = "start"
    /\ UNCHANGED <<proc, lastPid, smUp, tmp, static, screen, term, flags, said>>

CollectorEnds ==
    /\ collector = "start" /\ ~flags.running
    /\ collector' = "gone"
    /\ UNCHANGED <<proc, lastPid, smUp, g_data, tmp, static, screen, term, flags, said>>

-----------------------------------------------------------------------------
(* The main thread.                                                        *)

Main(at) == screen' = [screen EXCEPT !.at = at]

\* handle_resize reads the size and makes the panels anew ...
ResizeBegin ==
    /\ screen.at = "loop" /\ flags.running /\ flags.resize
    /\ screen' = [screen EXCEPT !.at = "resized", !.rows = term, !.panel = PanelHeight(term)]
    /\ UNCHANGED <<proc, lastPid, smUp, g_data, tmp, collector, static, term, flags, said>>

\* ... and then clears the flag, one that was set in between too.
ResizeEnd ==
    /\ screen.at = "resized"
    /\ flags' = [flags EXCEPT !.resize = FALSE]
    /\ Main("keys")
    /\ UNCHANGED <<proc, lastPid, smUp, g_data, tmp, collector, static, term, said>>

\* getch, and the snapshot under the lock; the key may be the one to quit.
TakeSnapshot(quit) ==
    /\ \/ screen.at = "keys"
       \/ screen.at = "loop" /\ flags.running /\ ~flags.resize
    /\ flags' = IF quit THEN [flags EXCEPT !.running = FALSE] ELSE flags
    /\ screen' = [screen EXCEPT !.at = "draw", !.snap = g_data]
    /\ UNCHANGED <<proc, lastPid, smUp, g_data, tmp, collector, static, term, said>>

\* Mutant: the rows start at the oldest entry.
LogRowsOldest(d, rows) ==
    LET avail == rows - 9
    IN  [i \in 1 .. (IF d.count < avail THEN d.count ELSE IF avail < 0 THEN 0 ELSE avail) |-> d.ring[(d.head + i - 1) % LogLen]]

\* draw_panel_logs: as many of the newest entries as there are rows.
LogRows(d, rows) ==
    LET avail == rows - 9
        start == IF d.count > avail THEN d.count - avail ELSE 0
    IN  IF avail < 1 THEN << >>
        ELSE [i \in 1 .. (d.count - start) |-> d.ring[(d.head + start + i - 1) % LogLen]]

\* The bars and the active panel.
Draw ==
    /\ screen.at = "draw"
    /\ screen' = [screen EXCEPT !.at = "loop", !.log = LogRows(screen.snap, screen.panel)]
    /\ UNCHANGED <<proc, lastPid, smUp, g_data, tmp, collector, static, term, flags, said>>

\* The end: pthread_join, then destroy_panels and endwin.
Leave_main ==
    /\ screen.at = "loop" /\ ~flags.running /\ collector = "gone"
    /\ Main("ended")
    /\ UNCHANGED <<proc, lastPid, smUp, g_data, tmp, collector, static, term, flags, said>>

-----------------------------------------------------------------------------
(* The world outside.                                                      *)

ServiceStarts(s, fds) ==
    /\ lastPid < MaxPid /\ proc[s].pid = 0
    /\ lastPid' = lastPid + 1
    /\ proc' = [proc EXCEPT ![s] = [pid |-> lastPid + 1, fds |-> fds]]
    /\ UNCHANGED <<smUp, g_data, tmp, collector, static, screen, term, flags, said>>

ManagerComesOrGoes ==
    /\ collector = "start" /\ g_data.cycle = 1
    /\ smUp' = ~smUp
    /\ UNCHANGED <<proc, lastPid, g_data, tmp, collector, static, screen, term, flags, said>>

\* handle_sigwinch.
WindowResized(rows) ==
    /\ rows # term
    /\ term' = rows /\ flags' = [flags EXCEPT !.resize = TRUE]
    /\ UNCHANGED <<proc, lastPid, smUp, g_data, tmp, collector, static, screen, said>>

\* handle_sigint, handle_sigterm.
Interrupted ==
    /\ flags.running
    /\ flags' = [flags EXCEPT !.running = FALSE]
    /\ UNCHANGED <<proc, lastPid, smUp, g_data, tmp, collector, static, screen, term, said>>

MonNext ==
    \/ CopyShared \/ PublishData \/ CollectorEnds
    \/ \E ended \in SUBSET Known : Collect(ended)
    \/ ResizeBegin \/ ResizeEnd \/ Draw \/ Leave_main
    \/ \E quit \in BOOLEAN : TakeSnapshot(quit)
    \/ \E s \in Known, fds \in {20, 600} : ServiceStarts(s, fds)
    \/ ManagerComesOrGoes \/ Interrupted
    \/ \E rows \in Heights : WindowResized(rows)

-----------------------------------------------------------------------------
\* The log rows on the screen are the last lines logged up to the cycle that
\* was drawn, in order and without a gap, however the ring has wrapped and
\* whatever the collector did meanwhile.
ShownLogIsNewest ==
    LET upto == said.upto[screen.snap.cycle + 1]
    IN  screen.at = "loop" =>
            \A i \in DOMAIN screen.log : screen.log[i] = said.lines[upto - Len(screen.log) + i]

\* A snapshot is of one cycle: the services, those watched and the newest
\* line belong together.
SnapshotIsWhole ==
    LET d == screen.snap
    IN  d.cycle > 0 =>
          /\ d.watched = collect_watchdog(d.services) /\ d.offline = collect_collector_status(d.sm)
          /\ d.services = said.health[d.cycle]
          /\ d.ring[(d.head + d.count - 1) % LogLen].cycle = d.cycle

HealthIn(c, name) == {said.health[c][i].health : i \in {j \in DOMAIN said.health[c] : said.health[c][j].name = name}}

\* The health of a service that is there in two cycles in a row and differs
\* by ten points or more is reported in the second, and not otherwise.
HealthNewsExact ==
    \A c \in 2 .. Len(said.health), s \in Known :
        (\E k \in DOMAIN said.lines : said.lines[k] = [cycle |-> c, what |-> "health", about |-> s])
            <=> \E a \in HealthIn(c - 1, s), b \in HealthIn(c, s) : a - b >= 10 \/ b - a >= 10

\* The monitor shows what it collected.
MonitorAppSafe == ShownLogIsNewest /\ SnapshotIsWhole /\ HealthNewsExact

-----------------------------------------------------------------------------
(***************************************************************************)
(* The terminal client of monitord: the framed stream of snapshots and the *)
(* loop of tui_main.c that reads it with a timeout, the keys, the tabs and *)
(* the log panel, which reads the log files again for each drawing.        *)
(*                                                                         *)
(* Bytes are counted in units of four: a header has four units, and the    *)
(* snapshot 453481, of which the model keeps the remainder modulo four.    *)
(***************************************************************************)

CONSTANTS HeaderLen, PayloadLen,    \* in units of four bytes
          Tabs,             \* TAB_COUNT
          FileCap,          \* lines of one log file that are kept: the budget
          Visible,          \* rows of the log panel
          MaxMessages,      \* bound on the snapshots sent
          MaxScroll,        \* bound on the scrolling
          MaxLines          \* bound on the lines of a log file

ASSUME WireAssumption == HeaderLen \in Nat \ {0} /\ PayloadLen \in Nat \ {0} /\ (HeaderLen + PayloadLen) % HeaderLen # 0

VARIABLES about,            \* what a behaviour explores: a long stream, or the keys and the logs
          written, eof,     \* the stream: units written by the daemon; it has closed
          pos,              \* units read
          tui,              \* what the loop is at: input, header, payload, tail, ended
          snapshot,         \* the message last read whole, 0 for none
          torn,             \* history: some snapshot was read from anywhere but behind its header
          split,            \* history: the message whose header was read and whose payload was not; 0 for none
          tab, g_tab,       \* current_tab of main, g_current_tab of the layout
          scroll,           \* g_scroll_offset
          redraw,           \* need_redraw
          screen_,          \* the tab, the snapshot and the log rows on the screen
          logs              \* the log files

viewVars == <<about, written, eof, pos, tui, snapshot, torn, split, tab, g_tab, scroll, redraw, screen_, logs>>

MsgLen == HeaderLen + PayloadLen

-----------------------------------------------------------------------------
(* The log panel.                                                          *)

\* load_log: a ring of the last lines of one file.
load_log(file) ==
    LET kept == IF Len(file) < FileCap THEN Len(file) ELSE FileCap
        ring == [slot \in 0 .. FileCap - 1 |->
                    LET at == {i \in DOMAIN file : (i - 1) % FileCap = slot}
                    IN  IF at = {} THEN 0 ELSE file[CHOOSE i \in at : \A j \in at : j =< i]]
    IN  [i \in 1 .. kept |-> ring[(Len(file) - kept + i - 1) % FileCap]]

Loaded_(files) == FoldLeft(LAMBDA acc, f : acc \o load_log(f), << >>, files)

\* Mutant: scrolling counts from the first line.
LogWindowTop(files, offset) ==
    LET all == Loaded_(files)
    IN  SubSeq(all, offset + 1, IF offset + Visible < Len(all) THEN offset + Visible ELSE Len(all))

\* panel_logs_render: the rows above the end by the scroll offset.
LogWindow(files, offset) ==
    LET all   == Loaded_(files)
        want  == Len(all) - Visible - offset
        start == IF want < 0 THEN 0 ELSE want
        end   == IF start + Visible < Len(all) THEN start + Visible ELSE Len(all)
    IN  SubSeq(all, start + 1, end)

-----------------------------------------------------------------------------
ViewInit ==
    /\ about \in {"stream", "keys"}
    /\ written = 0 /\ eof = FALSE /\ pos = 0
    /\ tui = "input" /\ snapshot = 0 /\ torn = FALSE /\ split = 0
    /\ tab = 0 /\ g_tab = 0 /\ scroll = 0 /\ redraw = TRUE
    /\ screen_ = [tab |-> 0, snapshot |-> 0, rows |-> << >>]
    /\ logs = << << >>, << >> >>

stream == <<about, written, eof, pos, split, torn>>
layout == <<tab, g_tab, scroll>>

\* mon_send_msg: the header and the payload are written one after the other,
\* the payload in as many pieces as the socket takes.
DaemonWrites(n) ==
    LET into == written % MsgLen
    IN  /\ ~eof /\ written < (IF about = "stream" THEN MaxMessages ELSE 1) * MsgLen
        /\ IF into < HeaderLen THEN n = HeaderLen ELSE n \in {1, MsgLen - into}
        /\ written' = written + n
        /\ UNCHANGED <<about, eof, pos, tui, snapshot, torn, split, tab, g_tab, scroll, redraw, screen_, logs>>

DaemonCloses ==
    /\ ~eof
    /\ eof' = TRUE
    /\ UNCHANGED <<about, written, pos, tui, snapshot, torn, split, tab, g_tab, scroll, redraw, screen_, logs>>

\* A service appends a line, numbered over all files, to its log.
LogGrows(f) ==
    /\ about = "keys" /\ tui = "tail" /\ Len(logs[f]) < MaxLines
    /\ logs' = [logs EXCEPT ![f] = Append(@, <<f, Len(logs[f]) + 1>>)]
    /\ UNCHANGED <<about, written, eof, pos, tui, snapshot, torn, split, tab, g_tab, scroll, redraw, screen_>>

-----------------------------------------------------------------------------
(* The keys.                                                               *)

\* ui_layout_set_tab, which checks the index and starts at the top.
ui_layout_set_tab(t) ==
    /\ t >= 0 /\ t < Tabs
    /\ tab' = t /\ g_tab' = t /\ scroll' = 0
    /\ redraw' = TRUE

KeyTab(t) ==
    /\ about = "keys" /\ tui = "input"
    /\ ui_layout_set_tab(t)
    /\ tui' = "header"
    /\ UNCHANGED <<stream, snapshot, screen_, logs>>

\* ui_layout_scroll: by a line or a page of five, never below zero.
KeyScroll(delta) ==
    /\ about = "keys" /\ tui = "input" /\ scroll + delta =< MaxScroll
    /\ scroll' = IF scroll + delta < 0 THEN 0 ELSE scroll + delta
    /\ redraw' = TRUE
    /\ tui' = "header"
    /\ UNCHANGED <<stream, snapshot, tab, g_tab, screen_, logs>>

\* The key to refresh, or none.
KeyOther(refresh) ==
    /\ tui = "input"
    /\ redraw' = (redraw \/ refresh)
    /\ tui' = "header"
    /\ UNCHANGED <<stream, snapshot, layout, screen_, logs>>

\* The key to quit, or a signal.
Quit ==
    /\ tui = "input"
    /\ tui' = "ended"
    /\ UNCHANGED <<stream, snapshot, layout, redraw, screen_, logs>>

-----------------------------------------------------------------------------
(* mon_recv_msg.                                                           *)

Avail == written - pos

\* Nothing within the timeout: MON_WIRE_ERR_AGAIN, from the header and from
\* the payload alike.
TimesOut ==
    /\ tui \in {"header", "payload"} /\ Avail = 0 /\ ~eof
    /\ split' = IF tui = "payload" THEN pos \div MsgLen + 1 ELSE split
    /\ tui' = "tail"
    /\ UNCHANGED <<about, written, eof, pos, torn, snapshot, layout, redraw, screen_, logs>>

\* The end of the stream, inside or between messages, ends the loop.
EndOfStream ==
    /\ tui \in {"header", "payload"} /\ eof
    /\ Avail < (IF tui = "header" THEN HeaderLen ELSE PayloadLen)
    /\ tui' = "ended"
    /\ UNCHANGED <<stream, snapshot, layout, redraw, screen_, logs>>

\* Mutant: mon_recv_header does not look at the magic number.
RecvHeader_any ==
    /\ tui = "header" /\ Avail >= HeaderLen
    /\ pos' = pos + HeaderLen
    /\ tui' = "payload"
    /\ UNCHANGED <<about, written, eof, split, torn, snapshot, layout, redraw, screen_, logs>>

\* A header's worth of units; unless it is a header MON_WIRE_ERR_FRAME, and
\* the loop goes on behind it.
RecvHeader ==
    /\ tui = "header" /\ Avail >= HeaderLen
    /\ pos' = pos + HeaderLen
    /\ tui' = IF pos % MsgLen = 0 THEN "payload" ELSE "tail"
    /\ UNCHANGED <<about, written, eof, split, torn, snapshot, layout, redraw, screen_, logs>>

\* The payload goes straight into the snapshot.
RecvPayload ==
    /\ tui = "payload" /\ Avail >= PayloadLen
    /\ pos' = pos + PayloadLen
    /\ snapshot' = pos \div MsgLen + 1
    /\ torn' = (torn \/ pos % MsgLen # HeaderLen)
    /\ split' = 0
    /\ redraw' = TRUE
    /\ tui' = "tail"
    /\ UNCHANGED <<about, written, eof, layout, screen_, logs>>

\* The end of an iteration: the drawing, also when the clock has moved on.
Tail_(clockTicked) ==
    /\ tui = "tail"
    /\ IF redraw \/ clockTicked
       THEN screen_' = [tab |-> g_tab, snapshot |-> snapshot, rows |-> LogWindow(logs, scroll)]
       ELSE UNCHANGED screen_
    /\ redraw' = FALSE
    /\ tui' = "input"
    /\ UNCHANGED <<stream, snapshot, layout, logs>>

ViewNext ==
    \/ \E n \in 1 .. HeaderLen + PayloadLen : DaemonWrites(n)
    \/ DaemonCloses
    \/ \E f \in 1 .. 2 : LogGrows(f)
    \/ \E t \in {(tab + 1) % Tabs, (tab - 1 + Tabs) % Tabs, 0} : KeyTab(t)
    \/ \E d \in {-5, -1, 1, 5} : KeyScroll(d)
    \/ (\E r \in BOOLEAN : KeyOther(r)) \/ Quit
    \/ TimesOut \/ EndOfStream \/ RecvHeader \/ RecvPayload
    \/ \E c \in BOOLEAN : Tail_(c)

-----------------------------------------------------------------------------
\* Every snapshot that is shown was sent, and was read from behind its
\* header; after a payload that did not come in time the reader is back in
\* step at the latest when as many messages have gone by as a header has
\* units.
BackInStep ==
    /\ ~torn
    /\ snapshot * MsgLen =< written
    /\ split # 0 => pos =< (split - 1 + HeaderLen) * MsgLen + HeaderLen

\* The two notions of the current tab agree, and after each drawing that was
\* due the screen shows that tab and the newest snapshot.
ScreenCurrent ==
    /\ tab = g_tab
    /\ tui = "input" /\ ~redraw => screen_.snapshot = snapshot /\ screen_.tab = g_tab

\* The log rows are a window of the newest lines of each file in their
\* order: without scrolling the last one is the newest of the last file.
LogRowsInOrder ==
    LET all == Loaded_(logs)
        now == LogWindow(logs, scroll)
    IN  /\ Len(now) = IF Len(all) < Visible THEN Len(all) ELSE Visible
        /\ scroll = 0 /\ now # << >> => now[Len(now)] = all[Len(all)]
        /\ \A f \in 1 .. 2 : logs[f] # << >> =>
              /\ logs[f][Len(logs[f])] \in Range(all)
              /\ \A i, j \in DOMAIN now : i < j /\ now[i][1] = f /\ now[j][1] = f => now[i][2] < now[j][2]
=============================================================================
