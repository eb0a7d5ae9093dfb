---------------------------- MODULE OperatorTools ---------------------------
(***************************************************************************)
(* The programs and calls by which the service manager is asked for        *)
(* something.  Bankai (service_manager/enterprise/sm_cli.c) cuts a line    *)
(* into words, then runs one command: a request over a connection of its   *)
(* own, the last lines of a log, or a log followed by a second thread      *)
(* until Enter is pressed.  The sm_cli_* calls of the same file and the    *)
(* terminal (main/) keep one connection for all their commands and match   *)
(* an answer to a command by nothing but its place.  The client calls of   *)
(* lifecycle/sm_main.c make a connection for each request.                 *)
(***************************************************************************)
EXTENDS Integers, Sequences, FiniteSets, FiniteSetsExt

CONSTANTS MaxArgs,      \* BANKAI_MAX_ARGS
          MaxToken,     \* characters a word keeps (BANKAI_MAX_TOKEN - 1)
          MaxChars,     \* bound on the length of a line
          MaxLog,       \* bound on the lines of a log
          MaxDump,      \* the most lines a dump may be asked for (500)
          DefaultDump,  \* the lines of a dump when no number is given (30)
          Interval,     \* MAIN_RECONNECT_INTERVAL, in seconds
          LastTime,     \* bound on the clock
          MaxCommands   \* bound on the commands sent

ASSUME ToolAssumption ==
    /\ MaxArgs \in Nat \ {0, 1} /\ MaxToken \in Nat /\ MaxLog \in Nat /\ MaxCommands \in Nat
    /\ MaxDump \in Nat /\ DefaultDump \in Nat \ {0} /\ Interval \in Nat

VARIABLES bankai,       \* Bankai's main thread: its step, the line, the words, g_socket_path, key, socket
          dump,         \* bankai_logdump: the ring of the last lines
          tailer,       \* the thread that follows a log, its flag and its pipe
          terminal,     \* the terminal: its step, its sockets, the last attempt, the command at hand
          wire,         \* the connection of the terminal or of sm_cli_*: commands not answered, answers not read
          ctl,          \* a program that uses sm_cli_*: its step, g_cli_socket, g_monitor_running, the output
          api,          \* a program that uses the client calls: its step, the call, its socket, the reply, the result
          second        \* the time

toolVars == <<bankai, dump, tailer, terminal, wire, ctl, api, second>>

Chars == {"c", "space", "single", "double", "escape"}

NoWord == [argc |-> 0, len |-> 0, quot |-> "none", escaped |-> FALSE]
NoDump == [n |-> 1, file |-> 0, idx |-> 0, ring |-> <<>>, shown |-> <<>>]
NewWire == [asked |-> <<>>, answers |-> <<>>, closed |-> FALSE]

\* The operator starts one of the four.  Bankai begins with the fallback path
\* when only that socket file exists.  Its first line is read character by
\* character, from a point where some words may have been found.
ToolInit ==
    /\ \E program \in {"terminal", "bankai", "ctl", "api"}, path \in {"primary", "fallback"},
          found \in {0, MaxArgs - 2} :
          /\ bankai = [at |-> IF program = "bankai" THEN "line" ELSE "other", line |-> <<>>,
                       found |-> found, word |-> [NoWord EXCEPT !.argc = found],
                       path |-> path, key |-> "none", fd |-> FALSE, req |-> "none", said |-> "none"]
          /\ terminal = [at |-> IF program = "terminal" THEN "init" ELSE "other", sock |-> FALSE,
                         mon |-> FALSE, last |-> -Interval, cmd |-> 0, mine |-> 0]
          /\ ctl = [at |-> IF program = "ctl" THEN "ready" ELSE "other", sock |-> FALSE, cmd |-> 0,
                    output |-> <<>>, running |-> FALSE, handler |-> FALSE, cut |-> FALSE]
          /\ api = [at |-> IF program = "api" THEN "ready" ELSE "other", call |-> "none", fd |-> FALSE,
                    reply |-> "none", rc |-> "none"]
          /\ program # "bankai" => path = "primary" /\ found = 0
    /\ dump = NoDump
    /\ tailer = [at |-> "off", active |-> FALSE, pipe |-> "closed"]
    /\ wire = NewWire
    /\ second = 0

BankaiOnly == UNCHANGED <<terminal, wire, ctl, api, second>>

-----------------------------------------------------------------------------
\* sm_cli_tokenise.

\* The word ends at a space outside quotes; an empty one is dropped.
EndWord(w) == [w EXCEPT !.argc = IF w.len > 0 THEN @ + 1 ELSE @, !.len = 0]

Keep(w) == [w EXCEPT !.len = IF @ < MaxToken THEN @ + 1 ELSE @, !.escaped = FALSE]

Quotes == {"single", "double"}

\* Mutant: a space ends the word inside quotes too.
AfterCharAnywhere(w, c) ==
    CASE w.escaped                                      -> Keep(w)
      [] ~w.escaped /\ w.quot # "none" /\ c = "escape"  -> [w EXCEPT !.escaped = TRUE]
      [] ~w.escaped /\ w.quot # "none" /\ c = w.quot    -> [w EXCEPT !.quot = "none"]
      [] ~w.escaped /\ w.quot = "none" /\ c \in Quotes  -> [w EXCEPT !.quot = c]
      [] ~w.escaped /\ c = "space"                      -> EndWord(w)
      [] OTHER                                          -> Keep(w)

\* One character.  Inside quotes a backslash keeps the character after it, the
\* same kind of quote ends them, and everything else is kept; outside, either
\* kind begins them and a space ends the word.
AfterChar(w, c) ==
    CASE w.escaped                                      -> Keep(w)
      [] ~w.escaped /\ w.quot # "none" /\ c = "escape"  -> [w EXCEPT !.escaped = TRUE]
      [] ~w.escaped /\ w.quot # "none" /\ c = w.quot    -> [w EXCEPT !.quot = "none"]
      [] ~w.escaped /\ w.quot = "none" /\ c \in Quotes  -> [w EXCEPT !.quot = c]
      [] ~w.escaped /\ w.quot = "none" /\ c = "space"   -> EndWord(w)
      [] OTHER                                          -> Keep(w)

\* The next character of the line, which is read no further once there are
\* MaxArgs words.
NextChar(c) ==
    /\ bankai.at = "line" /\ Len(bankai.line) < MaxChars
    /\ bankai' = [bankai EXCEPT !.line = Append(@, c),
                                !.word = IF @.argc = MaxArgs THEN @ ELSE AfterChar(@, c)]
    /\ UNCHANGED <<dump, tailer>> /\ BankaiOnly

\* The end of the line, where a last backslash stands for itself.
EndLine ==
    /\ bankai.at = "line"
    /\ bankai' = [bankai EXCEPT !.at = "command", !.word = EndWord(IF @.escaped THEN Keep(@) ELSE @)]
    /\ UNCHANGED <<dump, tailer>> /\ BankaiOnly

\* A later line, of some number of words.
ReadLine(argc) ==
    /\ bankai.at = "prompt"
    /\ bankai' = [bankai EXCEPT !.at = "command", !.found = argc, !.word.argc = argc]
    /\ UNCHANGED <<dump, tailer>> /\ BankaiOnly

\* fgets has nothing more to read.
EndOfInput ==
    /\ bankai.at = "prompt"
    /\ bankai' = [bankai EXCEPT !.at = "quit"]
    /\ UNCHANGED <<dump, tailer>> /\ BankaiOnly

-----------------------------------------------------------------------------
\* bankai_run: a line without words is ignored, and some commands only print.

Dispatch == bankai.at = "command" /\ bankai.word.argc > 0

Prompt == [bankai EXCEPT !.at = "prompt", !.line = <<>>, !.found = 0, !.word = NoWord, !.fd = FALSE,
                         !.req = "none", !.said = "none"]

Prints == bankai' = Prompt /\ UNCHANGED <<dump, tailer>> /\ BankaiOnly

NoWords        == bankai.at = "command" /\ bankai.word.argc = 0 /\ Prints
HelpCommand    == Dispatch /\ Prints
SocketCommand  == Dispatch /\ Prints
UnknownCommand == Dispatch /\ Prints

QuitBankai ==
    /\ Dispatch
    /\ bankai' = [Prompt EXCEPT !.at = "quit"]
    /\ UNCHANGED <<dump, tailer>> /\ BankaiOnly

\* bankai_open_socket.  The fallback is tried only while the primary path is
\* the active one, and stays active once it has worked.
OpenSocket(to, kind) ==
    \/ \E path \in {"primary", "fallback"} :
          /\ bankai.path = "fallback" => path = "fallback"
          /\ bankai' = [Prompt EXCEPT !.at = to, !.path = path, !.fd = TRUE, !.req = kind]
    \/ bankai' = Prompt

\* The commands that make a request, each with the words it takes.  Without
\* them it only says how it is used.
Request(kind, words) ==
    /\ Dispatch
    /\ IF bankai.word.argc < words THEN bankai' = Prompt ELSE OpenSocket("key", kind)
    /\ UNCHANGED <<dump, tailer>> /\ BankaiOnly

RequestRegister   == Request("register", 4)
RequestLookup     == Request("lookup", 2)
RequestHeartbeat  == Request("heartbeat", 2)
RequestUnregister == Request("unregister", 2)

\* ping opens a socket, if there is a socket file, and closes it.
RequestPing ==
    /\ Dispatch
    /\ OpenSocket("pinged", "ping")
    /\ UNCHANGED <<dump, tailer>> /\ BankaiOnly

PingReturns ==
    /\ bankai.at = "pinged"
    /\ Prints

\* bankai_load_key, at the first request: the first of the two files that
\* holds a whole key.  Without one nothing is sent.
LoadKey ==
    /\ bankai.at = "key"
    /\ \/ bankai.key # "none" /\ bankai' = [bankai EXCEPT !.at = "send"]
       \/ /\ bankai.key = "none"
          /\ \E whole \in SUBSET {"run", "tmp"} :
                bankai' = IF whole = {} THEN Prompt
                          ELSE [bankai EXCEPT !.at = "send", !.key = IF "run" \in whole THEN "run" ELSE "tmp"]
    /\ UNCHANGED <<dump, tailer>> /\ BankaiOnly

\* raw_transact: the header and the payload go out whole, or not.  A request
\* is of fixed size, below the limit it tests first.
TransactBankai ==
    /\ bankai.at = "send"
    /\ bankai' = [bankai EXCEPT !.at = "recv"] \/ bankai' = Prompt
    /\ UNCHANGED <<dump, tailer>> /\ BankaiOnly

\* The sizes recv may return: an sm_reply_t, an sm_lookup_reply_t, something
\* shorter when the connection ends, or an error after 5 s.
ReplySizes(kind) == {"error", "short", "reply"} \cup IF kind = "lookup" THEN {"lookup"} ELSE {}

Said(kind, size) ==
    CASE size = "error"                      -> "error"
      [] size = "reply"                      -> "code"
      [] size = "lookup" /\ kind = "lookup"  -> "found"
      [] OTHER                               -> "unexpected"

RecvReply(size) ==
    /\ bankai.at = "recv" /\ size \in ReplySizes(bankai.req)
    /\ bankai' = [bankai EXCEPT !.at = "said", !.said = Said(bankai.req, size)]
    /\ UNCHANGED <<dump, tailer>> /\ BankaiOnly

RequestReturns ==
    /\ bankai.at = "said"
    /\ Prints

\* logdump and auditdump: the number of lines asked for.
DumpLines(asked) == IF asked =< 0 \/ asked > MaxDump THEN DefaultDump ELSE asked

\* bankai_logdump of a log of some lines, which may be missing.
DumpStart(file, asked) ==
    /\ Dispatch
    /\ bankai.word.argc = 1 => asked = 0
    /\ \/ LET n == DumpLines(asked)
          IN  /\ bankai' = [Prompt EXCEPT !.at = "dump"]
              /\ dump' = [n |-> n, file |-> file, idx |-> 0, ring |-> [i \in 0 .. n - 1 |-> 0], shown |-> <<>>]
       \/ bankai' = Prompt /\ UNCHANGED dump
    /\ UNCHANGED tailer /\ BankaiOnly

DumpLine ==
    /\ bankai.at = "dump" /\ dump.idx < dump.file
    /\ dump' = [dump EXCEPT !.ring[dump.idx % dump.n] = dump.idx + 1, !.idx = @ + 1]
    /\ UNCHANGED <<bankai, tailer>> /\ BankaiOnly

\* Mutant: the ring is read from its beginning.
DumpShownUnrotated(d) ==
    [i \in 1 .. IF d.idx >= d.n THEN d.n ELSE d.idx |-> d.ring[i - 1]]

\* From the oldest line the ring holds.
DumpShown(d) ==
    LET full == d.idx >= d.n
        start == IF full THEN d.idx % d.n ELSE 0
    IN  [i \in 1 .. IF full THEN d.n ELSE d.idx |-> d.ring[(start + i - 1) % d.n]]

DumpEnd ==
    /\ bankai.at = "dump" /\ dump.idx = dump.file
    /\ dump' = [dump EXCEPT !.shown = DumpShown(dump)]
    /\ bankai' = [bankai EXCEPT !.at = "dumped"]
    /\ UNCHANGED tailer /\ BankaiOnly

DumpReturns ==
    /\ bankai.at = "dumped"
    /\ bankai' = Prompt /\ dump' = NoDump
    /\ UNCHANGED tailer /\ BankaiOnly

\* bankai_cmd_tail: the pipe and the thread, or neither.
TailStart ==
    /\ Dispatch /\ ~tailer.active
    /\ \/ /\ tailer' = [at |-> "open", active |-> TRUE, pipe |-> "open"]
          /\ bankai' = [Prompt EXCEPT !.at = "getchar"]
       \/ bankai' = Prompt /\ UNCHANGED tailer
    /\ UNCHANGED dump /\ BankaiOnly

\* bankai_tail_fn.  A file that cannot be opened ends it at once.
TailOpens ==
    /\ tailer.at = "open"
    /\ \/ tailer' = [tailer EXCEPT !.at = "loop"]
       \/ tailer' = [tailer EXCEPT !.at = "over", !.active = FALSE]
    /\ UNCHANGED <<bankai, dump>> /\ BankaiOnly

\* poll has seen the byte; until then the lines that have come are printed.
TailPolls ==
    /\ tailer.at = "loop" /\ tailer.active
    /\ tailer.pipe = "byte"
    /\ tailer' = [tailer EXCEPT !.at = "over", !.active = FALSE]
    /\ UNCHANGED <<bankai, dump>> /\ BankaiOnly

\* Enter, or the end of the input.  A write that fails is ignored, and the
\* thread, whose flag nobody else clears, then goes on.
TailStop ==
    /\ bankai.at = "getchar"
    /\ tailer' = [tailer EXCEPT !.pipe = "byte"] \/ UNCHANGED tailer
    /\ bankai' = [bankai EXCEPT !.at = "join"]
    /\ UNCHANGED dump /\ BankaiOnly

\* Mutant: the pipe is closed without waiting for the thread.
TailJoinedAtOnce ==
    /\ bankai.at = "join"
    /\ tailer' = [tailer EXCEPT !.pipe = "closed"]
    /\ bankai' = Prompt
    /\ UNCHANGED dump /\ BankaiOnly

TailJoined ==
    /\ bankai.at = "join" /\ tailer.at = "over"
    /\ tailer' = [tailer EXCEPT !.at = "off", !.pipe = "closed"]
    /\ bankai' = Prompt
    /\ UNCHANGED dump /\ BankaiOnly

-----------------------------------------------------------------------------
\* The sm_cli_* calls.

CtlOnly == UNCHANGED <<bankai, dump, tailer, terminal, api, second>>

\* sm_cli_connect_to_manager.  A socket that was open is forgotten, not closed.
CtlConnect ==
    /\ ctl.at = "ready"
    /\ \E ok \in BOOLEAN : ctl' = [ctl EXCEPT !.sock = ok, !.cut = FALSE, !.output = <<>>]
    /\ wire' = NewWire
    /\ CtlOnly

CtlDisconnect ==
    /\ ctl.at = "ready" /\ ctl.sock
    /\ ctl' = [ctl EXCEPT !.sock = FALSE, !.cut = FALSE, !.output = <<>>]
    /\ wire' = NewWire
    /\ CtlOnly

\* Where the caller of sm_cli_execute_command goes on.
NextStep(c) == IF c.handler THEN "sleep" ELSE "ready"

\* sm_cli_execute_command, called by the seven commands or by the monitor.
Calls == ctl.at = "ready" \/ (ctl.at = "loop" /\ ctl.running)

CtlSend ==
    /\ Calls /\ ctl.sock /\ ~wire.closed /\ ctl.cmd < MaxCommands
    /\ ctl' = [ctl EXCEPT !.at = "recv", !.cmd = @ + 1, !.output = <<>>]
    /\ wire' = [wire EXCEPT !.asked = Append(@, ctl.cmd + 1)]
    /\ CtlOnly

\* There is no connection, or the other end has closed it: an error, or for
\* a caller that has not ignored SIGPIPE the end.
CtlRefused ==
    /\ Calls /\ (~ctl.sock \/ wire.closed)
    /\ \/ ctl' = [ctl EXCEPT !.at = NextStep(ctl), !.output = <<>>]
       \/ ctl.sock /\ ctl' = [ctl EXCEPT !.at = "killed"]
    /\ UNCHANGED wire /\ CtlOnly

\* Mutant: the answers are left in the socket (MSG_PEEK).
CtlRecvPeek ==
    /\ ctl.at = "recv" /\ (wire.answers # <<>> \/ wire.closed)
    /\ ctl' = [ctl EXCEPT !.at = NextStep(ctl), !.output = wire.answers, !.cut = FALSE]
    /\ UNCHANGED wire
    /\ CtlOnly

\* One recv, without a timeout: all that has come, or nothing when the other
\* end has closed.
CtlRecv ==
    /\ ctl.at = "recv" /\ (wire.answers # <<>> \/ wire.closed)
    /\ ctl' = [ctl EXCEPT !.at = NextStep(ctl), !.output = wire.answers]
    /\ wire' = [wire EXCEPT !.answers = <<>>]
    /\ CtlOnly

\* sm_cli_monitor_stats: its own handler for SIGINT, and the old one again.
MonitorStats ==
    /\ ctl.at = "ready"
    /\ ctl' = [ctl EXCEPT !.at = "loop", !.handler = TRUE, !.running = TRUE]
    /\ UNCHANGED wire /\ CtlOnly

MonitorSleeps ==
    /\ ctl.at = "sleep"
    /\ ctl' = [ctl EXCEPT !.at = "loop"]
    /\ UNCHANGED wire /\ CtlOnly

MonitorEnds ==
    /\ ctl.at = "loop" /\ ~ctl.running
    /\ ctl' = [ctl EXCEPT !.at = "ready", !.handler = FALSE, !.output = <<>>]
    /\ UNCHANGED wire /\ CtlOnly

\* Ctrl-C while the handler is installed.  It has no SA_RESTART: recv fails,
\* and the answer it waited for is still to come.
Interrupt ==
    /\ ctl.handler
    /\ ctl' = [ctl EXCEPT !.running = FALSE,
                          !.at = IF @ = "recv" THEN "sleep" ELSE @,
                          !.cut = @ \/ ctl.at = "recv"]
    /\ UNCHANGED wire /\ CtlOnly

-----------------------------------------------------------------------------
\* The client calls of sm_main.c.

ApiOnly == UNCHANGED <<bankai, dump, tailer, terminal, wire, ctl, second>>

ClientCalls == {"register", "lookup", "heartbeat", "unregister"}

Codes == {"OK", "EXISTS", "FULL", "NOT_FOUND", "PERMISSION", "AUTH", "RATELIMIT", "INVALID"}

CallResult(rc) == api' = [api EXCEPT !.at = "done", !.fd = FALSE, !.rc = rc]

\* A call begins: its arguments are looked at, then it connects.
CallBegin(call, valid, connected) ==
    /\ api.at = "ready"
    /\ api' = [api EXCEPT !.call = call, !.reply = "none",
                          !.at = IF valid /\ connected THEN "send" ELSE "done",
                          !.fd = valid /\ connected,
                          !.rc = CASE ~valid -> "INVALID"
                                   [] valid /\ ~connected -> "NOT_FOUND"
                                   [] OTHER -> "none"]
    /\ ApiOnly

sm_register(valid, connected)   == CallBegin("register", valid, connected)
sm_lookup(valid, connected)     == CallBegin("lookup", valid, connected)
sm_heartbeat(valid, connected)  == CallBegin("heartbeat", valid, connected)
sm_unregister(valid, connected) == CallBegin("unregister", valid, connected)

\* _sm_transact: the header, signed if there is a key, then the payload.
TransactSend ==
    /\ api.at = "send"
    /\ api' = [api EXCEPT !.at = "recv"] \/ CallResult("INVALID")
    /\ ApiOnly

\* The manager answers and closes: an entry to a lookup that found one, a
\* code to everything else.  Or it closes without an answer.
ManagerReplies(reply) ==
    /\ api.at = "recv" /\ api.reply = "none"
    /\ reply = "entry" => api.call = "lookup"
    /\ reply = "OK" => api.call # "lookup"
    /\ api' = [api EXCEPT !.reply = reply]
    /\ ApiOnly

\* Mutant: any answer to a lookup is taken for an entry.
TransactRecvAny ==
    /\ api.at = "recv" /\ api.reply # "none"
    /\ CallResult(IF api.call = "lookup" /\ api.reply # "closed" THEN "OK"
              ELSE IF api.reply \in Codes THEN api.reply ELSE "INVALID")
    /\ ApiOnly

\* recv with MSG_WAITALL: the whole of the expected answer, or an error.  A
\* lookup expects an entry, so that every code is too short for it.
TransactRecv ==
    /\ api.at = "recv" /\ api.reply # "none"
    /\ CallResult(CASE api.reply = "entry" -> "OK"
                [] api.reply \in Codes /\ api.call # "lookup" -> api.reply
                [] OTHER -> "INVALID")
    /\ ApiOnly

CallReturns ==
    /\ api.at = "done"
    /\ api' = [api EXCEPT !.at = "ready"]
    /\ ApiOnly

-----------------------------------------------------------------------------
\* The terminal.

TermOnly == UNCHANGED <<bankai, dump, tailer, ctl, api>>

\* conn_sm_connect without a socket: not sooner than Interval after the last
\* attempt, whatever that one came to.
MayAttempt == second - terminal.last >= Interval

Attempted(t, ok) == [t EXCEPT !.last = second, !.sock = ok]

\* conn_monitor_connect, whose socket may still be connecting.
MonitorAttempted(t, ok) == [t EXCEPT !.mon = ok]

\* main_loop_init: three attempts within a second, of which Interval lets
\* only the first be made, then one to the monitor.
StartTerminal ==
    /\ terminal.at = "init"
    /\ \E ok, mon \in BOOLEAN :
          terminal' = [MonitorAttempted(Attempted(terminal, ok), mon) EXCEPT !.at = "prompt"]
    /\ wire' = NewWire
    /\ UNCHANGED second /\ TermOnly

\* cmd_handler_execute, of a line main_loop_run has read.
Execute == terminal.at = "prompt" /\ terminal.cmd < MaxCommands

\* conn_sm_reconnect gives up the socket it has, and may not be allowed
\* another.
Reconnect(t) ==
    /\ \/ MayAttempt /\ \E ok \in BOOLEAN : terminal' = Attempted(t, ok)
       \/ ~MayAttempt /\ terminal' = [t EXCEPT !.sock = FALSE]
    /\ wire' = NewWire

PingCommand ==
    /\ Execute
    /\ IF terminal.sock THEN UNCHANGED <<terminal, wire>> ELSE Reconnect(terminal)
    /\ UNCHANGED second /\ TermOnly

ConnectCommand ==
    /\ Execute
    /\ Reconnect(terminal)
    /\ UNCHANGED second /\ TermOnly

\* list, start, stop, restart and status, whose handlers only word the
\* result of conn_sm_send_command.  It connects if it must and may.
SendCommand ==
    /\ Execute
    /\ \/ /\ terminal.sock /\ ~wire.closed
          /\ terminal' = [terminal EXCEPT !.at = "recv", !.cmd = @ + 1, !.mine = 0]
          /\ wire' = [wire EXCEPT !.asked = Append(@, terminal.cmd + 1)]
       \/ /\ ~terminal.sock /\ MayAttempt
          /\ terminal' = [Attempted(terminal, TRUE) EXCEPT !.at = "recv", !.cmd = @ + 1, !.mine = 0]
          /\ wire' = [NewWire EXCEPT !.asked = <<terminal.cmd + 1>>]
    /\ UNCHANGED second /\ TermOnly

\* It may not, or nobody listens.
SendRefused ==
    /\ Execute /\ ~terminal.sock
    /\ terminal' = [terminal EXCEPT !.mine = 0, !.last = IF MayAttempt THEN second ELSE @]
    /\ UNCHANGED <<wire, second>> /\ TermOnly

\* The other end has closed the connection: send raises SIGPIPE, which the
\* terminal neither handles nor ignores.
SendToClosed ==
    /\ Execute /\ terminal.sock /\ wire.closed
    /\ terminal' = [terminal EXCEPT !.at = "killed"]
    /\ UNCHANGED <<wire, second>> /\ TermOnly

RecvAnswer ==
    /\ terminal.at = "recv" /\ wire.answers # <<>>
    /\ terminal' = [terminal EXCEPT !.at = "prompt", !.mine = Head(wire.answers)]
    /\ wire' = [wire EXCEPT !.answers = Tail(@)]
    /\ UNCHANGED second /\ TermOnly

\* recv returns 0: an answer without OK, and the socket is kept.
RecvEnd ==
    /\ terminal.at = "recv" /\ wire.answers = <<>> /\ wire.closed
    /\ terminal' = [terminal EXCEPT !.at = "prompt"]
    /\ UNCHANGED <<wire, second>> /\ TermOnly

\* Mutant: the connection is kept when an answer does not come in time.
RecvTimeoutKept ==
    /\ terminal.at = "recv" /\ wire.answers = <<>> /\ ~wire.closed
    /\ terminal' = [terminal EXCEPT !.at = "prompt"]
    /\ UNCHANGED <<wire, second>> /\ TermOnly

\* MAIN_SM_TIMEOUT_MS: the connection is given up, and the answer with it.
RecvTimeout ==
    /\ terminal.at = "recv" /\ wire.answers = <<>> /\ ~wire.closed
    /\ terminal' = [terminal EXCEPT !.at = "prompt", !.sock = FALSE]
    /\ wire' = NewWire
    /\ UNCHANGED second /\ TermOnly

\* The other end answers the commands of a connection in order, late or not,
\* or closes it.
ManagerAnswers ==
    /\ wire.asked # <<>>
    /\ wire' = [wire EXCEPT !.asked = Tail(@), !.answers = Append(@, Head(wire.asked))]
    /\ UNCHANGED <<terminal, second>> /\ TermOnly

ManagerCloses ==
    /\ terminal.sock \/ ctl.sock
    /\ ~wire.closed
    /\ wire' = [wire EXCEPT !.asked = <<>>, !.closed = TRUE]
    /\ UNCHANGED <<terminal, second>> /\ TermOnly

Second ==
    /\ terminal.at # "other" /\ second < LastTime
    /\ second' = second + 1
    /\ UNCHANGED <<terminal, wire>> /\ TermOnly

QuitTerminal ==
    /\ terminal.at = "prompt"
    /\ terminal' = [terminal EXCEPT !.at = "quit", !.sock = FALSE, !.mon = FALSE]
    /\ wire' = NewWire
    /\ UNCHANGED second /\ TermOnly

BankaiNext ==
    \/ \E c \in Chars : NextChar(c)
    \/ \E argc \in 0 .. MaxArgs : ReadLine(argc)
    \/ EndLine \/ EndOfInput \/ NoWords \/ HelpCommand \/ SocketCommand \/ UnknownCommand \/ QuitBankai
    \/ RequestRegister \/ RequestLookup \/ RequestHeartbeat \/ RequestUnregister
    \/ LoadKey \/ TransactBankai \/ RequestReturns
    \/ \E size \in {"error", "short", "reply", "lookup"} : RecvReply(size)
    \/ RequestPing \/ PingReturns
    \/ \E file \in 0 .. MaxLog, asked \in 0 .. MaxDump + 1 : DumpStart(file, asked)
    \/ DumpLine \/ DumpEnd \/ DumpReturns
    \/ TailStart \/ TailOpens \/ TailPolls \/ TailStop \/ TailJoined

CtlNext ==
    \/ CtlConnect \/ CtlDisconnect \/ CtlSend \/ CtlRefused \/ CtlRecv
    \/ MonitorStats \/ MonitorSleeps \/ MonitorEnds \/ Interrupt

ApiNext ==
    \/ \E valid, connected \in BOOLEAN :
          \/ sm_register(valid, connected) \/ sm_lookup(valid, connected)
          \/ sm_heartbeat(valid, connected) \/ sm_unregister(valid, connected)
    \/ TransactSend \/ TransactRecv \/ CallReturns
    \/ \E reply \in Codes \cup {"entry", "closed"} : ManagerReplies(reply)

TerminalNext ==
    \/ StartTerminal \/ PingCommand \/ ConnectCommand \/ SendCommand \/ SendRefused \/ SendToClosed
    \/ RecvAnswer \/ RecvEnd \/ RecvTimeout \/ Second \/ QuitTerminal

ToolNext ==
    \/ BankaiNext \/ CtlNext \/ ApiNext \/ TerminalNext
    \/ ManagerAnswers \/ ManagerCloses

-----------------------------------------------------------------------------
\* Properties.

ToolTypeOK ==
    /\ bankai.word.argc \in 0 .. MaxArgs /\ bankai.word.len \in 0 .. MaxToken
    /\ dump.idx \in 0 .. MaxLog
    /\ Len(wire.asked) + Len(wire.answers) =< MaxCommands
    /\ ctl.cmd \in 0 .. MaxCommands /\ api.rc \in Codes \cup {"none"}

\* A line without backslashes is cut at the spaces outside quotes, and only
\* there: as many words as there are runs of kept characters between them.
\* A quote delimits if it is outside quotes, or of the kind that began them.
Delimiters(line) ==
    LET marks == {i \in DOMAIN line : line[i] \in Quotes}
        before(D, i) == {j \in D : j < i}
    IN  CHOOSE D \in SUBSET marks :
          \A i \in marks : i \in D <=> \/ Cardinality(before(D, i)) % 2 = 0
                                      \/ line[i] = line[Max(before(D, i))]

WordsOf(line) ==
    LET D      == Delimiters(line)
        Cut(i) == line[i] = "space" /\ Cardinality({j \in D : j < i}) % 2 = 0
        Kept   == {i \in DOMAIN line \ D : ~Cut(i)}
    IN  Cardinality({i \in Kept : \A j \in Kept : j < i => \E k \in j + 1 .. i - 1 : Cut(k)})

CutAtSpaces ==
    bankai.at = "command" /\ (\A i \in DOMAIN bankai.line : bankai.line[i] # "escape") =>
        bankai.word.argc = Min({bankai.found + WordsOf(bankai.line), MaxArgs})

\* A dump shows the last lines of the log, oldest first.
DumpIsTail ==
    bankai.at = "dumped" =>
        /\ Len(dump.shown) = IF dump.file < dump.n THEN dump.file ELSE dump.n
        /\ \A i \in DOMAIN dump.shown : dump.shown[i] = dump.file - Len(dump.shown) + i

\* At the prompt no thread follows a log, so its pipe may be closed, and no
\* socket is left open.
PromptIsQuiet ==
    bankai.at \in {"prompt", "quit"} =>
        tailer = [at |-> "off", active |-> FALSE, pipe |-> "closed"] /\ ~bankai.fd

\* What the terminal takes for the answer to a command is the answer to that
\* command, though one may come after the terminal has stopped waiting.
AnswerIsMine == terminal.at = "prompt" /\ terminal.mine # 0 => terminal.mine = terminal.cmd

\* The output of an sm_cli_* command is the answer to it, unless Ctrl-C has cut
\* a call short on this connection: from then on answers come late, but still
\* in order and never before their command.
OutputIsMine ==
    ctl.at # "recv" /\ ctl.output # <<>> =>
        /\ ~ctl.cut => ctl.output = <<ctl.cmd>>
        /\ \A i \in DOMAIN ctl.output : ctl.output[i] = ctl.output[1] + i - 1 /\ ctl.output[i] =< ctl.cmd

\* Once the monitor has returned the caller's handler is in place again, and
\* while it runs its own is.
HandlerRestored == ctl.at = "ready" => ~ctl.handler

\* A client call answers SM_OK only when the manager did, and hands the
\* refusals on, which a lookup turns into SM_ERR_INVALID; its socket is closed.
CallTellsTruth ==
    api.at = "done" =>
        /\ ~api.fd
        /\ api.rc = "OK" => api.reply \in {"OK", "entry"}
        /\ api.reply \in Codes => api.rc = IF api.call = "lookup" THEN "INVALID" ELSE api.reply

\* The tools read a line, show a log and wait for an answer as the operator
\* expects (sm_cli.c, bankai, conn_sm.c), and so do the client calls.
ToolsSafe ==
    /\ ToolTypeOK /\ DumpIsTail /\ PromptIsQuiet /\ AnswerIsMine
    /\ OutputIsMine /\ HandlerRestored /\ CallTellsTruth
=============================================================================
