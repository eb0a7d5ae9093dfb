--------------------------- MODULE Observability ----------------------------
(***************************************************************************)
(* What the service manager records, and how it watches itself.  The parts *)
(* share no state.                                                         *)
(***************************************************************************)
EXTENDS Integers, Sequences, FiniteSets, SequencesExt, FiniteSetsExt

-----------------------------------------------------------------------------
(***************************************************************************)
(* What the service manager records: the log with its rotation             *)
(* (sm_logging.c), the fields of the audit log and of the JSON log, which  *)
(* are escaped into buffers of fixed size (sm_audit.c, sm_structured_log.c)*)
(* and the counters of requests (sm_metrics.c), which worker threads add   *)
(* to without a lock and move to a history once a second.                  *)
(***************************************************************************)

CONSTANTS Backups,          \* SM_LOG_BACKUP_COUNT
          FileLines,        \* SM_LOG_MAX_SIZE, in lines
          MaxLines,         \* bound on the lines
          Meters,           \* threads that report requests
          MaxReports,       \* bound on the reports
          LastSecond        \* bound on the clock

VARIABLES log,              \* the log file and its backups 0 .. Backups - 1, whether it is open
          written,          \* history: lines written to the log
          met,              \* g_metrics
          meter,            \* what each thread is doing in sm_metrics_request
          second,           \* time(NULL)
          moved             \* history: requests moved to the history, its largest bucket, reports, resets

obsVars == <<log, written, met, meter, second, moved>>

ObsInit ==
    /\ log = [file |-> << >>, old |-> [i \in 0 .. Backups - 1 |-> << >>], open |-> TRUE]
    /\ written = 0
    /\ met = [total_requests |-> 0, current_sec |-> 0, peak_qps |-> 0, last_reset |-> 0, mutex |-> "free"]
    /\ meter = [t \in Meters |-> [at |-> "idle", now |-> 0]]
    /\ second = 0
    /\ moved = [requests |-> 0, peak |-> 0, reports |-> 0, cut |-> FALSE]

-----------------------------------------------------------------------------
\* Mutant: the backups are renamed from the newest on.
ShiftedFromNewest(old) == [i \in 0 .. Backups - 1 |-> old[0]]

\* The renames of log_rotate_locked, from the oldest on: the last backup is
\* replaced.
Shifted(old) == [i \in 0 .. Backups - 1 |-> IF i = 0 THEN << >> ELSE old[i - 1]]

Rotated(l, reopened) ==
    IF Len(l.file) < FileLines THEN l
    ELSE [file |-> << >>, old |-> [Shifted(l.old) EXCEPT ![0] = l.file], open |-> reopened]

\* sm_log: rotate if the file is full, then write.  A file that cannot be
\* opened again is not tried a second time.
WriteLine(reopened) ==
    LET l == Rotated(log, reopened)
    IN  /\ log.open /\ written < MaxLines
        /\ (~reopened => Len(log.file) >= FileLines)
        /\ log' = IF l.open THEN [l EXCEPT !.file = Append(@, written + 1)] ELSE l
        /\ written' = IF l.open THEN written + 1 ELSE written
        /\ UNCHANGED <<met, meter, second, moved>>

\* sm_logging_close, and sm_logging_init of the next process.
ReopenLog ==
    /\ ~log.open /\ log' = [log EXCEPT !.open = TRUE]
    /\ UNCHANGED <<written, met, meter, second, moved>>

-----------------------------------------------------------------------------
\* Characters that escape differently; those written with two characters
\* are mapped to the second of them.
Chars  == {"x", "|", "nl", "bs", "ctl"}
Second(c) == CASE c = "|" -> "p" [] c = "nl" -> "n" [] c = "bs" -> "bs"
Special == {"|", "nl", "bs"}

\* Mutant: room for one character is enough for two.
audit_step_tight(o, c, outlen) ==
    IF o.stop \/ Len(o.out) >= outlen - 1 THEN [o EXCEPT !.stop = TRUE]
    ELSE IF c \in Special THEN [o EXCEPT !.out = @ \o <<"bs", Second(c)>>]
    ELSE [o EXCEPT !.out = Append(@, IF c = "ctl" THEN "?" ELSE c)]

\* One round of the loop of escape_audit_field, which ends when a pair does
\* not fit.
audit_step(o, c, outlen) ==
    IF o.stop \/ Len(o.out) >= outlen - 1 THEN [o EXCEPT !.stop = TRUE]
    ELSE IF c \in Special
    THEN IF Len(o.out) + 1 < outlen - 1 THEN [o EXCEPT !.out = @ \o <<"bs", Second(c)>>]
                                         ELSE [o EXCEPT !.stop = TRUE]
    ELSE [o EXCEPT !.out = Append(@, IF c = "ctl" THEN "?" ELSE c)]

escape_audit_field(s, outlen) ==
    FoldLeft(LAMBDA o, c : audit_step(o, c, outlen), [out |-> << >>, stop |-> FALSE], s).out

\* json_escape_string leaves out what does not fit and goes on; "|" stands
\* for the quote here.  Control characters are skipped.
json_escape_string(s, outlen) ==
    FoldLeft(LAMBDA o, c :
                 IF Len(o) >= outlen - 1 \/ c = "ctl" THEN o
                 ELSE IF c \in Special THEN IF Len(o) + 2 < outlen THEN o \o <<"bs", Second(c)>> ELSE o
                 ELSE Append(o, c), << >>, s)

-----------------------------------------------------------------------------
Later(t, state) == meter' = [meter EXCEPT ![t] = state]

\* sm_metrics_request: the first counters.
Report(t) ==
    /\ meter[t].at = "idle" /\ moved.reports < MaxReports
    /\ met' = [met EXCEPT !.total_requests = @ + 1]
    /\ moved' = [moved EXCEPT !.reports = @ + 1]
    /\ Later(t, [at |-> "counted", now |-> 0])
    /\ UNCHANGED <<log, written, second>>

\* The counter of the second, the clock, and the unlocked look at the last
\* reset.
ReportSecond(t) ==
    /\ meter[t].at = "counted"
    /\ met' = [met EXCEPT !.current_sec = @ + 1]
    /\ Later(t, [at |-> IF second # met.last_reset THEN "lock" ELSE "idle", now |-> second])
    /\ UNCHANGED <<log, written, second, moved>>

\* Mutant: the bucket is read and cleared in two steps, and what is counted
\* between them is lost.
BucketTwice == met.current_sec - 1

\* atomic_exchange of the counter of the second.
Bucket == met.current_sec

\* pthread_mutex_trylock: a thread that does not get the lock leaves it to
\* the other; one that does looks again.
TryRoll(t) ==
    /\ meter[t].at = "lock"
    /\ IF met.mutex = "free" /\ meter[t].now # met.last_reset
       THEN /\ met' = [met EXCEPT !.mutex = t, !.current_sec = 0,
                                  !.peak_qps = IF Bucket > @ THEN Bucket ELSE @]
            /\ moved' = [moved EXCEPT !.requests = @ + Bucket,
                                      !.peak = IF met.current_sec > @ THEN met.current_sec ELSE @]
            /\ Later(t, [meter[t] EXCEPT !.at = "roll"])
       ELSE /\ Later(t, [at |-> "idle", now |-> 0])
            /\ UNCHANGED <<met, moved>>
    /\ UNCHANGED <<log, written, second>>

\* The end of it: last_qps_reset gets the time read before the lock.
EndRoll(t) ==
    /\ meter[t].at = "roll"
    /\ met' = [met EXCEPT !.mutex = "free", !.last_reset = meter[t].now]
    /\ Later(t, [at |-> "idle", now |-> 0])
    /\ UNCHANGED <<log, written, second, moved>>

\* sm_metrics_reset.
ResetMetrics ==
    /\ met.mutex = "free" /\ met.total_requests > 0
    /\ met' = [met EXCEPT !.total_requests = 0, !.current_sec = 0, !.peak_qps = 0, !.last_reset = second]
    /\ moved' = [moved EXCEPT !.requests = 0, !.peak = 0,
                              !.cut = @ \/ \E t \in Meters : meter[t].at = "counted"]
    /\ UNCHANGED <<log, written, meter, second>>

Tick ==
    /\ second < LastSecond /\ second' = second + 1
    /\ UNCHANGED <<log, written, met, meter, moved>>

ObsNext ==
    \/ \E b \in BOOLEAN : WriteLine(b)
    \/ ReopenLog
    \/ \E t \in Meters : Report(t) \/ ReportSecond(t) \/ TryRoll(t) \/ EndRoll(t)
    \/ ResetMetrics \/ Tick

-----------------------------------------------------------------------------
\* The log and its backups, from the oldest on, hold the last lines written,
\* each once and in order: a rotation loses only the oldest file.
LogHasNoGap ==
    LET F[i \in -1 .. Backups - 1] == IF i = -1 THEN log.file ELSE log.old[i] \o F[i - 1]
        all == F[Backups - 1]
    IN  \A i \in DOMAIN all : all[i] = written - Len(all) + i

Unescaped(s) ==
    FoldLeft(LAMBDA o, c : IF o.esc THEN [esc |-> FALSE, out |-> Append(o.out, CASE c = "p" -> "|" [] c = "n" -> "nl" [] c = "bs" -> "bs")]
                           ELSE IF c = "bs" THEN [o EXCEPT !.esc = TRUE]
                           ELSE [o EXCEPT !.out = Append(@, IF c = "?" THEN "ctl" ELSE c)],
             [esc |-> FALSE, out |-> << >>], s)

Inputs == UNION {[1 .. n -> Chars] : n \in 0 .. 3}

\* An escaped field fits its buffer, has no separator, line end or half a
\* pair in it, and says what the field said up to where it was cut.  The
\* JSON field may also lack characters in the middle.
EscapesAreSound ==
    written = 0 /\ moved.reports = 0 /\ second = 0 =>
        \A s \in Inputs, outlen \in 2 .. 6 :
            LET a == escape_audit_field(s, outlen)
                j == json_escape_string(s, outlen)
            IN  /\ Len(a) < outlen /\ ~Unescaped(a).esc /\ IsPrefix(Unescaped(a).out, s)
                /\ {"|", "nl"} \cap (Range(a) \cup Range(j)) = {}
                /\ Len(j) < outlen /\ ~Unescaped(j).esc
                /\ (outlen > 2 * Len(s) => Unescaped(a).out = s)

Counting == Cardinality({t \in Meters : meter[t].at = "counted"})

\* No request is lost or counted twice between the counter of the second
\* and the history, whichever thread moves it; the peak is the largest
\* number moved.  (A reset in the middle of a report separates the two.)
RequestsConserved ==
    /\ ~moved.cut => met.total_requests = moved.requests + met.current_sec + Counting
    /\ met.peak_qps = moved.peak

\* The records of the service manager are correct.
ObsSafe == LogHasNoGap /\ EscapesAreSound /\ RequestsConserved

-----------------------------------------------------------------------------
(***************************************************************************)
(* How the service manager watches itself.  enterprise/sm_monitoring.c     *)
(* keeps the last samples of its memory and descriptors in a ring and      *)
(* raises alerts; enterprise/sm_watchdog.c has a thread write to the       *)
(* watchdog device, which resets the machine when the writes stop.         *)
(***************************************************************************)

CONSTANTS RingLen,      \* MAX_SAMPLES
          LeakSamples,  \* MEMORY_LEAK_MIN_SAMPLES
          Rss, Fds,     \* values a sample may have
          RssLimit, FdLimit,  \* thresholds that may be set; 0 is none
          MaxSamples,   \* bound on the samples
          MaxWrites     \* bound on the writes to the device

ASSUME WatchAssumption == RingLen \in Nat \ {0, 1} /\ LeakSamples \in 2 .. RingLen

VARIABLES mon,          \* g_monitoring
          taken,        \* history: all samples
          dog,          \* g_watchdog, and what its thread does
          device        \* the watchdog device: closed, armed or fired

watchVars == <<mon, taken, dog, device>>

NoSample == [rss |-> 0, fds |-> 0]
NONE == 0
HIGH_MEMORY == 1
HIGH_FD_COUNT == 3
MEMORY_LEAK == 4

WatchInit ==
    /\ mon = [samples |-> [i \in 0 .. RingLen - 1 |-> NoSample], sample_count |-> 0, sample_idx |-> 0,
              last_alert |-> NONE, total_alerts |-> 0, peak_rss |-> 0, peak_fds |-> 0,
              memory_threshold |-> RssLimit, fd_threshold |-> FdLimit]
    /\ taken = << >>
    /\ dog = [fd |-> FALSE, thread_running |-> FALSE, initialized |-> FALSE, thread |-> "none",
              total_keepalives |-> 0, total_failures |-> 0]
    /\ device = "closed"

-----------------------------------------------------------------------------
\* Where sm_monitoring_sample puts the next sample.
NextIdx == IF mon.sample_count < RingLen THEN mon.sample_count ELSE (mon.sample_idx + 1) % RingLen

\* Mutant: the oldest sample is looked for where the newest was put.
OldestIdxNew(count, idx) == IF count < RingLen THEN 0 ELSE idx

OldestIdx(count, idx) == IF count < RingLen THEN 0 ELSE (idx + 1) % RingLen

\* A growth by more than 5 %.
Grown(rss, old) == old > 0 /\ 100 * rss > 105 * old

\* The alerts of a sample, in the order of the checks; set_alert replaces
\* the last one only by a higher one.
Alerts(s, old, enough) ==
    (IF enough /\ Grown(s.rss, old.rss) THEN <<MEMORY_LEAK>> ELSE << >>)
    \o (IF mon.memory_threshold > 0 /\ s.rss > (mon.memory_threshold * 8) \div 10 THEN <<HIGH_MEMORY>> ELSE << >>)
    \o (IF mon.fd_threshold > 0 /\ s.fds > (mon.fd_threshold * 8) \div 10 THEN <<HIGH_FD_COUNT>> ELSE << >>)

set_alert(a, type) ==
    IF a.last # NONE /\ type =< a.last THEN a ELSE [last |-> type, total |-> a.total + 1]

\* sm_monitoring_sample.
Sample(s) ==
    LET i == NextIdx
        count == IF mon.sample_count < RingLen THEN mon.sample_count + 1 ELSE mon.sample_count
        ring == [mon.samples EXCEPT ![i] = s]
        alerts == Alerts(s, ring[OldestIdx(count, i)], count >= LeakSamples)
        A[k \in 0 .. Len(alerts)] == IF k = 0 THEN [last |-> NONE, total |-> mon.total_alerts]
                                     ELSE set_alert(A[k - 1], alerts[k])
    IN  /\ Len(taken) < MaxSamples
        /\ mon' = [mon EXCEPT !.samples = ring, !.sample_count = count, !.sample_idx = i,
                              !.peak_rss = IF s.rss > @ THEN s.rss ELSE @, !.peak_fds = IF s.fds > @ THEN s.fds ELSE @,
                              !.last_alert = A[Len(alerts)].last, !.total_alerts = A[Len(alerts)].total]
        /\ taken' = Append(taken, s)
        /\ UNCHANGED <<dog, device>>

\* sm_monitoring_set_memory_threshold and sm_monitoring_set_fd_threshold.
SetThresholds(rss, fds) ==
    /\ taken = << >>
    /\ mon' = [mon EXCEPT !.memory_threshold = rss, !.fd_threshold = fds]
    /\ UNCHANGED <<taken, dog, device>>

-----------------------------------------------------------------------------
\* sm_watchdog_init: without a device it does nothing.
WatchdogInit(present) ==
    /\ ~dog.initialized /\ dog.total_keepalives = 0
    /\ dog' = [dog EXCEPT !.initialized = TRUE, !.fd = present, !.thread_running = present,
                          !.thread = IF present THEN "runs" ELSE "none"]
    /\ device' = IF present THEN "armed" ELSE device
    /\ UNCHANGED <<mon, taken>>

\* watchdog_thread_main: one keepalive.
Keepalive ==
    /\ dog.thread = "runs" /\ dog.total_keepalives + dog.total_failures < MaxWrites
    /\ dog' = [dog EXCEPT !.total_keepalives = @ + 1, !.thread = IF dog.thread_running THEN "runs" ELSE "ended"]
    /\ UNCHANGED <<mon, taken, device>>

\* A write that fails is counted by sm_watchdog_keepalive and again by the thread.
KeepaliveFails ==
    /\ dog.thread = "runs" /\ dog.total_keepalives + dog.total_failures < MaxWrites
    /\ dog' = [dog EXCEPT !.total_failures = @ + 2, !.thread = IF dog.thread_running THEN "runs" ELSE "ended"]
    /\ UNCHANGED <<mon, taken, device>>

\* sm_watchdog_cleanup, up to pthread_join.
WatchdogStop ==
    /\ dog.initialized /\ dog.thread_running
    /\ dog' = [dog EXCEPT !.thread_running = FALSE]
    /\ UNCHANGED <<mon, taken, device>>

\* Mutant: the thread is not waited for.
WatchdogClosedAtOnce == dog.initialized /\ ~dog.thread_running

\* The thread has ended; the join of a thread that never was fails and is
\* ignored.
WatchdogCanClose == dog.initialized /\ ~dog.thread_running /\ dog.thread # "runs"

\* The magic character and close: the device is disarmed.
WatchdogClose ==
    /\ WatchdogCanClose
    /\ dog' = [dog EXCEPT !.initialized = FALSE, !.fd = FALSE,
                          !.thread = IF @ = "ended" THEN "none" ELSE @]
    /\ device' = "closed"
    /\ UNCHANGED <<mon, taken>>

WatchNext ==
    \/ \E r \in Rss, f \in Fds : Sample([rss |-> r, fds |-> f])
    \/ SetThresholds(0, 0)
    \/ \E present \in BOOLEAN : WatchdogInit(present)
    \/ Keepalive \/ KeepaliveFails \/ WatchdogStop \/ WatchdogClose

-----------------------------------------------------------------------------
Kept == IF Len(taken) < RingLen THEN Len(taken) ELSE RingLen
LastOf(n) == SubSeq(taken, Len(taken) - n + 1, Len(taken))

\* The ring holds the last samples, and the peaks are those of all samples.
RingHoldsLast ==
    /\ mon.sample_count = Kept
    /\ taken # << >> => /\ mon.samples[mon.sample_idx] = taken[Len(taken)]
                        /\ mon.peak_rss = Max({taken[i].rss : i \in DOMAIN taken})
                        /\ mon.peak_fds = Max({taken[i].fds : i \in DOMAIN taken})

\* The alert after a sample is the gravest that holds of it, and a leak is
\* measured against the oldest sample that is still kept, also after the
\* ring has wrapped around.
AlertIsGravest ==
    taken # << >> =>
        LET s == taken[Len(taken)]
            holds == {t \in {NONE, HIGH_MEMORY, HIGH_FD_COUNT, MEMORY_LEAK} :
                         \/ t = NONE
                         \/ t = HIGH_MEMORY /\ mon.memory_threshold > 0 /\ s.rss > (mon.memory_threshold * 8) \div 10
                         \/ t = HIGH_FD_COUNT /\ mon.fd_threshold > 0 /\ s.fds > (mon.fd_threshold * 8) \div 10
                         \/ t = MEMORY_LEAK /\ Kept >= LeakSamples /\ Grown(s.rss, LastOf(Kept)[1].rss)}
        IN  mon.last_alert = Max(holds)

\* The thread never writes to a device that was given back: while it runs,
\* the device is armed.
WriterHasDevice == dog.thread = "runs" => device = "armed" /\ dog.fd

\* The manager's watch on itself is correct.
WatchSafe == RingHoldsLast /\ AlertIsGravest /\ WriterHasDevice
=============================================================================
