--------------------------- MODULE ServiceProcess ---------------------------
(***************************************************************************)
(* The processes of one device service, from main to exit: the PID file    *)
(* (service_base.c), registration with the service manager                 *)
(* (service_ipc.c), the device (<kind>_service_hal.c and the HAL layer)    *)
(* and do_shutdown.                                                        *)
(*                                                                         *)
(* Processes of the same service may be launched at any time, fail in any  *)
(* step and be killed at any moment.  What outlives them is the PID file,  *)
(* the manager's entry, requests the manager has not handled yet, and what *)
(* the kernel remembers of the device: an exported pin, an enabled buffer. *)
(* A pid is not used again.                                                *)
(***************************************************************************)
EXTENDS FiniteSets

CONSTANTS Pids,   \* the processes of this service
          None,
          Kinds   \* which of the four services it may be

ASSUME ProcessAssumption ==
    /\ None \notin Pids
    /\ Kinds \subseteq {"audio", "camera", "gpio", "sensor"}

VARIABLES kind,       \* the service
          at,         \* where each process is
          file,       \* the pid in the PID file
          entry,      \* the owner of the manager's entry
          requests,   \* sent to the manager and not handled yet
          reply,      \* what the manager answered
          registered, \* ipc->registered
          dev,        \* what the process has open
          started,    \* do_shutdown's hal_started
          kernel,     \* the pin is exported, the buffer enabled
          raced,      \* history: two processes were between check and write
          forgot,     \* history: the manager has lost its registry
          alone,      \* history: no other process lived during its life
          turned      \* history: what turned a process away

procVars == <<kind, at, file, entry, requests, reply, registered, dev, started,
              kernel, raced, forgot, alone, turned>>

ProcInit ==
    /\ kind \in Kinds
    /\ at         = [p \in Pids |-> "new"]
    /\ file       = None
    /\ entry      = None
    /\ requests   = {}
    /\ reply      = [p \in Pids |-> "none"]
    /\ registered = [p \in Pids |-> FALSE]
    /\ dev        = [p \in Pids |-> "none"]
    /\ started    = [p \in Pids |-> FALSE]
    /\ kernel     = FALSE
    /\ raced      = FALSE
    /\ forgot     = FALSE
    /\ alone      = [p \in Pids |-> TRUE]
    /\ turned     = [p \in Pids |-> "no"]

Alive(p) == at[p] \notin {"new", "gone"}

GotoStep(p, step) == at' = [at EXCEPT ![p] = step]

Turn(p, by) == turned' = [turned EXCEPT ![p] = by]

\* The kernel closes what an ending process has open.
Exit(p) ==
    /\ GotoStep(p, "gone")
    /\ dev' = [dev EXCEPT ![p] = "none"]

-----------------------------------------------------------------------------
(***************************************************************************)
(* Steps 1 to 6 of main: arguments, configuration, daemonize, PID file,    *)
(* signal handlers.                                                        *)
(***************************************************************************)
Launch(p) ==
    /\ at[p] = "new"
    /\ \E step \in {"check", "gone"} : GotoStep(p, step)
    /\ alone' = [q \in Pids |-> IF q = p THEN \A r \in Pids \ {p} : ~Alive(r)
                                         ELSE alone[q] /\ ~Alive(q)]
    /\ UNCHANGED <<kind, file, entry, requests, reply, registered, dev, started,
                   kernel, raced, forgot, turned>>

\* service_base_write_pid looks into the file.  A process that finds a live
\* one there leaves without do_shutdown.
InWindow == {p \in Pids : at[p] \in {"stale", "write"}}

CheckPidAndShutDown(p) ==  \* mutant: it leaves through do_shutdown
    /\ at[p] = "check"
    /\ raced' = (raced \/ InWindow # {})
    /\ \/ file = None /\ GotoStep(p, "write") /\ UNCHANGED turned
       \/ file # None /\ Alive(file) /\ GotoStep(p, "sd_hal") /\ Turn(p, "file")
       \/ file # None /\ ~Alive(file) /\ GotoStep(p, "stale") /\ UNCHANGED turned
    /\ UNCHANGED <<kind, file, entry, requests, reply, registered, dev, started,
                   kernel, forgot, alone>>

CheckPid(p) ==
    /\ at[p] = "check"
    /\ raced' = (raced \/ InWindow # {})
    /\ \/ file = None /\ GotoStep(p, "write") /\ UNCHANGED turned
       \/ file # None /\ Alive(file) /\ GotoStep(p, "gone") /\ Turn(p, "file")
       \/ file # None /\ ~Alive(file) /\ GotoStep(p, "stale") /\ UNCHANGED turned
    /\ UNCHANGED <<kind, file, entry, requests, reply, registered, dev, started,
                   kernel, forgot, alone>>

UnlinkStale(p) ==
    /\ at[p] = "stale"
    /\ file' = None
    /\ GotoStep(p, "write")
    /\ UNCHANGED <<kind, entry, requests, reply, registered, dev, started,
                   kernel, raced, forgot, alone, turned>>

\* The file is written, or cannot be and the process ends.  An empty file
\* left by a kill in between is treated like a stale one, and a process that
\* looks in between has raced.
WritePid(p) ==
    /\ at[p] = "write"
    /\ \/ file' = p /\ GotoStep(p, "signals")
       \/ UNCHANGED file /\ GotoStep(p, "gone")
    /\ UNCHANGED <<kind, entry, requests, reply, registered, dev, started,
                   kernel, raced, forgot, alone, turned>>

InstallSignals(p) ==
    /\ at[p] = "signals"
    /\ \E step \in {"register", "sd_hal"} : GotoStep(p, step)
    /\ UNCHANGED <<kind, file, entry, requests, reply, registered, dev, started,
                   kernel, raced, forgot, alone, turned>>

-----------------------------------------------------------------------------
(***************************************************************************)
(* Steps 7 and 8: registration and the security module.                    *)
(***************************************************************************)
\* service_ipc_register sends its request, or cannot.
SendRegister(p) ==
    /\ at[p] = "register"
    /\ \/ requests' = requests \cup {<<"register", p>>} /\ GotoStep(p, "reg_wait")
       \/ UNCHANGED requests /\ GotoStep(p, "sd_hal")
    /\ UNCHANGED <<kind, file, entry, reply, registered, dev, started,
                   kernel, raced, forgot, alone, turned>>

\* The reply arrives ...
GetReply(p) ==
    /\ at[p] = "reg_wait"
    /\ reply[p] # "none"
    /\ IF reply[p] = "ok"
         THEN /\ registered' = [registered EXCEPT ![p] = TRUE]
              /\ GotoStep(p, "security")
              /\ UNCHANGED turned
         ELSE GotoStep(p, "sd_hal") /\ Turn(p, "manager") /\ UNCHANGED registered
    /\ UNCHANGED <<kind, file, entry, requests, reply, dev, started,
                   kernel, raced, forgot, alone>>

\* ... or it is refused for another reason, lost, or late.
GiveUpReply(p) ==
    /\ at[p] = "reg_wait"
    /\ GotoStep(p, "sd_hal")
    /\ UNCHANGED <<kind, file, entry, requests, reply, registered, dev, started,
                   kernel, raced, forgot, alone, turned>>

ApplySecurity(p) ==
    /\ at[p] = "security"
    /\ \E step \in {"open", "sd_hal"} : GotoStep(p, step)
    /\ UNCHANGED <<kind, file, entry, requests, reply, registered, dev, started,
                   kernel, raced, forgot, alone, turned>>

-----------------------------------------------------------------------------
(***************************************************************************)
(* Step 9: the device.  "value" stands for a descriptor that needs what    *)
(* the kernel remembers, "plain" for one that does not.                    *)
(***************************************************************************)
Opened(p, as) ==
    /\ dev' = [dev EXCEPT ![p] = as]
    /\ GotoStep(p, "start")
    /\ UNCHANGED turned

OpenFailed(p) == GotoStep(p, "sd_hal") /\ UNCHANGED dev

AudioOpen(p) ==
    /\ \/ Opened(p, "plain")
       \/ OpenFailed(p) /\ UNCHANGED turned
    /\ UNCHANGED kernel

CameraOpen(p) ==
    /\ \/ Opened(p, "plain")
       \/ OpenFailed(p) /\ UNCHANGED turned
    /\ UNCHANGED kernel

\* Exporting a pin that is exported fails.
GpioOpenStrict(p) ==  \* mutant: the directory is not looked for
    \/ /\ ~kernel /\ kernel' = TRUE
       /\ Opened(p, "value")
    \/ /\ OpenFailed(p)
       /\ UNCHANGED kernel
       /\ IF kernel THEN Turn(p, "device") ELSE UNCHANGED turned

GpioOpen(p) ==
    \/ /\ kernel' = TRUE
       /\ Opened(p, "value")
    \/ /\ OpenFailed(p)              \* no device, or no such pin
       /\ UNCHANGED <<kernel, turned>>
    \/ /\ OpenFailed(p)              \* no value file: the cleanup unexports
       /\ kernel' = FALSE
       /\ UNCHANGED turned

\* The buffer is enabled and its node opened, or disabled again, or left
\* alone; without it values are read from sysfs.
SensorOpen(p) ==
    \/ kernel' = TRUE  /\ Opened(p, "value")
    \/ kernel' = FALSE /\ Opened(p, "plain")
    \/ UNCHANGED kernel /\ Opened(p, "plain")
    \/ UNCHANGED <<kernel, turned>> /\ OpenFailed(p)

OpenDevice(p) ==
    /\ at[p] = "open"
    /\ \/ kind = "audio"  /\ AudioOpen(p)
       \/ kind = "camera" /\ CameraOpen(p)
       \/ kind = "gpio"   /\ GpioOpen(p)
       \/ kind = "sensor" /\ SensorOpen(p)
    /\ UNCHANGED <<kind, file, entry, requests, reply, registered, started,
                   raced, forgot, alone>>

\* skip_hal_init in the configuration.
SkipDevice(p) ==
    /\ at[p] = "open"
    /\ GotoStep(p, "loop")
    /\ UNCHANGED <<kind, file, entry, requests, reply, registered, dev, started,
                   kernel, raced, forgot, alone, turned>>

\* Only the camera's start can fail once the device is open.
StartDevice(p) ==
    /\ at[p] = "start"
    /\ \/ GotoStep(p, "loop")
       \/ kind = "camera" /\ GotoStep(p, "sd_hal")
    /\ UNCHANGED <<kind, file, entry, requests, reply, registered, dev, started,
                   kernel, raced, forgot, alone, turned>>

\* Step 10: the event loop returns.
LoopReturns(p) ==
    /\ at[p] = "loop"
    /\ started' = [started EXCEPT ![p] = TRUE]
    /\ GotoStep(p, "sd_hal")
    /\ UNCHANGED <<kind, file, entry, requests, reply, registered, dev,
                   kernel, raced, forgot, alone, turned>>

-----------------------------------------------------------------------------
(***************************************************************************)
(* do_shutdown.                                                            *)
(***************************************************************************)
\* Stop and close, of a device that was started.  Closing unexports the pin
\* and disables the buffer.
Closed(p) ==
    /\ dev' = [dev EXCEPT ![p] = "none"]
    /\ kernel' = IF kind \in {"gpio", "sensor"} THEN FALSE ELSE kernel

ShutDownOpen(p) ==  \* mutant: nothing is closed
    /\ at[p] = "sd_hal"
    /\ UNCHANGED <<dev, kernel>>
    /\ GotoStep(p, "sd_unreg")
    /\ UNCHANGED <<kind, file, entry, requests, reply, registered, started,
                   raced, forgot, alone, turned>>

ShutDownDevice(p) ==
    /\ at[p] = "sd_hal"
    /\ IF dev[p] # "none" /\ started[p] THEN Closed(p) ELSE UNCHANGED <<dev, kernel>>
    /\ GotoStep(p, "sd_unreg")
    /\ UNCHANGED <<kind, file, entry, requests, reply, registered, started,
                   raced, forgot, alone, turned>>

\* service_ipc_unregister, of a registered process: sent and waited for, or
\* not sent.
SendUnregister(p) ==
    /\ at[p] = "sd_unreg"
    /\ \/ /\ registered[p]
          /\ requests' = requests \cup {<<"unregister", p>>}
          /\ GotoStep(p, "sd_wait")
       \/ UNCHANGED requests /\ GotoStep(p, "sd_pid")
    /\ UNCHANGED <<kind, file, entry, reply, registered, dev, started,
                   kernel, raced, forgot, alone, turned>>

\* Whatever the reply, or none in time.
Unregistered(p) ==
    /\ at[p] = "sd_wait"
    /\ registered' = [registered EXCEPT ![p] = FALSE]
    /\ GotoStep(p, "sd_pid")
    /\ UNCHANGED <<kind, file, entry, requests, reply, dev, started,
                   kernel, raced, forgot, alone, turned>>

\* service_base_remove_pid and the exit.
RemovePid(p) ==
    /\ at[p] = "sd_pid"
    /\ file' = None
    /\ Exit(p)
    /\ UNCHANGED <<kind, entry, requests, reply, registered, started,
                   kernel, raced, forgot, alone, turned>>

\* A crash, or the manager's SIGKILL.
Kill(p) ==
    /\ Alive(p)
    /\ Exit(p)
    /\ UNCHANGED <<kind, file, entry, requests, reply, registered, started,
                   kernel, raced, forgot, alone, turned>>

-----------------------------------------------------------------------------
(***************************************************************************)
(* The manager.                                                            *)
(***************************************************************************)
Handled(type, p) ==
    /\ <<type, p>> \in requests
    /\ requests' = requests \ {<<type, p>>}

\* sm_registry_add refuses while the owner of the entry lives.
HandleRegisterAnyway(p) ==  \* mutant: an entry is replaced unseen
    /\ Handled("register", p)
    /\ entry' = p /\ reply' = [reply EXCEPT ![p] = "ok"]
    /\ UNCHANGED <<kind, at, file, registered, dev, started, kernel, raced, forgot, alone, turned>>

HandleRegister(p) ==
    /\ Handled("register", p)
    /\ IF entry # None /\ Alive(entry)
         THEN UNCHANGED entry /\ reply' = [reply EXCEPT ![p] = "exists"]
         ELSE entry' = p /\ reply' = [reply EXCEPT ![p] = "ok"]
    /\ UNCHANGED <<kind, at, file, registered, dev, started, kernel, raced, forgot, alone, turned>>

HandleUnregisterOfAny(p) ==  \* mutant: the owner is not compared
    /\ Handled("unregister", p)
    /\ entry' = None
    /\ UNCHANGED <<kind, at, file, reply, registered, dev, started, kernel, raced, forgot, alone, turned>>

\* sm_registry_remove_if_owner.
HandleUnregister(p) ==
    /\ Handled("unregister", p)
    /\ entry' = IF entry = p THEN None ELSE entry
    /\ UNCHANGED <<kind, at, file, reply, registered, dev, started, kernel, raced, forgot, alone, turned>>

\* The manager crashes and starts again without its registry.
Forget ==
    /\ entry' = None /\ requests' = {} /\ forgot' = TRUE
    /\ UNCHANGED <<kind, at, file, reply, registered, dev, started, kernel, raced, alone, turned>>

-----------------------------------------------------------------------------
ProcNext ==
    \/ \E p \in Pids :
          \/ Launch(p) \/ CheckPid(p) \/ UnlinkStale(p) \/ WritePid(p) \/ InstallSignals(p)
          \/ SendRegister(p) \/ GetReply(p) \/ GiveUpReply(p) \/ ApplySecurity(p)
          \/ OpenDevice(p) \/ SkipDevice(p) \/ StartDevice(p) \/ LoopReturns(p)
          \/ ShutDownDevice(p) \/ SendUnregister(p) \/ Unregistered(p) \/ RemovePid(p)
          \/ Kill(p) \/ HandleRegister(p) \/ HandleUnregister(p)
    \/ Forget

ProcSpec == ProcInit /\ [][ProcNext]_procVars

-----------------------------------------------------------------------------
ShuttingDown == {"sd_hal", "sd_unreg", "sd_wait", "sd_pid"}
ProcSteps == {"new", "check", "stale", "write", "signals", "register", "reg_wait",
              "security", "open", "start", "loop", "gone"} \cup ShuttingDown

\* Every variable has its type, and past the first step of do_shutdown only
\* a device that was never started is still open.
ProcTypeOK ==
    /\ kind \in Kinds
    /\ at \in [Pids -> ProcSteps]
    /\ file \in Pids \cup {None} /\ entry \in Pids \cup {None}
    /\ requests \subseteq {"register", "unregister"} \X Pids
    /\ reply \in [Pids -> {"none", "ok", "exists"}]
    /\ registered \in [Pids -> BOOLEAN] /\ started \in [Pids -> BOOLEAN]
    /\ dev \in [Pids -> {"none", "plain", "value"}]
    /\ \A p \in Pids : dev[p] # "none" =>
         \/ at[p] \in {"start", "loop", "sd_hal"}
         \/ at[p] \in ShuttingDown /\ ~started[p]
    /\ kernel \in BOOLEAN /\ raced \in BOOLEAN /\ forgot \in BOOLEAN
    /\ alone \in [Pids -> BOOLEAN]
    /\ turned \in [Pids -> {"no", "file", "manager", "device"}]

\* A process uses the device until do_shutdown has dealt with it.
Uses(p) == dev[p] # "none" /\ at[p] \in {"start", "loop", "sd_hal"}

\* At most one process uses the device, whatever became of the PID file, as
\* long as the manager remembers who is registered: registration comes
\* before the HAL is initialised and ends after the device is closed.
OneUser == ~forgot => \A p, q \in Pids : Uses(p) /\ Uses(q) => p = q

\* No other process, ending late or starting early, takes the exported pin
\* or the enabled buffer away from the one that reads it.
KernelKeeps == ~forgot => \A p \in Pids : Uses(p) /\ dev[p] = "value" => kernel

\* While no two processes are between looking into the PID file and writing
\* it, a process that has written the file finds its own pid there until it
\* removes it; a refused duplicate leaves it alone.
PidFileGuards ==
    ~raced => \A p \in Pids :
        at[p] \in {"signals", "register", "reg_wait", "security", "open", "start", "loop"}
                  \cup ShuttingDown => file = p

\* A process that has the machine to itself is turned away neither by the
\* PID file nor by the manager's entry nor by the device, whatever the
\* processes before it left behind when they were killed.
AloneIsAdmitted == \A p \in Pids : alone[p] => turned[p] = "no"
=============================================================================
