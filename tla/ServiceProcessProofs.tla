------------------------ MODULE ServiceProcessProofs ------------------------
(***************************************************************************)
(* The properties of ServiceProcess for any number of processes, and of    *)
(* ServiceConfig for configuration files of any length, any numbers and    *)
(* any size of the table.                                                  *)
(***************************************************************************)
EXTENDS ServiceProcess, ServiceConfig, SequenceTheorems, FiniteSetTheorems, TLAPS

\* Before a process has asked the manager for anything.
Early == {"new", "check", "stale", "write", "signals", "register"}

Section == {"signals", "register", "reg_wait", "security", "open", "start", "loop"}
           \cup ShuttingDown

\* A process that may rely on owning the manager's entry: it has been told
\* so, and has not yet let go of the device.
Claims(p) ==
    \/ at[p] \in {"security", "open", "start", "loop"}
    \/ at[p] = "sd_hal" /\ dev[p] # "none"
    \/ at[p] = "reg_wait" /\ reply[p] = "ok"

\* What requests and replies under way say about their process.
MessageInv ==
    \A p \in Pids :
        /\ <<"register", p>> \in requests =>
             reply[p] = "none" /\ entry # p /\ at[p] \notin Early
        /\ <<"unregister", p>> \in requests => at[p] \in {"sd_wait", "sd_pid", "gone"}
        /\ at[p] \in Early => reply[p] = "none" /\ entry # p

OwnerInv == ~forgot => \A p \in Pids : Claims(p) => entry = p

LEMMA TypeStep == ProcTypeOK /\ [ProcNext]_procVars => ProcTypeOK'
  <1> SUFFICES ASSUME ProcTypeOK, [ProcNext]_procVars
               PROVE  ProcTypeOK'
    OBVIOUS
  <1> USE DEF ProcTypeOK, ProcSteps, ShuttingDown, GotoStep, Turn, Exit
  <1>1. ASSUME NEW p \in Pids, Launch(p) PROVE ProcTypeOK'
    <2>1. alone' \in [Pids -> BOOLEAN]
      BY <1>1, Zenon DEF Launch
    <2>2. /\ at[p] = "new" /\ \E step \in {"check", "gone"} : at' = [at EXCEPT ![p] = step]
          /\ UNCHANGED <<kind, file, entry, requests, reply, registered, dev, started,
                         kernel, raced, forgot, turned>>
      BY <1>1 DEF Launch
    <2> QED
      BY <2>1, <2>2
  <1>2. ASSUME NEW p \in Pids, CheckPid(p) PROVE ProcTypeOK'
    BY <1>2 DEF CheckPid
  <1>3. ASSUME NEW p \in Pids, UnlinkStale(p) PROVE ProcTypeOK'
    BY <1>3 DEF UnlinkStale
  <1>4. ASSUME NEW p \in Pids, WritePid(p) PROVE ProcTypeOK'
    BY <1>4 DEF WritePid
  <1>5. ASSUME NEW p \in Pids, InstallSignals(p) PROVE ProcTypeOK'
    BY <1>5 DEF InstallSignals
  <1>6. ASSUME NEW p \in Pids, SendRegister(p) PROVE ProcTypeOK'
    BY <1>6 DEF SendRegister
  <1>7. ASSUME NEW p \in Pids, GetReply(p) PROVE ProcTypeOK'
    BY <1>7 DEF GetReply
  <1>8. ASSUME NEW p \in Pids, GiveUpReply(p) PROVE ProcTypeOK'
    BY <1>8 DEF GiveUpReply
  <1>9. ASSUME NEW p \in Pids, ApplySecurity(p) PROVE ProcTypeOK'
    BY <1>9 DEF ApplySecurity
  <1>10. ASSUME NEW p \in Pids, OpenDevice(p) PROVE ProcTypeOK'
    BY <1>10, ZenonT(60) DEF OpenDevice, AudioOpen, CameraOpen, GpioOpen, SensorOpen, Opened, OpenFailed
  <1>11. ASSUME NEW p \in Pids, SkipDevice(p) PROVE ProcTypeOK'
    BY <1>11 DEF SkipDevice
  <1>12. ASSUME NEW p \in Pids, StartDevice(p) PROVE ProcTypeOK'
    BY <1>12 DEF StartDevice
  <1>13. ASSUME NEW p \in Pids, LoopReturns(p) PROVE ProcTypeOK'
    BY <1>13 DEF LoopReturns
  <1>14. ASSUME NEW p \in Pids, ShutDownDevice(p) PROVE ProcTypeOK'
    BY <1>14 DEF ShutDownDevice, Closed
  <1>15. ASSUME NEW p \in Pids, SendUnregister(p) PROVE ProcTypeOK'
    BY <1>15 DEF SendUnregister
  <1>16. ASSUME NEW p \in Pids, Unregistered(p) PROVE ProcTypeOK'
    BY <1>16 DEF Unregistered
  <1>17. ASSUME NEW p \in Pids, RemovePid(p) PROVE ProcTypeOK'
    BY <1>17 DEF RemovePid
  <1>18. ASSUME NEW p \in Pids, Kill(p) PROVE ProcTypeOK'
    BY <1>18 DEF Kill
  <1>19. ASSUME NEW p \in Pids, HandleRegister(p) PROVE ProcTypeOK'
    BY <1>19 DEF HandleRegister, Handled
  <1>20. ASSUME NEW p \in Pids, HandleUnregister(p) PROVE ProcTypeOK'
    BY <1>20 DEF HandleUnregister, Handled
  <1>21. CASE Forget
    BY <1>21 DEF Forget
  <1>22. CASE UNCHANGED procVars
    BY <1>22 DEF procVars
  <1> QED
    BY <1>1, <1>2, <1>3, <1>4, <1>5, <1>6, <1>7, <1>8, <1>9, <1>10, <1>11, <1>12, <1>13,
       <1>14, <1>15, <1>16, <1>17, <1>18, <1>19, <1>20, <1>21, <1>22 DEF ProcNext

\* All that the next lemmas need of TypeOK.
Shape ==
    /\ at \in [Pids -> ProcSteps]
    /\ reply \in [Pids -> {"none", "ok", "exists"}]
    /\ dev \in [Pids -> {"none", "plain", "value"}]
    /\ turned \in [Pids -> {"no", "file", "manager", "device"}]
    /\ \A p \in Pids : dev[p] # "none" => at[p] \in {"start", "loop"} \cup ShuttingDown

LEMMA TypeShape == ProcTypeOK => Shape
  BY DEF ProcTypeOK, Shape, ShuttingDown

\* Requests and replies stay consistent with their process.
LEMMA MessageStep == Shape /\ MessageInv /\ [ProcNext]_procVars => MessageInv'
  <1> SUFFICES ASSUME Shape, MessageInv, [ProcNext]_procVars
               PROVE  MessageInv'
    OBVIOUS
  <1> USE ProcessAssumption DEF Shape, GotoStep, Turn, Exit, MessageInv, Early
  <1>1. ASSUME NEW p \in Pids, Launch(p) PROVE MessageInv'
    BY <1>1 DEF Launch
  <1>2. ASSUME NEW p \in Pids, CheckPid(p) PROVE MessageInv'
    BY <1>2 DEF CheckPid
  <1>3. ASSUME NEW p \in Pids, UnlinkStale(p) PROVE MessageInv'
    BY <1>3 DEF UnlinkStale
  <1>4. ASSUME NEW p \in Pids, WritePid(p) PROVE MessageInv'
    BY <1>4 DEF WritePid
  <1>5. ASSUME NEW p \in Pids, InstallSignals(p) PROVE MessageInv'
    BY <1>5 DEF InstallSignals
  <1>6. ASSUME NEW p \in Pids, SendRegister(p) PROVE MessageInv'
    <2>1. ASSUME NEW q \in Pids, NEW type \in {"register", "unregister"},
                 <<type, q>> \in requests', <<type, q>> \notin requests
          PROVE  q = p /\ type = "register" /\ at' = [at EXCEPT ![p] = "reg_wait"]
      BY <1>6, <2>1 DEF SendRegister
    <2>2. /\ at[p] = "register" /\ UNCHANGED <<entry, reply>>
          /\ \E step \in {"reg_wait", "sd_hal"} : at' = [at EXCEPT ![p] = step]
      BY <1>6 DEF SendRegister
    <2>3. reply[p] = "none" /\ entry # p /\ <<"unregister", p>> \notin requests
      BY <2>2
    <2> QED
      BY <2>1, <2>2, <2>3
  <1>7. ASSUME NEW p \in Pids, GetReply(p) PROVE MessageInv'
    BY <1>7, ZenonT(60) DEF GetReply
  <1>8. ASSUME NEW p \in Pids, GiveUpReply(p) PROVE MessageInv'
    BY <1>8 DEF GiveUpReply
  <1>9. ASSUME NEW p \in Pids, ApplySecurity(p) PROVE MessageInv'
    BY <1>9 DEF ApplySecurity
  <1>10. ASSUME NEW p \in Pids, OpenDevice(p) PROVE MessageInv'
    BY <1>10, ZenonT(60) DEF OpenDevice, AudioOpen, CameraOpen, GpioOpen, SensorOpen, Opened, OpenFailed
  <1>11. ASSUME NEW p \in Pids, SkipDevice(p) PROVE MessageInv'
    BY <1>11 DEF SkipDevice
  <1>12. ASSUME NEW p \in Pids, StartDevice(p) PROVE MessageInv'
    BY <1>12, ZenonT(60) DEF StartDevice
  <1>13. ASSUME NEW p \in Pids, LoopReturns(p) PROVE MessageInv'
    BY <1>13 DEF LoopReturns
  <1>14. ASSUME NEW p \in Pids, ShutDownDevice(p) PROVE MessageInv'
    BY <1>14 DEF ShutDownDevice, Closed
  <1>15. ASSUME NEW p \in Pids, SendUnregister(p) PROVE MessageInv'
    <2>1. ASSUME NEW q \in Pids, NEW type \in {"register", "unregister"},
                 <<type, q>> \in requests', <<type, q>> \notin requests
          PROVE  q = p /\ type = "unregister" /\ at' = [at EXCEPT ![p] = "sd_wait"]
      BY <1>15, <2>1 DEF SendUnregister
    <2>2. /\ at[p] = "sd_unreg" /\ UNCHANGED <<entry, reply>>
          /\ \E step \in {"sd_wait", "sd_pid"} : at' = [at EXCEPT ![p] = step]
      BY <1>15 DEF SendUnregister
    <2>3. <<"unregister", p>> \notin requests
      BY <2>2
    <2> QED
      BY <2>1, <2>2, <2>3, ZenonT(60)
  <1>16. ASSUME NEW p \in Pids, Unregistered(p) PROVE MessageInv'
    BY <1>16 DEF Unregistered
  <1>17. ASSUME NEW p \in Pids, RemovePid(p) PROVE MessageInv'
    BY <1>17 DEF RemovePid
  <1>18. ASSUME NEW p \in Pids, Kill(p) PROVE MessageInv'
    BY <1>18 DEF Kill
  <1>19. ASSUME NEW p \in Pids, HandleRegister(p) PROVE MessageInv'
    BY <1>19, ZenonT(60) DEF HandleRegister, Handled
  <1>20. ASSUME NEW p \in Pids, HandleUnregister(p) PROVE MessageInv'
    BY <1>20 DEF HandleUnregister, Handled
  <1>21. CASE Forget
    BY <1>21 DEF Forget
  <1>22. CASE UNCHANGED procVars
    BY <1>22 DEF procVars
  <1> QED
    BY <1>1, <1>2, <1>3, <1>4, <1>5, <1>6, <1>7, <1>8, <1>9, <1>10, <1>11, <1>12, <1>13,
       <1>14, <1>15, <1>16, <1>17, <1>18, <1>19, <1>20, <1>21, <1>22 DEF ProcNext

\* A process keeps the entry from the reply until its device is closed: the
\* manager gives it to nobody else while it lives, and only its own
\* unregister, sent later, takes it away.
LEMMA OwnerStep == Shape /\ MessageInv /\ OwnerInv /\ [ProcNext]_procVars => OwnerInv'
  <1> SUFFICES ASSUME Shape, MessageInv, OwnerInv, [ProcNext]_procVars
               PROVE  OwnerInv'
    OBVIOUS
  <1> USE DEF Shape, GotoStep, Turn, Exit, MessageInv, OwnerInv, Claims, Early, Alive
  <1>1. ASSUME NEW p \in Pids, Launch(p) PROVE OwnerInv'
    BY <1>1 DEF Launch
  <1>2. ASSUME NEW p \in Pids, CheckPid(p) PROVE OwnerInv'
    BY <1>2 DEF CheckPid
  <1>3. ASSUME NEW p \in Pids, UnlinkStale(p) PROVE OwnerInv'
    BY <1>3 DEF UnlinkStale
  <1>4. ASSUME NEW p \in Pids, WritePid(p) PROVE OwnerInv'
    BY <1>4 DEF WritePid
  <1>5. ASSUME NEW p \in Pids, InstallSignals(p) PROVE OwnerInv'
    BY <1>5 DEF InstallSignals, ShuttingDown
  <1>6. ASSUME NEW p \in Pids, SendRegister(p) PROVE OwnerInv'
    <2>1. /\ at[p] = "register" /\ UNCHANGED <<entry, reply, dev, forgot>>
          /\ \E step \in {"reg_wait", "sd_hal"} : at' = [at EXCEPT ![p] = step]
      BY <1>6 DEF SendRegister
    <2>2. reply[p] = "none" /\ dev[p] = "none"
      BY <2>1 DEF ShuttingDown
    <2> QED
      BY <2>1, <2>2
  <1>7. ASSUME NEW p \in Pids, GetReply(p) PROVE OwnerInv'
    BY <1>7 DEF GetReply, ShuttingDown
  <1>8. ASSUME NEW p \in Pids, GiveUpReply(p) PROVE OwnerInv'
    BY <1>8 DEF GiveUpReply, ShuttingDown
  <1>9. ASSUME NEW p \in Pids, ApplySecurity(p) PROVE OwnerInv'
    BY <1>9 DEF ApplySecurity
  <1>10. ASSUME NEW p \in Pids, OpenDevice(p) PROVE OwnerInv'
    BY <1>10 DEF OpenDevice, AudioOpen, CameraOpen, GpioOpen, SensorOpen, Opened, OpenFailed
  <1>11. ASSUME NEW p \in Pids, SkipDevice(p) PROVE OwnerInv'
    BY <1>11 DEF SkipDevice
  <1>12. ASSUME NEW p \in Pids, StartDevice(p) PROVE OwnerInv'
    BY <1>12 DEF StartDevice
  <1>13. ASSUME NEW p \in Pids, LoopReturns(p) PROVE OwnerInv'
    BY <1>13 DEF LoopReturns
  <1>14. ASSUME NEW p \in Pids, ShutDownDevice(p) PROVE OwnerInv'
    BY <1>14, ZenonT(60) DEF ShutDownDevice, Closed
  <1>15. ASSUME NEW p \in Pids, SendUnregister(p) PROVE OwnerInv'
    BY <1>15 DEF SendUnregister
  <1>16. ASSUME NEW p \in Pids, Unregistered(p) PROVE OwnerInv'
    BY <1>16 DEF Unregistered
  <1>17. ASSUME NEW p \in Pids, RemovePid(p) PROVE OwnerInv'
    BY <1>17 DEF RemovePid
  <1>18. ASSUME NEW p \in Pids, Kill(p) PROVE OwnerInv'
    BY <1>18 DEF Kill
  <1>19. ASSUME NEW p \in Pids, HandleRegister(p) PROVE OwnerInv'
    <2>1. /\ <<"register", p>> \in requests
          /\ UNCHANGED <<at, dev, forgot>>
      BY <1>19 DEF HandleRegister, Handled
    <2>2. reply[p] = "none" /\ entry # p
      BY <2>1
    <2>3. CASE entry # None /\ Alive(entry)
      BY <1>19, <2>1, <2>2, <2>3 DEF HandleRegister
    <2>4. CASE ~(entry # None /\ Alive(entry))
      <3>1. ASSUME NEW q \in Pids, ~forgot PROVE ~Claims(q)
        BY <2>4, <3>1, ProcessAssumption
      <3>2. entry' = p /\ reply' = [reply EXCEPT ![p] = "ok"]
        BY <1>19, <2>4 DEF HandleRegister
      <3> QED
        BY <2>1, <3>1, <3>2
    <2> QED
      BY <2>3, <2>4
  <1>20. ASSUME NEW p \in Pids, HandleUnregister(p) PROVE OwnerInv'
    BY <1>20 DEF HandleUnregister, Handled
  <1>21. CASE Forget
    BY <1>21 DEF Forget
  <1>22. CASE UNCHANGED procVars
    BY <1>22 DEF procVars
  <1> QED
    BY <1>1, <1>2, <1>3, <1>4, <1>5, <1>6, <1>7, <1>8, <1>9, <1>10, <1>11, <1>12, <1>13,
       <1>14, <1>15, <1>16, <1>17, <1>18, <1>19, <1>20, <1>21, <1>22 DEF ProcNext

\* An owner alone opens and closes the device, so what its descriptor needs
\* of the kernel stays.
KernelInv == ~forgot => \A p \in Pids : Uses(p) /\ dev[p] = "value" => kernel = TRUE

LEMMA KernelStep == Shape /\ OwnerInv /\ KernelInv /\ [ProcNext]_procVars => KernelInv'
  <1> SUFFICES ASSUME Shape, OwnerInv, KernelInv, [ProcNext]_procVars
               PROVE  KernelInv'
    OBVIOUS
  <1> USE DEF Shape, ShuttingDown, GotoStep, Turn, Exit, KernelInv, Uses
  <1>1. ASSUME NEW p \in Pids, Launch(p) PROVE KernelInv'
    BY <1>1 DEF Launch
  <1>2. ASSUME NEW p \in Pids, CheckPid(p) PROVE KernelInv'
    BY <1>2 DEF CheckPid
  <1>3. ASSUME NEW p \in Pids, UnlinkStale(p) PROVE KernelInv'
    BY <1>3 DEF UnlinkStale
  <1>4. ASSUME NEW p \in Pids, WritePid(p) PROVE KernelInv'
    BY <1>4 DEF WritePid
  <1>5. ASSUME NEW p \in Pids, InstallSignals(p) PROVE KernelInv'
    BY <1>5 DEF InstallSignals
  <1>6. ASSUME NEW p \in Pids, SendRegister(p) PROVE KernelInv'
    BY <1>6 DEF SendRegister
  <1>7. ASSUME NEW p \in Pids, GetReply(p) PROVE KernelInv'
    BY <1>7 DEF GetReply
  <1>8. ASSUME NEW p \in Pids, GiveUpReply(p) PROVE KernelInv'
    BY <1>8 DEF GiveUpReply
  <1>9. ASSUME NEW p \in Pids, ApplySecurity(p) PROVE KernelInv'
    BY <1>9 DEF ApplySecurity
  <1>10. ASSUME NEW p \in Pids, OpenDevice(p) PROVE KernelInv'
    <2>1. /\ at[p] = "open" /\ UNCHANGED forgot
          /\ \E step \in {"start", "sd_hal"} : at' = [at EXCEPT ![p] = step]
          /\ \E as \in {"none", "plain", "value"} : dev' = [dev EXCEPT ![p] = as]
          /\ dev'[p] = "value" => kernel' = TRUE
      BY <1>10 DEF OpenDevice, AudioOpen, CameraOpen, GpioOpen, SensorOpen, Opened, OpenFailed
    <2>2. ASSUME NEW q \in Pids, ~forgot, Uses(q) PROVE FALSE
      BY <2>1, <2>2 DEF OwnerInv, Claims
    <2> QED
      BY <2>1, <2>2
  <1>11. ASSUME NEW p \in Pids, SkipDevice(p) PROVE KernelInv'
    BY <1>11 DEF SkipDevice
  <1>12. ASSUME NEW p \in Pids, StartDevice(p) PROVE KernelInv'
    BY <1>12 DEF StartDevice
  <1>13. ASSUME NEW p \in Pids, LoopReturns(p) PROVE KernelInv'
    BY <1>13 DEF LoopReturns
  <1>14. ASSUME NEW p \in Pids, ShutDownDevice(p) PROVE KernelInv'
    <2>1. CASE dev[p] # "none" /\ started[p]
      <3>1. /\ at[p] = "sd_hal" /\ UNCHANGED forgot
            /\ at' = [at EXCEPT ![p] = "sd_unreg"]
            /\ dev' = [dev EXCEPT ![p] = "none"]
        BY <1>14, <2>1 DEF ShutDownDevice, Closed
      <3>2. ASSUME NEW q \in Pids, ~forgot, Uses(q) PROVE q = p
        BY <2>1, <3>1, <3>2 DEF OwnerInv, Claims
      <3> QED
        BY <3>1, <3>2
    <2>2. CASE ~(dev[p] # "none" /\ started[p])
      BY <1>14, <2>2 DEF ShutDownDevice
    <2> QED
      BY <2>1, <2>2
  <1>15. ASSUME NEW p \in Pids, SendUnregister(p) PROVE KernelInv'
    BY <1>15 DEF SendUnregister
  <1>16. ASSUME NEW p \in Pids, Unregistered(p) PROVE KernelInv'
    BY <1>16 DEF Unregistered
  <1>17. ASSUME NEW p \in Pids, RemovePid(p) PROVE KernelInv'
    BY <1>17 DEF RemovePid
  <1>18. ASSUME NEW p \in Pids, Kill(p) PROVE KernelInv'
    BY <1>18 DEF Kill
  <1>19. ASSUME NEW p \in Pids, HandleRegister(p) PROVE KernelInv'
    BY <1>19 DEF HandleRegister, Handled
  <1>20. ASSUME NEW p \in Pids, HandleUnregister(p) PROVE KernelInv'
    BY <1>20 DEF HandleUnregister, Handled
  <1>21. CASE Forget
    BY <1>21 DEF Forget
  <1>22. CASE UNCHANGED procVars
    BY <1>22 DEF procVars
  <1> QED
    BY <1>1, <1>2, <1>3, <1>4, <1>5, <1>6, <1>7, <1>8, <1>9, <1>10, <1>11, <1>12, <1>13,
       <1>14, <1>15, <1>16, <1>17, <1>18, <1>19, <1>20, <1>21, <1>22 DEF ProcNext

\* One process at a time is between looking into the PID file and writing
\* it, and nobody holds the file meanwhile.
PidInv ==
    ~raced =>
      /\ \A p \in Pids : at[p] \in Section => file = p
      /\ \A p, q \in Pids : at[p] \in {"stale", "write"} =>
           /\ at[q] \in {"stale", "write"} => p = q
           /\ at[q] \notin Section

LEMMA PidStep == Shape /\ PidInv /\ [ProcNext]_procVars => PidInv'
  <1> SUFFICES ASSUME Shape, PidInv, [ProcNext]_procVars
               PROVE  PidInv'
    OBVIOUS
  <1> USE DEF Shape, ShuttingDown, Section, GotoStep, Turn, Exit, PidInv
  <1>1. ASSUME NEW p \in Pids, Launch(p) PROVE PidInv'
    BY <1>1 DEF Launch
  <1>2. ASSUME NEW p \in Pids, CheckPid(p) PROVE PidInv'
    <2>1. SUFFICES ASSUME ~raced' PROVE PidInv'
      OBVIOUS
    <2>2. ~raced /\ InWindow = {}
      BY <1>2, <2>1, Zenon DEF CheckPid
    <2>3. \A q \in Pids : at[q] \notin {"stale", "write"}
      BY <2>2 DEF InWindow
    <2>4. \/ UNCHANGED file /\ at' = [at EXCEPT ![p] = "gone"]
          \/ /\ file = None \/ ~Alive(file)
             /\ UNCHANGED file
             /\ \E step \in {"stale", "write"} : at' = [at EXCEPT ![p] = step]
      BY <1>2 DEF CheckPid
    <2>5. at[p] = "check"
      BY <1>2 DEF CheckPid
    <2>6. ASSUME file = None \/ ~Alive(file), NEW q \in Pids PROVE at[q] \notin Section
      BY <2>2, <2>6, ProcessAssumption DEF Alive
    <2> QED
      BY <2>2, <2>3, <2>4, <2>5, <2>6
  <1>3. ASSUME NEW p \in Pids, UnlinkStale(p) PROVE PidInv'
    BY <1>3 DEF UnlinkStale
  <1>4. ASSUME NEW p \in Pids, WritePid(p) PROVE PidInv'
    BY <1>4 DEF WritePid
  <1>5. ASSUME NEW p \in Pids, InstallSignals(p) PROVE PidInv'
    BY <1>5 DEF InstallSignals
  <1>6. ASSUME NEW p \in Pids, SendRegister(p) PROVE PidInv'
    BY <1>6 DEF SendRegister
  <1>7. ASSUME NEW p \in Pids, GetReply(p) PROVE PidInv'
    BY <1>7 DEF GetReply
  <1>8. ASSUME NEW p \in Pids, GiveUpReply(p) PROVE PidInv'
    BY <1>8 DEF GiveUpReply
  <1>9. ASSUME NEW p \in Pids, ApplySecurity(p) PROVE PidInv'
    BY <1>9 DEF ApplySecurity
  <1>10. ASSUME NEW p \in Pids, OpenDevice(p) PROVE PidInv'
    BY <1>10 DEF OpenDevice, AudioOpen, CameraOpen, GpioOpen, SensorOpen, Opened, OpenFailed
  <1>11. ASSUME NEW p \in Pids, SkipDevice(p) PROVE PidInv'
    BY <1>11 DEF SkipDevice
  <1>12. ASSUME NEW p \in Pids, StartDevice(p) PROVE PidInv'
    BY <1>12 DEF StartDevice
  <1>13. ASSUME NEW p \in Pids, LoopReturns(p) PROVE PidInv'
    BY <1>13 DEF LoopReturns
  <1>14. ASSUME NEW p \in Pids, ShutDownDevice(p) PROVE PidInv'
    BY <1>14 DEF ShutDownDevice, Closed
  <1>15. ASSUME NEW p \in Pids, SendUnregister(p) PROVE PidInv'
    BY <1>15 DEF SendUnregister
  <1>16. ASSUME NEW p \in Pids, Unregistered(p) PROVE PidInv'
    BY <1>16 DEF Unregistered
  <1>17. ASSUME NEW p \in Pids, RemovePid(p) PROVE PidInv'
    BY <1>17 DEF RemovePid
  <1>18. ASSUME NEW p \in Pids, Kill(p) PROVE PidInv'
    BY <1>18 DEF Kill
  <1>19. ASSUME NEW p \in Pids, HandleRegister(p) PROVE PidInv'
    BY <1>19 DEF HandleRegister, Handled
  <1>20. ASSUME NEW p \in Pids, HandleUnregister(p) PROVE PidInv'
    BY <1>20 DEF HandleUnregister, Handled
  <1>21. CASE Forget
    BY <1>21 DEF Forget
  <1>22. CASE UNCHANGED procVars
    BY <1>22 DEF procVars
  <1> QED
    BY <1>1, <1>2, <1>3, <1>4, <1>5, <1>6, <1>7, <1>8, <1>9, <1>10, <1>11, <1>12, <1>13,
       <1>14, <1>15, <1>16, <1>17, <1>18, <1>19, <1>20, <1>21, <1>22 DEF ProcNext

\* What keeps a process that is alone from being turned away.
AloneInv ==
    \A p \in Pids :
        /\ at[p] \in {"new", "check", "stale", "write"} => file # p
        /\ at[p] = "new" => turned[p] = "no"
        /\ alone[p] =>
             /\ turned[p] = "no"
             /\ Alive(p) => \A q \in Pids : Alive(q) => q = p
             /\ ~(at[p] = "reg_wait" /\ reply[p] = "exists")

LEMMA AloneStep == ProcTypeOK /\ Shape /\ MessageInv /\ AloneInv /\ [ProcNext]_procVars => AloneInv'
  <1> SUFFICES ASSUME ProcTypeOK, Shape, MessageInv, AloneInv, [ProcNext]_procVars
               PROVE  AloneInv'
    OBVIOUS
  <1>0. file \in Pids \cup {None} /\ entry \in Pids \cup {None} /\ alone \in [Pids -> BOOLEAN]
    BY DEF ProcTypeOK
  <1> USE ProcessAssumption DEF Shape, GotoStep, Turn, Exit, AloneInv, Alive
  <1>1. ASSUME NEW p \in Pids, Launch(p) PROVE AloneInv'
    <2>1. /\ at[p] = "new" /\ UNCHANGED <<file, turned, reply>>
          /\ \E step \in {"check", "gone"} : at' = [at EXCEPT ![p] = step]
      BY <1>1 DEF Launch
    <2>2. /\ alone'[p] => \A r \in Pids : Alive(r) => r = p
          /\ \A q \in Pids : q # p /\ alone'[q] => alone[q] /\ ~Alive(q)
      BY <1>1, Zenon DEF Launch
    <2> QED
      BY <2>1, <2>2
  <1>2. ASSUME NEW p \in Pids, CheckPid(p) PROVE AloneInv'
    BY <1>0, <1>2 DEF CheckPid
  <1>3. ASSUME NEW p \in Pids, UnlinkStale(p) PROVE AloneInv'
    BY <1>3 DEF UnlinkStale
  <1>4. ASSUME NEW p \in Pids, WritePid(p) PROVE AloneInv'
    BY <1>4 DEF WritePid
  <1>5. ASSUME NEW p \in Pids, InstallSignals(p) PROVE AloneInv'
    BY <1>5 DEF InstallSignals
  <1>6. ASSUME NEW p \in Pids, SendRegister(p) PROVE AloneInv'
    <2>1. /\ at[p] = "register" /\ UNCHANGED <<file, reply, alone, turned>>
          /\ \E step \in {"reg_wait", "sd_hal"} : at' = [at EXCEPT ![p] = step]
      BY <1>6 DEF SendRegister
    <2>2. reply[p] = "none"
      BY <2>1 DEF MessageInv, Early
    <2> QED
      BY <2>1, <2>2
  <1>7. ASSUME NEW p \in Pids, GetReply(p) PROVE AloneInv'
    <2>1. reply[p] # "ok" => ~alone[p]
      BY <1>7 DEF GetReply
    <2>2. /\ at[p] = "reg_wait" /\ UNCHANGED <<file, reply, alone>>
          /\ \E step \in {"security", "sd_hal"} : at' = [at EXCEPT ![p] = step]
          /\ \/ UNCHANGED turned
             \/ reply[p] # "ok" /\ turned' = [turned EXCEPT ![p] = "manager"]
      BY <1>7 DEF GetReply
    <2> QED
      BY <2>1, <2>2
  <1>8. ASSUME NEW p \in Pids, GiveUpReply(p) PROVE AloneInv'
    BY <1>8 DEF GiveUpReply
  <1>9. ASSUME NEW p \in Pids, ApplySecurity(p) PROVE AloneInv'
    BY <1>9 DEF ApplySecurity
  <1>10. ASSUME NEW p \in Pids, OpenDevice(p) PROVE AloneInv'
    BY <1>10 DEF OpenDevice, AudioOpen, CameraOpen, GpioOpen, SensorOpen, Opened, OpenFailed
  <1>11. ASSUME NEW p \in Pids, SkipDevice(p) PROVE AloneInv'
    BY <1>11 DEF SkipDevice
  <1>12. ASSUME NEW p \in Pids, StartDevice(p) PROVE AloneInv'
    BY <1>12 DEF StartDevice
  <1>13. ASSUME NEW p \in Pids, LoopReturns(p) PROVE AloneInv'
    BY <1>13 DEF LoopReturns
  <1>14. ASSUME NEW p \in Pids, ShutDownDevice(p) PROVE AloneInv'
    BY <1>14 DEF ShutDownDevice, Closed
  <1>15. ASSUME NEW p \in Pids, SendUnregister(p) PROVE AloneInv'
    BY <1>15 DEF SendUnregister
  <1>16. ASSUME NEW p \in Pids, Unregistered(p) PROVE AloneInv'
    BY <1>16 DEF Unregistered
  <1>17. ASSUME NEW p \in Pids, RemovePid(p) PROVE AloneInv'
    BY <1>17 DEF RemovePid
  <1>18. ASSUME NEW p \in Pids, Kill(p) PROVE AloneInv'
    BY <1>18 DEF Kill
  <1>19. ASSUME NEW p \in Pids, HandleRegister(p) PROVE AloneInv'
    <2>1. <<"register", p>> \in requests /\ UNCHANGED <<at, file, alone, turned>>
      BY <1>19 DEF HandleRegister, Handled
    <2>2. entry # p
      BY <2>1 DEF MessageInv
    <2>3. \/ reply' = [reply EXCEPT ![p] = "ok"]
          \/ reply' = [reply EXCEPT ![p] = "exists"] /\ entry \in Pids /\ Alive(entry)
      BY <1>0, <1>19 DEF HandleRegister
    <2> QED
      BY <2>1, <2>2, <2>3
  <1>20. ASSUME NEW p \in Pids, HandleUnregister(p) PROVE AloneInv'
    BY <1>20 DEF HandleUnregister, Handled
  <1>21. CASE Forget
    BY <1>21 DEF Forget
  <1>22. CASE UNCHANGED procVars
    BY <1>22 DEF procVars
  <1> QED
    BY <1>1, <1>2, <1>3, <1>4, <1>5, <1>6, <1>7, <1>8, <1>9, <1>10, <1>11, <1>12, <1>13,
       <1>14, <1>15, <1>16, <1>17, <1>18, <1>19, <1>20, <1>21, <1>22 DEF ProcNext

-----------------------------------------------------------------------------
\* The inductive invariant.
IInv == ProcTypeOK /\ MessageInv /\ OwnerInv /\ KernelInv /\ PidInv /\ AloneInv

LEMMA InitInv == ProcInit => IInv
  <1> SUFFICES ASSUME ProcInit
               PROVE  IInv
    OBVIOUS
  <1>1. ProcTypeOK
    BY ProcessAssumption DEF ProcInit, ProcTypeOK, ProcSteps, ShuttingDown
  <1>2. MessageInv
    BY ProcessAssumption DEF ProcInit, MessageInv, Early
  <1>3. OwnerInv /\ KernelInv
    BY DEF ProcInit, OwnerInv, Claims, KernelInv, Uses
  <1>4. PidInv
    BY DEF ProcInit, PidInv, Section, ShuttingDown
  <1>5. AloneInv
    BY ProcessAssumption DEF ProcInit, AloneInv, Alive
  <1> QED
    BY <1>1, <1>2, <1>3, <1>4, <1>5 DEF IInv

LEMMA NextInv == IInv /\ [ProcNext]_procVars => IInv'
  BY TypeStep, TypeShape, MessageStep, OwnerStep, KernelStep, PidStep, AloneStep DEF IInv

LEMMA Invariance == ProcSpec => []IInv
  BY InitInv, NextInv, PTL DEF ProcSpec

\* TypeOK holds for any number of processes: do_shutdown leaves open only
\* what the service never started.
THEOREM ProcessTypeCorrect == ProcSpec => []ProcTypeOK
  <1>1. IInv => ProcTypeOK
    BY DEF IInv
  <1> QED
    BY Invariance, <1>1, PTL

\* Registration before service_hal_init and unregistration after
\* service_hal_close keep a second process of the service off the device.
THEOREM DeviceExclusive == ProcSpec => []OneUser
  <1>1. IInv => OneUser
    BY DEF IInv, OwnerInv, Claims, OneUser, Uses
  <1> QED
    BY Invariance, <1>1, PTL

\* The exported pin or the enabled buffer of the process that uses it is not
\* taken away by another one's open or close.
THEOREM KernelStateKept == ProcSpec => []KernelKeeps
  <1>1. IInv => KernelKeeps
    BY DEF IInv, KernelInv, KernelKeeps
  <1> QED
    BY Invariance, <1>1, PTL

\* service_base_write_pid gives the file to one process at a time as long as
\* no two of them are inside it together.
THEOREM PidFileExclusive == ProcSpec => []PidFileGuards
  <1>1. IInv => PidFileGuards
    BY DEF IInv, PidInv, PidFileGuards, Section
  <1> QED
    BY Invariance, <1>1, PTL

\* What killed processes leave behind, in the file, in the manager's registry
\* or in the kernel, turns no later process away that runs alone.
THEOREM RestartAdmitted == ProcSpec => []AloneIsAdmitted
  <1>1. IInv => AloneIsAdmitted
    BY DEF IInv, AloneInv, AloneIsAdmitted
  <1> QED
    BY Invariance, <1>1, PTL

-----------------------------------------------------------------------------
(***************************************************************************)
(* The configuration.                                                      *)
(***************************************************************************)
Entry == [name : ConfigNames, value : Int]

\* The table holds every name of the map m once, with its value.
Represents(table, m) ==
    /\ table \in Seq(Entry)
    /\ \A i, j \in 1 .. Len(table) : table[i].name = table[j].name => i = j
    /\ \A i \in 1 .. Len(table) : m[table[i].name] = table[i].value /\ table[i].value # Unset
    /\ \A n \in ConfigNames : m[n] # Unset => \E i \in 1 .. Len(table) : table[i].name = n

\* The names the file has given.
Has == {n \in ConfigNames : written[n] # Unset}

\* What the file and the environment say of every name.
SaysMap == [n \in ConfigNames |-> Says(n)]

InForce == setting \in Int /\ setting = given /\ (svc # "sensor" => Sound(setting))

ConfigInv ==
    /\ svc \in Services /\ env \in [ConfigNames -> Int] /\ written \in [ConfigNames -> Int] /\ section \in Sections
    /\ cfgAt \in {"down", "parse", "up"} /\ booting \in BOOLEAN
    /\ Len(cfg) \in Nat /\ Len(cfg) <= MaxEntries
    /\ cfgAt = "parse" => Represents(cfg, written) /\ IsFiniteSet(Has) /\ Len(cfg) = Cardinality(Has)
    /\ cfgAt = "up"    => Represents(cfg, SaysMap)
    /\ cfgAt = "up" \/ (cfgAt = "parse" /\ ~booting) => InForce

LEMMA FindThere ==
  ASSUME NEW table \in Seq(Entry), \A i, j \in 1 .. Len(table) : table[i].name = table[j].name => i = j,
         NEW k \in 1 .. Len(table)
  PROVE  find_entry(table, table[k].name) = k
<1>1. DOMAIN table = 1 .. Len(table)
  BY LenProperties
<1>2. {i \in DOMAIN table : table[i].name = table[k].name} = {k}
  BY <1>1
<1> QED BY <1>2 DEF find_entry

LEMMA FindNone ==
  ASSUME NEW table \in Seq(Entry), NEW n, \A i \in 1 .. Len(table) : table[i].name # n
  PROVE  find_entry(table, n) = 0
<1>1. DOMAIN table = 1 .. Len(table)
  BY LenProperties
<1>2. {i \in DOMAIN table : table[i].name = n} = {}
  BY <1>1
<1> QED BY <1>2 DEF find_entry

\* The getters read the map.
LEMMA GetReads ==
  ASSUME NEW table, NEW m, Represents(table, m), NEW n \in ConfigNames
  PROVE  get_string(table, n) = IF m[n] = Blank THEN Unset ELSE m[n]
<1>1. CASE \E i \in 1 .. Len(table) : table[i].name = n
  <2>1. PICK i \in 1 .. Len(table) : table[i].name = n
    BY <1>1
  <2>2. find_entry(table, n) = i /\ i # 0 /\ m[n] = table[i].value
    BY <2>1, FindThere DEF Represents
  <2> QED BY <2>2 DEF get_string
<1>2. CASE \A i \in 1 .. Len(table) : table[i].name # n
  <2>1. find_entry(table, n) = 0
    BY <1>2, FindNone DEF Represents
  <2>2. m[n] = Unset
    BY <1>2 DEF Represents
  <2> QED BY <2>1, <2>2 DEF get_string, Blank, Unset
<1> QED BY <1>1, <1>2

\* Storing a value changes the map at that name, or leaves a full table as
\* it is when the name is new.
LEMMA StoreWrites ==
  ASSUME NEW table, NEW m \in [ConfigNames -> Int], Represents(table, m), NEW name \in ConfigNames, NEW text \in Int, text # Unset
  PROVE  LET new == Store(table, name, text)
         IN  IF m[name] # Unset \/ Len(table) < MaxEntries
             THEN /\ Represents(new, [m EXCEPT ![name] = text])
                  /\ Len(new) = IF m[name] # Unset THEN Len(table) ELSE Len(table) + 1
             ELSE new = table
<1> DEFINE new == Store(table, name, text)
           w == [m EXCEPT ![name] = text]
<1>0. /\ table \in Seq(Entry) /\ Len(table) \in Nat
      /\ \A i, j \in 1 .. Len(table) : table[i].name = table[j].name => i = j
      /\ \A i \in 1 .. Len(table) : m[table[i].name] = table[i].value /\ table[i].value # Unset
      /\ \A n \in ConfigNames : m[n] # Unset => \E i \in 1 .. Len(table) : table[i].name = n
      /\ \A i \in 1 .. Len(table) : table[i] \in Entry
  BY DEF Represents
<1>1. CASE m[name] # Unset
  <2>1. PICK k \in 1 .. Len(table) : table[k].name = name
    BY <1>0, <1>1
  <2>2. find_entry(table, name) = k /\ k > 0
    BY <1>0, <2>1, FindThere, SMTT(30)
  <2> DEFINE e == [table[k] EXCEPT !.value = text]
  <2>3. e \in Entry /\ e.name = name /\ e.value = text
    BY <1>0, <2>1, SMTT(30) DEF Entry
  <2>4. new = [table EXCEPT ![k] = e]
    BY <2>2 DEF Store
  <2> HIDE DEF e, new
  <2>5. new \in Seq(Entry) /\ Len(new) = Len(table) /\ \A i \in 1 .. Len(table) : new[i] = IF i = k THEN e ELSE table[i]
    BY <1>0, <2>3, <2>4, ExceptSeq
  <2>6. \A i \in 1 .. Len(table) : new[i].name = table[i].name
    BY <2>1, <2>3, <2>5
  <2>7. \A i \in 1 .. Len(table) : w[new[i].name] = new[i].value /\ new[i].value # Unset
    <3> SUFFICES ASSUME NEW i \in 1 .. Len(table) PROVE w[new[i].name] = new[i].value /\ new[i].value # Unset
      OBVIOUS
    <3>1. CASE i = k
      BY <2>3, <2>5, <3>1
    <3>2. CASE i # k
      <4>1. new[i] = table[i] /\ table[i].name # name /\ table[i].name \in ConfigNames
        BY <1>0, <2>1, <2>5, <3>2 DEF Entry
      <4> QED BY <1>0, <4>1
    <3> QED BY <3>1, <3>2
  <2>8. \A n \in ConfigNames : w[n] # Unset => \E i \in 1 .. Len(table) : new[i].name = n
    BY <1>0, <1>1, <2>6
  <2>9. Represents(new, w)
    BY <1>0, <2>5, <2>6, <2>7, <2>8 DEF Represents
  <2> QED BY <1>1, <2>5, <2>9 DEF new
<1>2. CASE m[name] = Unset
  <2>1. \A i \in 1 .. Len(table) : table[i].name # name
    BY <1>0, <1>2
  <2>2. find_entry(table, name) = 0
    BY <1>0, <2>1, FindNone
  <2>3. CASE Len(table) < MaxEntries
    <3> DEFINE e == [name |-> name, value |-> text]
    <3>1. e \in Entry /\ e.name = name /\ e.value = text
      BY DEF Entry
    <3>2. new = Append(table, e)
      BY <2>2, <2>3 DEF Store
    <3> HIDE DEF e, new
    <3>3. /\ new \in Seq(Entry) /\ Len(new) = Len(table) + 1
          /\ \A i \in 1 .. Len(table) : new[i] = table[i]
          /\ new[Len(table) + 1] = e
      BY <1>0, <3>1, <3>2, AppendProperties
    <3>4. \A i, j \in 1 .. Len(new) : new[i].name = new[j].name => i = j
      BY <1>0, <2>1, <3>1, <3>3
    <3>5. \A i \in 1 .. Len(new) : w[new[i].name] = new[i].value /\ new[i].value # Unset
      <4> SUFFICES ASSUME NEW i \in 1 .. Len(new) PROVE w[new[i].name] = new[i].value /\ new[i].value # Unset
        OBVIOUS
      <4>1. CASE i = Len(table) + 1
        BY <3>1, <3>3, <4>1
      <4>2. CASE i \in 1 .. Len(table)
        <5>1. new[i] = table[i] /\ table[i].name # name /\ table[i].name \in ConfigNames
          BY <1>0, <2>1, <3>3, <4>2 DEF Entry
        <5> QED BY <1>0, <4>2, <5>1
      <4> QED BY <1>0, <3>3, <4>1, <4>2
    <3>6. \A n \in ConfigNames : w[n] # Unset => \E i \in 1 .. Len(new) : new[i].name = n
      <4> SUFFICES ASSUME NEW n \in ConfigNames, w[n] # Unset PROVE \E i \in 1 .. Len(new) : new[i].name = n
        OBVIOUS
      <4>1. CASE n = name
        BY <1>0, <3>1, <3>3, <4>1
      <4>2. CASE n # name
        <5>1. PICK i \in 1 .. Len(table) : table[i].name = n
          BY <1>0, <4>2
        <5> QED BY <1>0, <3>3, <5>1
      <4> QED BY <4>1, <4>2
    <3>7. Represents(new, w)
      BY <3>3, <3>4, <3>5, <3>6 DEF Represents
    <3> QED BY <1>2, <2>3, <3>3, <3>7 DEF new
  <2>4. CASE ~(Len(table) < MaxEntries)
    BY <1>2, <2>2, <2>4 DEF Store
  <2> QED BY <2>3, <2>4
<1> QED BY <1>1, <1>2

\* A variable overrides the value of a name that is there.
LEMMA OverridesWrite ==
  ASSUME NEW table, NEW m \in [ConfigNames -> Int], Represents(table, m), env \in [ConfigNames -> Int]
  PROVE  /\ Represents(apply_env_overrides(table),
                       [n \in ConfigNames |-> IF m[n] # Unset /\ env[n] # Unset THEN env[n] ELSE m[n]])
         /\ Len(apply_env_overrides(table)) = Len(table)
<1> DEFINE new == apply_env_overrides(table)
           w == [n \in ConfigNames |-> IF m[n] # Unset /\ env[n] # Unset THEN env[n] ELSE m[n]]
<1>0. /\ table \in Seq(Entry) /\ Len(table) \in Nat /\ DOMAIN table = 1 .. Len(table)
      /\ \A i, j \in 1 .. Len(table) : table[i].name = table[j].name => i = j
      /\ \A i \in 1 .. Len(table) : m[table[i].name] = table[i].value /\ table[i].value # Unset
      /\ \A n \in ConfigNames : m[n] # Unset => \E i \in 1 .. Len(table) : table[i].name = n
      /\ \A i \in 1 .. Len(table) : table[i] \in Entry
  BY LenProperties DEF Represents
<1>1. \A i \in 1 .. Len(table) :
         /\ new[i] \in Entry /\ new[i].name = table[i].name
         /\ new[i].value = IF env[table[i].name] # Unset THEN env[table[i].name] ELSE table[i].value
  <2> SUFFICES ASSUME NEW i \in 1 .. Len(table)
               PROVE  /\ new[i] \in Entry /\ new[i].name = table[i].name
                      /\ new[i].value = IF env[table[i].name] # Unset THEN env[table[i].name] ELSE table[i].value
    OBVIOUS
  <2>1. new[i] = IF env[table[i].name] # Unset THEN [table[i] EXCEPT !.value = env[table[i].name]] ELSE table[i]
    BY <1>0 DEF apply_env_overrides
  <2>2. table[i] \in Entry /\ table[i].name \in ConfigNames /\ env[table[i].name] \in Int
    BY <1>0 DEF Entry
  <2> HIDE DEF new
  <2> QED BY <2>1, <2>2 DEF Entry
<1>2. new \in [1 .. Len(table) -> Entry]
  <2>1. new = [i \in 1 .. Len(table) |-> new[i]]
    BY <1>0 DEF apply_env_overrides
  <2> HIDE DEF new
  <2> QED BY <1>1, <2>1
<1> HIDE DEF new
<1>3. new \in Seq(Entry) /\ Len(new) = Len(table)
  <2>1. new \in Seq(Entry)
    BY <1>0, <1>2, SeqDef
  <2> QED BY <1>0, <1>2, <2>1, LenProperties
<1>4. \A i \in 1 .. Len(table) : w[new[i].name] = new[i].value /\ new[i].value # Unset
  <2> SUFFICES ASSUME NEW i \in 1 .. Len(table) PROVE w[new[i].name] = new[i].value /\ new[i].value # Unset
    OBVIOUS
  <2>1. table[i].name \in ConfigNames /\ m[table[i].name] # Unset /\ m[table[i].name] = table[i].value
    BY <1>0 DEF Entry
  <2> QED BY <1>1, <2>1
<1>5. \A n \in ConfigNames : w[n] # Unset => \E i \in 1 .. Len(table) : new[i].name = n
  <2> SUFFICES ASSUME NEW n \in ConfigNames, w[n] # Unset PROVE \E i \in 1 .. Len(table) : new[i].name = n
    OBVIOUS
  <2>1. m[n] # Unset
    OBVIOUS
  <2>2. PICK i \in 1 .. Len(table) : table[i].name = n
    BY <1>0, <2>1
  <2> QED BY <1>1, <2>2
<1>6. Represents(new, w)
  BY <1>0, <1>1, <1>3, <1>4, <1>5 DEF Represents
<1> QED BY <1>3, <1>6 DEF new

\* An empty table is the map without names.
LEMMA EmptyRepresents ==
  ASSUME NEW m, \A n \in ConfigNames : m[n] = Unset
  PROVE  Represents(<<>>, m)
<1>1. <<>> \in Seq(Entry) /\ Len(<<>>) = 0
  OBVIOUS
<1> QED BY <1>1 DEF Represents

LEMMA ClearedEmpty ==
  ASSUME Cleared
  PROVE  /\ written' \in [ConfigNames -> Int] /\ section' \in Sections /\ Len(cfg') = 0
         /\ Represents(cfg', written') /\ IsFiniteSet(Has') /\ Cardinality(Has') = 0
         /\ \A n \in ConfigNames : Says(n)' = Unset
<1>1. cfg' = <<>> /\ section' = "" /\ written' = [n \in ConfigNames |-> Unset]
  BY DEF Cleared
<1>2. Has' = {}
  BY <1>1 DEF Has
<1>3. written' \in [ConfigNames -> Int] /\ section' \in Sections
  <2>1. Unset \in Int
    BY DEF Unset
  <2>2. section' \in Sections
    BY <1>1 DEF Sections
  <2> QED BY <1>1, <2>1, <2>2
<1>4. Represents(cfg', written')
  <2>1. \A n \in ConfigNames : written'[n] = Unset
    BY <1>1
  <2>2. Represents(<<>>, written')
    BY <2>1, EmptyRepresents
  <2> QED BY <1>1, <2>2
<1>5. \A n \in ConfigNames : Says(n)' = Unset
  BY <1>1 DEF Says
<1> QED BY <1>1, <1>2, <1>3, <1>4, <1>5, FS_EmptySet

LEMMA LoadsKeep ==
  ASSUME ConfigInv, Load \/ Reload \/ ReloadFails
  PROVE  ConfigInv'
<1>1. /\ svc \in Services /\ env \in [ConfigNames -> Int] /\ booting \in BOOLEAN
      /\ Cleared /\ UNCHANGED <<svc, env, setting, given>>
  BY DEF ConfigInv, Load, Reload, ReloadFails
<1>2. /\ written' \in [ConfigNames -> Int] /\ section' \in Sections /\ Len(cfg') = 0
      /\ Represents(cfg', written') /\ IsFiniteSet(Has') /\ Cardinality(Has') = 0
      /\ \A n \in ConfigNames : Says(n)' = Unset
  BY <1>1, ClearedEmpty
<1>3. Len(cfg') \in Nat /\ Len(cfg') <= MaxEntries
  BY <1>2, ConfigAssumption
<1>4. InForce => InForce'
  BY <1>1 DEF InForce, Sound
<1>5. CASE Load
  <2>1. cfgAt' = "parse" /\ booting' = TRUE
    BY <1>5 DEF Load
  <2> QED BY <1>1, <1>2, <1>3, <2>1 DEF ConfigInv
<1>6. CASE Reload
  <2>1. cfgAt = "up" /\ cfgAt' = "parse" /\ booting' = FALSE
    BY <1>6 DEF Reload
  <2>2. InForce'
    BY <1>4, <2>1 DEF ConfigInv
  <2> QED BY <1>1, <1>2, <1>3, <2>1, <2>2 DEF ConfigInv
<1>7. CASE ReloadFails
  <2>1. cfgAt = "up" /\ cfgAt' = "up" /\ booting' = booting
    BY <1>7 DEF ReloadFails
  <2>2. InForce'
    BY <1>4, <2>1 DEF ConfigInv
  <2>3. Represents(cfg', SaysMap')
    <3>1. cfg' = <<>>
      BY <1>1 DEF Cleared
    <3>2. \A n \in ConfigNames : SaysMap'[n] = Unset
      BY <1>2 DEF SaysMap
    <3> QED BY <3>1, <3>2, EmptyRepresents
  <2> QED BY <1>1, <1>2, <1>3, <2>1, <2>2, <2>3 DEF ConfigInv
<1> QED BY <1>5, <1>6, <1>7

LEMMA HeaderKeeps ==
  ASSUME ConfigInv, NEW s \in Sections, Header(s)
  PROVE  ConfigInv'
<1>1. /\ UNCHANGED <<svc, env, cfgAt, booting, cfg, setting, written, given>> /\ section' = s /\ cfgAt = "parse"
  BY DEF Header
<1>2. Has' = Has /\ (InForce => InForce')
  BY <1>1 DEF Has, InForce, Sound
<1> QED BY <1>1, <1>2 DEF ConfigInv

\* A line of the file: the table and the map change alike.
LEMMA KeyValueKeeps ==
  ASSUME ConfigInv, NEW key \in Keys, NEW text \in Int, text # Unset, KeyValue(key, text)
  PROVE  ConfigInv'
<1> DEFINE name == <<section, key>>
<1>1. /\ cfgAt = "parse" /\ cfg' = Store(cfg, name, text)
      /\ written' = IF written[name] # Unset \/ Cardinality(Has) < MaxEntries
                      THEN [written EXCEPT ![name] = text] ELSE written
      /\ UNCHANGED <<svc, env, cfgAt, booting, section, setting, given>>
  BY DEF KeyValue, Has
<1>2. /\ name \in ConfigNames /\ written \in [ConfigNames -> Int] /\ Represents(cfg, written)
      /\ IsFiniteSet(Has) /\ Len(cfg) = Cardinality(Has) /\ Len(cfg) \in Nat /\ Len(cfg) <= MaxEntries
  BY <1>1 DEF ConfigInv, ConfigNames
<1> HIDE DEF name
<1>3. InForce => InForce'
  BY <1>1 DEF InForce, Sound
<1>4. CASE written[name] # Unset \/ Len(cfg) < MaxEntries
  <2>1. written' = [written EXCEPT ![name] = text]
    BY <1>1, <1>2, <1>4
  <2>2. Represents(cfg', written') /\ Len(cfg') = IF written[name] # Unset THEN Len(cfg) ELSE Len(cfg) + 1
    <3>1. /\ Represents(Store(cfg, name, text), [written EXCEPT ![name] = text])
          /\ Len(Store(cfg, name, text)) = IF written[name] # Unset THEN Len(cfg) ELSE Len(cfg) + 1
      BY <1>2, <1>4, StoreWrites
    <3> QED BY <1>1, <2>1, <3>1
  <2>3. written' \in [ConfigNames -> Int] /\ Has' = Has \cup {name}
    <3>1. \A n \in ConfigNames : written'[n] = IF n = name THEN text ELSE written[n]
      BY <1>2, <2>1
    <3>2. written' \in [ConfigNames -> Int]
      BY <1>2, <2>1
    <3>3. Has' = Has \cup {name}
      BY <1>2, <3>1 DEF Has
    <3> QED BY <3>2, <3>3
  <2>4. IsFiniteSet(Has') /\ Cardinality(Has') = IF written[name] # Unset THEN Cardinality(Has) ELSE Cardinality(Has) + 1
    <3>1. name \in Has <=> written[name] # Unset
      BY <1>2 DEF Has
    <3> QED BY <1>2, <2>3, <3>1, FS_AddElement
  <2>5. Len(cfg') \in Nat /\ Len(cfg') <= MaxEntries
    BY <1>2, <1>4, <2>2, ConfigAssumption
  <2>6. Len(cfg') = Cardinality(Has')
    BY <1>2, <2>2, <2>4
  <2> QED BY <1>1, <1>3, <2>2, <2>3, <2>4, <2>5, <2>6 DEF ConfigInv
<1>5. CASE ~(written[name] # Unset \/ Len(cfg) < MaxEntries)
  <2>1. written' = written /\ Has' = Has
    BY <1>1, <1>2, <1>5 DEF Has
  <2>2. cfg' = cfg
    BY <1>1, <1>2, <1>5, StoreWrites
  <2> QED BY <1>1, <1>3, <2>1, <2>2 DEF ConfigInv
<1> QED BY <1>4, <1>5

\* The end of the file: the table, its overrides and what the setting is
\* then taken from.
LEMMA Overridden ==
  ASSUME ConfigInv, cfgAt = "parse"
  PROVE  /\ Represents(apply_env_overrides(cfg), SaysMap) /\ Len(apply_env_overrides(cfg)) = Len(cfg)
         /\ Says(Rate) \in Int
         /\ \A def \in Int : get_uint32(apply_env_overrides(cfg), Rate, def) = IF Says(Rate) >= 0 THEN Says(Rate) ELSE def
<1>1. written \in [ConfigNames -> Int] /\ Represents(cfg, written) /\ env \in [ConfigNames -> Int]
  BY DEF ConfigInv
<1>2. SaysMap = [n \in ConfigNames |-> IF written[n] # Unset /\ env[n] # Unset THEN env[n] ELSE written[n]]
  BY DEF SaysMap, Says
<1>3. Represents(apply_env_overrides(cfg), SaysMap) /\ Len(apply_env_overrides(cfg)) = Len(cfg)
  BY <1>1, <1>2, OverridesWrite
<1>4. Rate \in ConfigNames
  BY DEF Rate, ConfigNames, Sections, Keys
<1>5. SaysMap[Rate] = Says(Rate) /\ Says(Rate) \in Int
  BY <1>1, <1>4 DEF SaysMap, Says
<1>6. get_string(apply_env_overrides(cfg), Rate) = IF Says(Rate) = Blank THEN Unset ELSE Says(Rate)
  BY <1>3, <1>4, <1>5, GetReads
<1>7. \A def \in Int : get_uint32(apply_env_overrides(cfg), Rate, def) = IF Says(Rate) >= 0 THEN Says(Rate) ELSE def
  BY <1>5, <1>6 DEF get_uint32, Blank, Unset
<1> QED BY <1>3, <1>5, <1>7

LEMMA BootKeeps ==
  ASSUME ConfigInv, Boot \/ BootFails
  PROVE  ConfigInv'
<1>1. /\ svc \in Services /\ env \in [ConfigNames -> Int] /\ written \in [ConfigNames -> Int] /\ section \in Sections
      /\ booting \in BOOLEAN /\ Len(cfg) \in Nat /\ Len(cfg) <= MaxEntries /\ cfgAt = "parse"
      /\ cfg' = apply_env_overrides(cfg) /\ UNCHANGED <<svc, env, booting, section, lines, written>>
  BY DEF ConfigInv, Boot, BootFails
<1>2. /\ Represents(apply_env_overrides(cfg), SaysMap) /\ Len(apply_env_overrides(cfg)) = Len(cfg) /\ Says(Rate) \in Int
      /\ \A def \in Int : get_uint32(apply_env_overrides(cfg), Rate, def) = IF Says(Rate) >= 0 THEN Says(Rate) ELSE def
  BY <1>1, Overridden
<1>3. CASE BootFails
  <2>1. cfgAt' = "down"
    BY <1>3 DEF BootFails
  <2> QED BY <1>1, <1>2, <2>1 DEF ConfigInv
<1>4. CASE Boot
  <2> DEFINE v == get_uint32(apply_env_overrides(cfg), Rate, Default[svc])
  <2>1. /\ cfgAt' = "up" /\ setting' = v /\ Boots(v)
        /\ given' = IF Says(Rate) >= 0 THEN Says(Rate) ELSE Default[svc]
    BY <1>4 DEF Boot
  <2>2. Default[svc] \in Int /\ svc \in {"audio", "camera", "gpio", "sensor"}
    BY <1>1, ConfigAssumption DEF Default
  <2>3. v = given' /\ v \in Int
    BY <1>2, <2>1, <2>2
  <2> HIDE DEF v
  <2>4. svc # "sensor" => Sound(v)
    BY <2>1, <2>2, <2>3 DEF Boots, Sound, AudioBoots, CameraBoots
  <2>5. InForce'
    BY <1>1, <2>1, <2>3, <2>4 DEF InForce, Sound
  <2>6. SaysMap' = SaysMap
    BY <1>1 DEF SaysMap, Says
  <2> QED BY <1>1, <1>2, <2>1, <2>5, <2>6 DEF ConfigInv
<1> QED BY <1>3, <1>4

LEMMA ApplyKeeps ==
  ASSUME ConfigInv, Apply
  PROVE  ConfigInv'
<1>1. /\ svc \in Services /\ env \in [ConfigNames -> Int] /\ written \in [ConfigNames -> Int] /\ section \in Sections
      /\ booting \in BOOLEAN /\ Len(cfg) \in Nat /\ Len(cfg) <= MaxEntries /\ cfgAt = "parse" /\ cfgAt' = "up" /\ InForce
      /\ cfg' = apply_env_overrides(cfg) /\ UNCHANGED <<svc, env, booting, section, lines, written>>
      /\ setting' = Reloaded(apply_env_overrides(cfg), setting)
      /\ given' = IF Says(Rate) >= 0 /\ Sound(Says(Rate)) THEN Says(Rate) ELSE given
  BY DEF ConfigInv, Apply
<1>2. /\ Represents(apply_env_overrides(cfg), SaysMap) /\ Len(apply_env_overrides(cfg)) = Len(cfg) /\ Says(Rate) \in Int
      /\ get_uint32(apply_env_overrides(cfg), Rate, setting) = IF Says(Rate) >= 0 THEN Says(Rate) ELSE setting
  BY <1>1, Overridden DEF InForce
<1> DEFINE says == Says(Rate)
<1>3. svc \in {"audio", "camera", "gpio", "sensor"} /\ setting \in Int /\ setting = given /\ (svc # "sensor" => Sound(setting))
  BY <1>1, ConfigAssumption DEF InForce
<1>4. setting' = given' /\ setting' \in Int /\ (svc # "sensor" => Sound(setting'))
  <2>1. CASE svc = "audio"
    BY <1>1, <1>2, <1>3, <2>1 DEF Reloaded, AudioReload, Sound
  <2>2. CASE svc = "camera"
    BY <1>1, <1>2, <1>3, <2>2 DEF Reloaded, CameraReload, Sound
  <2>3. CASE svc = "sensor"
    BY <1>1, <1>2, <1>3, <2>3 DEF Reloaded, SensorReload, Sound
  <2>4. CASE svc = "gpio"
    BY <1>1, <1>2, <1>3, <2>4 DEF Reloaded, GpioReload, Sound
  <2> QED BY <1>3, <2>1, <2>2, <2>3, <2>4
<1>5. InForce'
  BY <1>1, <1>4 DEF InForce, Sound
<1>6. SaysMap' = SaysMap
  BY <1>1 DEF SaysMap, Says
<1> QED BY <1>1, <1>2, <1>5, <1>6 DEF ConfigInv

\* service_config_load and the reloads, of files of any length over a table
\* of any size: what the getters then see is the map the file and the
\* environment describe, and a running service works with the last
\* acceptable value it was given.
THEOREM ConfigCorrect == ConfigInit /\ [][ConfigNext]_cfgVars => []ConfigSafe
<1>1. ConfigInit => ConfigInv
  <2> SUFFICES ASSUME ConfigInit PROVE ConfigInv
    OBVIOUS
  <2>1. env \in [ConfigNames -> Int]
    <3>1. PICK rate \in Numbers \cup {Blank, Unset}, device \in {Word, Unset} :
             env = [n \in ConfigNames |-> CASE n = Rate -> rate [] n = Device -> device [] OTHER -> Unset]
      BY DEF ConfigInit
    <3>2. rate \in Int /\ device \in Int /\ Unset \in Int
      BY ConfigAssumption DEF Blank, Unset, Word
    <3>3. Rate # Device
      BY DEF Rate, Device
    <3> QED BY <3>1, <3>2, <3>3
  <2>2. written \in [ConfigNames -> Int]
    <3>1. written = [n \in ConfigNames |-> Unset]
      BY DEF ConfigInit
    <3>2. Unset \in Int
      BY DEF Unset
    <3> QED BY <3>1, <3>2
  <2>3. section \in Sections /\ cfg = <<>> /\ svc \in Services /\ cfgAt = "down" /\ booting = TRUE
    BY DEF ConfigInit, Sections
  <2>4. Len(cfg) \in Nat /\ Len(cfg) <= MaxEntries
    BY <2>3, ConfigAssumption
  <2> QED BY <2>1, <2>2, <2>3, <2>4 DEF ConfigInv
<1>2. ConfigInv /\ [ConfigNext]_cfgVars => ConfigInv'
  <2> SUFFICES ASSUME ConfigInv, [ConfigNext]_cfgVars PROVE ConfigInv'
    OBVIOUS
  <2>1. CASE ConfigNext
    <3>1. "rate" \in Keys /\ "device" \in Keys
      BY DEF Keys
    <3>2. \A text \in Numbers \cup {Blank, Word} : text \in Int /\ text # Unset
      BY ConfigAssumption DEF Blank, Word, Unset
    <3>3. CASE \E text \in Numbers \cup {Blank, Word} : KeyValue("rate", text)
      BY <3>1, <3>2, <3>3, KeyValueKeeps
    <3>4. CASE \E text \in {Blank, Word} : KeyValue("device", text)
      BY <3>1, <3>2, <3>4, KeyValueKeeps
    <3>5. CASE \E s \in Sections \ {""} : Header(s)
      BY <3>5, HeaderKeeps
    <3> QED BY <2>1, <3>3, <3>4, <3>5, LoadsKeep, BootKeeps, ApplyKeeps DEF ConfigNext
  <2>2. CASE UNCHANGED cfgVars
    BY <2>2 DEF cfgVars, ConfigInv, Has, SaysMap, Says, InForce, Sound
  <2> QED BY <2>1, <2>2
<1>3. ConfigInv => ConfigSafe
  <2> SUFFICES ASSUME ConfigInv PROVE ConfigSafe
    OBVIOUS
  <2>1. ASSUME cfgAt = "up", NEW n \in ConfigNames PROVE get_string(cfg, n) = IF Says(n) = Blank THEN Unset ELSE Says(n)
    <3>1. Represents(cfg, SaysMap) /\ SaysMap[n] = Says(n)
      BY <2>1 DEF ConfigInv, SaysMap
    <3> QED BY <3>1, GetReads
  <2> QED BY <2>1 DEF ConfigInv, ConfigSafe, TableIsMap, SettingInForce, InForce
<1> QED BY <1>1, <1>2, <1>3, PTL
=============================================================================
