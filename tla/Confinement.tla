----------------------------- MODULE Confinement ----------------------------
(***************************************************************************)
(* How a process gives up its privileges.  A service calls                 *)
(* security_manager_apply_all (security/core/security_manager.c), which    *)
(* reads the key, enters the sandbox, drops the capabilities and installs  *)
(* the system-call filter, in that order; the service manager drops root   *)
(* and installs a filter of its own (service_manager/security/             *)
(* sm_security.c).  What the kernel holds of the process is never undone,  *)
(* so the order decides whether a later step is still permitted, and a     *)
(* step that fails leaves the earlier ones in force.                       *)
(***************************************************************************)
EXTENDS Integers, Sequences, FiniteSets

CONSTANTS Caps,         \* the capabilities of root
          Devices       \* the device files a filter names

VARIABLES config,       \* security_full_config_t, and the user the process starts as
          task,         \* the process: the step it is at and what the kernel holds of it
          mgr,          \* security_manager_t
          sm,           \* the same of the service manager's own process
          call          \* a system call of the manager, run through its filter

confVars == <<config, task, mgr, sm, call>>

Layers == {"verify", "sandbox", "capabilities", "seccomp"}

\* The first step of each layer, and the step after its last.
First == [verify |-> "verify", sandbox |-> "cgroup", capabilities |-> "bounding", seccomp |-> "devices"]
Following == [verify |-> "cgroup", sandbox |-> "bounding", capabilities |-> "devices", seccomp |-> "secured"]

\* security_manager_init.
NoManager == [state |-> "UNINITIALIZED", applied |-> {}]

\* capabilities_policy_get_config: a service is given the capabilities its
\* policy requires and may raise the optional ones; an unknown service is
\* given none.
Policies == [required : SUBSET Caps, optional : SUBSET Caps]
Permitted(policy) == policy.required \cup policy.optional

NoCall == [nr |-> "none", sig |-> "0", pc |-> 0, acc |-> "none"]

\* The configuration a service builds: its own defaults, and what its file
\* says to skip.  Only the services of service_configs have a cgroup.
Confined(uid) ==
    [at |-> "verify", uid |-> uid, gid |-> uid, groups |-> uid, keep |-> FALSE,
     bounding |-> Caps, permitted |-> IF uid = "root" THEN Caps ELSE {},
     effective |-> IF uid = "root" THEN Caps ELSE {},
     nnp |-> FALSE, ns |-> FALSE, root |-> "host", cgroup |-> "none",
     fds |-> {}, ioctl |-> {}, filter |-> FALSE]

\* The process is a service or the service manager.
ConfInit ==
    /\ config \in [user : {"root", "user"}, skip : SUBSET Layers, policy : Policies, cgroup : BOOLEAN]
    /\ mgr = NoManager
    /\ \E manager \in BOOLEAN :
          /\ task = [Confined(config.user) EXCEPT !.at = IF manager THEN "other" ELSE @]
          /\ sm = [at |-> IF manager THEN "limits" ELSE "other", uid |-> config.user, gid |-> config.user,
                   groups |-> config.user,
                   limits |-> {}, nnp |-> FALSE, filter |-> FALSE]
    /\ call = NoCall

-----------------------------------------------------------------------------
\* security_manager_apply_all.

Mine == UNCHANGED <<config, sm, call>>

Go(to) == task' = [task EXCEPT !.at = to] /\ UNCHANGED mgr

\* The last step of a layer has succeeded.
LayerApplied(layer, t) ==
    /\ task' = [t EXCEPT !.at = Following[layer]]
    /\ mgr' = [state |-> IF layer = "seccomp" THEN "FULLY_SECURED" ELSE layer,
               applied |-> mgr.applied \cup {layer}]

SkipLayer ==
    /\ \E layer \in config.skip :
          /\ task.at = First[layer]
          /\ task' = [task EXCEPT !.at = Following[layer]]
          /\ mgr' = IF layer = "seccomp" THEN [mgr EXCEPT !.state = "FULLY_SECURED"] ELSE mgr
    /\ Mine

\* sandbox_cgroup_destroy.  It kills every process in the group, this one
\* too, unless the kernel has no cgroup.kill; then the group is not empty
\* and stays.  Behind the new root its path does not exist.
Destroyed(t) ==
    IF t.root = "sandbox" \/ t.cgroup = "none" THEN {t}
    ELSE IF t.cgroup = "joined" THEN {t, [t EXCEPT !.at = "killed"]}
    ELSE {[t EXCEPT !.cgroup = "none"]}

\* A step has failed: the label rollback, after sandbox_apply_config has
\* undone its own cgroup.  Once the sandbox is in force the rollback looks
\* for the cgroup in vain.  The flags are cleared, and main ends the process.
Rollback(t) ==
    /\ task' = [t EXCEPT !.at = IF @ = "killed" THEN @ ELSE "cleanup"]
    /\ mgr' = NoManager

Cleanup(t) == [t EXCEPT !.at = "gone", !.fds = {}]

CleanUp ==
    /\ task.at = "cleanup"
    /\ task' = Cleanup(task)
    /\ UNCHANGED mgr /\ Mine

Runs(step, layer) == task.at = step /\ layer \notin config.skip

InitVerify ==
    /\ Runs("verify", "verify")
    /\ LayerApplied("verify", task) \/ Rollback(task)
    /\ Mine

IsRoot(t) == t.effective = Caps

\* sandbox_cgroup_create, whose limits are written if they can be.
CreateCgroup ==
    /\ Runs("cgroup", "sandbox")
    /\ IF ~config.cgroup THEN Go("unshare")
       ELSE \/ IsRoot(task) /\ task' = [task EXCEPT !.at = "join", !.cgroup = "made"] /\ UNCHANGED mgr
            \/ Rollback(task)
    /\ Mine

JoinCgroup ==
    /\ task.at = "join"
    /\ \/ task' = [task EXCEPT !.at = "unshare", !.cgroup = "joined"] /\ UNCHANGED mgr
       \/ \E t \in Destroyed(task) : Rollback(t)
    /\ Mine

\* sandbox_core_apply_namespaces.
Unshare ==
    /\ task.at = "unshare"
    /\ \/ IsRoot(task) /\ task' = [task EXCEPT !.at = "mount", !.ns = TRUE] /\ UNCHANGED mgr
       \/ \E t \in Destroyed(task) : Rollback(t)
    /\ Mine

\* sandbox_mount_setup_filesystem fails before or after pivot_root; after it,
\* only the bindings and the loopback interface are left, whose errors are
\* ignored.
Mount ==
    /\ task.at = "mount"
    /\ \/ LayerApplied("sandbox", [task EXCEPT !.root = "sandbox"])
       \/ \E t \in Destroyed(task) \cup {[task EXCEPT !.root = "sandbox"]} : Rollback(t)
    /\ Mine

\* set_capability_bounding_set: errors are ignored.
DropBounding ==
    /\ Runs("bounding", "capabilities")
    /\ task' = [task EXCEPT !.at = "nnp",
                            !.bounding = IF IsRoot(task) THEN Permitted(config.policy) ELSE @]
    /\ UNCHANGED mgr /\ Mine

NoNewPrivs ==
    /\ task.at = "nnp"
    /\ \/ task' = [task EXCEPT !.at = IF task.uid = "root" THEN "groups" ELSE "capset", !.nnp = TRUE] /\ UNCHANGED mgr
       \/ Rollback(task)
    /\ Mine

SetGroups ==
    /\ task.at = "groups"
    /\ \/ IsRoot(task) /\ task' = [task EXCEPT !.at = "gid", !.groups = "service"] /\ UNCHANGED mgr
       \/ Rollback(task)
    /\ Mine

SetGid ==
    /\ task.at = "gid"
    /\ \/ IsRoot(task) /\ task' = [task EXCEPT !.at = "keepcaps", !.gid = "service"] /\ UNCHANGED mgr
       \/ Rollback(task)
    /\ Mine

KeepCaps ==
    /\ task.at = "keepcaps"
    /\ \/ task' = [task EXCEPT !.at = "uid", !.keep = TRUE] /\ UNCHANGED mgr
       \/ Rollback(task)
    /\ Mine

\* setuid, which the kernel lets a process without CAP_SETUID not undo: the
\* effective set is emptied, and the permitted one too without KEEPCAPS.
Setuid(t) ==
    [t EXCEPT !.uid = "service", !.effective = {}, !.permitted = IF t.keep THEN @ ELSE {}, !.keep = FALSE]

SetUid ==
    /\ task.at = "uid"
    /\ \/ IsRoot(task) /\ task' = [Setuid(task) EXCEPT !.at = "capset"] /\ UNCHANGED mgr
       \/ Rollback(task)
    /\ Mine

\* Mutant: capset is not reached when the user has been changed.
SetCapsUserOnly ==
    /\ task.at = "capset"
    /\ \/ LayerApplied("capabilities", task)
       \/ Rollback(task)
    /\ Mine

\* set_caps_full: capset only lowers the permitted set.
SetCaps ==
    /\ task.at = "capset"
    /\ \/ /\ Permitted(config.policy) \subseteq task.permitted
          /\ LayerApplied("capabilities", [task EXCEPT !.permitted = Permitted(config.policy),
                                                       !.effective = config.policy.required])
       \/ Rollback(task)
    /\ Mine

\* seccomp_core_setup_device_fds: those of the devices that can be opened.
\* There are none behind the new root.
OpenDevices ==
    /\ Runs("devices", "seccomp")
    /\ \E opened \in SUBSET Devices :
          /\ task.root = "sandbox" => opened = {}
          /\ task' = [task EXCEPT !.at = "build", !.fds = opened]
    /\ UNCHANGED mgr /\ Mine

\* The rules: seccomp_core_apply_common and its like, and
\* seccomp_core_add_ioctl_filter, which allows every ioctl if no device
\* could be opened.  A rule that cannot be added ends it.
BuildFilter ==
    /\ task.at = "build"
    /\ \/ task' = [task EXCEPT !.at = "lock", !.ioctl = IF task.fds = {} THEN Devices ELSE task.fds] /\ UNCHANGED mgr
       \/ Rollback(task)
    /\ Mine

LockPrivs ==
    /\ task.at = "lock"
    /\ \/ task' = [task EXCEPT !.at = "load", !.nnp = TRUE] /\ UNCHANGED mgr
       \/ Rollback(task)
    /\ Mine

\* Mutant: the devices stay open behind the filter.
LoadFilterOpen ==
    /\ task.at = "load"
    /\ \/ LayerApplied("seccomp", [task EXCEPT !.filter = TRUE])
       \/ Rollback([task EXCEPT !.fds = {}])
    /\ Mine

\* seccomp_load, and the devices are closed whatever it says.
LoadFilter ==
    /\ task.at = "load"
    /\ \/ LayerApplied("seccomp", [task EXCEPT !.filter = TRUE, !.fds = {}])
       \/ Rollback([task EXCEPT !.fds = {}])
    /\ Mine

-----------------------------------------------------------------------------
\* The service manager.

Own == UNCHANGED <<config, task, mgr, call>>

\* sm_set_resource_limits, one limit after another.
SetLimit(limit) ==
    /\ sm.at = "limits" /\ limit \notin sm.limits
    /\ \/ sm' = [sm EXCEPT !.limits = @ \cup {limit}, !.at = IF Cardinality(sm.limits) = 3 THEN "drop" ELSE @]
       \/ sm' = [sm EXCEPT !.at = "ended"]
    /\ Own

\* sm_drop_privileges: nothing to do without root; otherwise the groups, then
\* the group, then the user, each of which may fail, and aborts unless both
\* have changed.
DropPrivileges ==
    /\ sm.at = "drop"
    /\ \/ sm.uid # "root" /\ sm' = [sm EXCEPT !.at = "filter"]
       \/ /\ sm.uid = "root"
          /\ \/ sm' = [sm EXCEPT !.at = "filter", !.groups = "service", !.gid = "service", !.uid = "service"]
             \/ \E groups, gid \in {"root", "service"} :
                   sm' = [sm EXCEPT !.at = "ended", !.groups = groups, !.gid = gid]
    /\ Own

\* sm_setup_seccomp.
SetupSeccomp ==
    /\ sm.at = "filter"
    /\ \E nnp, filter \in BOOLEAN :
          /\ filter => nnp
          /\ sm' = [sm EXCEPT !.at = IF filter THEN "up" ELSE "ended", !.nnp = nnp, !.filter = filter]
    /\ Own

Allow(nr) == <<[op |-> "jeq", k |-> nr, jt |-> 0, jf |-> 1], [op |-> "ret", k |-> "allow"]>>

Signal(k, jt) == [op |-> "jeq", k |-> k, jt |-> jt, jf |-> 0]

\* Mutant: the block for kill is one instruction longer than its jump says.
SmFilterShort ==
    <<[op |-> "ld", k |-> "nr"]>> \o Allow("read")
    \o <<[op |-> "jeq", k |-> "kill", jt |-> 0, jf |-> 6], [op |-> "ld", k |-> "sig"]>>
    \o <<Signal("TERM", 4), Signal("KILL", 3), Signal("CHLD", 2), Signal("0", 1),
         [op |-> "ret", k |-> "kill"], [op |-> "ret", k |-> "allow"]>>
    \o Allow("wait4") \o <<[op |-> "ret", k |-> "kill"]>>

\* The filter: a list of allowed calls, of which read stands for those
\* before the block that looks at the signal of a kill and wait4 for those
\* after it.
SmFilter ==
    <<[op |-> "ld", k |-> "nr"]>> \o Allow("read")
    \o <<[op |-> "jeq", k |-> "kill", jt |-> 0, jf |-> 7], [op |-> "ld", k |-> "sig"]>>
    \o <<Signal("TERM", 4), Signal("KILL", 3), Signal("CHLD", 2), Signal("0", 1),
         [op |-> "ret", k |-> "kill"], [op |-> "ret", k |-> "allow"]>>
    \o Allow("wait4") \o <<[op |-> "ret", k |-> "kill"]>>

\* A thread of the manager makes a system call, and the kernel runs the
\* filter on it.
SystemCall(nr, sig) ==
    /\ sm.at = "up" /\ call.pc = 0
    /\ call' = [nr |-> nr, sig |-> sig, pc |-> 1, acc |-> "none"]
    /\ UNCHANGED <<config, task, mgr, sm>>

RunFilter ==
    /\ call.pc > 0
    /\ LET i == SmFilter[call.pc] IN
          call' = CASE i.op = "ld"  -> [call EXCEPT !.pc = @ + 1, !.acc = call[i.k]]
                    [] i.op = "jeq" -> [call EXCEPT !.pc = @ + 1 + IF call.acc = i.k THEN i.jt ELSE i.jf]
                    [] i.op = "ret" -> [call EXCEPT !.pc = 0, !.acc = i.k]
    /\ UNCHANGED <<config, task, mgr, sm>>

ConfNext ==
    \/ SkipLayer \/ CleanUp
    \/ InitVerify \/ CreateCgroup \/ JoinCgroup \/ Unshare \/ Mount
    \/ DropBounding \/ NoNewPrivs \/ SetGroups \/ SetGid \/ KeepCaps \/ SetUid \/ SetCaps
    \/ OpenDevices \/ BuildFilter \/ LockPrivs \/ LoadFilter
    \/ \E limit \in {"NOFILE", "NPROC", "AS", "CORE"} : SetLimit(limit)
    \/ DropPrivileges \/ SetupSeccomp
    \/ \E nr \in {"read", "kill", "wait4", "other"}, sig \in {"TERM", "KILL", "CHLD", "0", "HUP"} : SystemCall(nr, sig)
    \/ RunFilter

ConfSpec == ConfInit /\ [][ConfNext]_confVars

-----------------------------------------------------------------------------
\* Properties.

ConfTypeOK ==
    /\ task.bounding \subseteq Caps /\ task.effective \subseteq task.permitted
    /\ task.fds \subseteq Devices
    /\ mgr.applied \subseteq Layers
    /\ call.pc \in 0 .. Len(SmFilter)

\* What the manager says is in force is: its flags never promise a layer the
\* kernel does not hold the process to, whichever step of another layer has
\* failed since.
ClaimsAreTrue ==
    /\ "sandbox" \in mgr.applied => task.ns /\ task.root = "sandbox"
    /\ "capabilities" \in mgr.applied =>
          /\ task.nnp /\ task.permitted = Permitted(config.policy) /\ task.effective = config.policy.required
          /\ "root" \notin {task.uid, task.gid, task.groups}
    /\ "seccomp" \in mgr.applied => task.nnp /\ task.filter
    /\ mgr.state = "FULLY_SECURED" => mgr.applied = Layers \ config.skip

\* The order works: a process that starts as root still has every privilege
\* a step needs when it comes to that step, and no filter is in force yet.
PrivilegedUntilDropped ==
    task.at \in {"cgroup", "join", "unshare", "mount", "bounding", "groups", "gid", "uid"} /\ config.user = "root" =>
        IsRoot(task) /\ ~task.filter

\* No device stays open in a process that goes on or ends.
DevicesClosed == task.at \in {"secured", "gone"} => task.fds = {}

\* The manager serves only with its own limits, its own user and the filter,
\* and the filter lets through exactly the calls on its list, a kill only
\* with the signals the manager sends.
ManagerConfined ==
    /\ sm.at = "up" => Cardinality(sm.limits) = 4 /\ sm.nnp /\ sm.filter /\ "root" \notin {sm.uid, sm.gid, sm.groups}
    /\ call.pc = 0 /\ call # NoCall =>
          (call.acc = "allow" <=> (call.nr \in {"read", "wait4"} \/ (call.nr = "kill" /\ call.sig # "HUP")))

\* What a confined process, or the manager, claims of itself is so
\* (security_manager.c, sm_security.c).
ConfinementSafe == ConfTypeOK /\ ClaimsAreTrue /\ PrivilegedUntilDropped /\ DevicesClosed /\ ManagerConfined
=============================================================================
