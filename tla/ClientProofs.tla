---------------------------- MODULE ClientProofs ----------------------------
(***************************************************************************)
(* The confinement of a process, the connection of a proxy and what the    *)
(* typed proxies are built from, proved for every set of capabilities,     *)
(* devices, callers, blocks, posters and regions, every size of the        *)
(* queues, and without a bound on sockets, requests, pushed messages,      *)
(* callbacks and frames.                                                   *)
(***************************************************************************)
EXTENDS Confinement, ProxyConnection, ProxyService, FiniteSetTheorems, SequenceTheorems, TLAPS

-----------------------------------------------------------------------------
(* Confinement.                                                            *)

\* The steps of security_manager_apply_all, and where it is over.
Starting  == {"verify", "cgroup", "join", "unshare", "mount"}
Dropping  == {"groups", "gid", "keepcaps", "uid"}
Filtering == {"devices", "build", "lock", "load"}
Over      == {"cleanup", "gone", "killed", "other"}
Steps     == Starting \cup {"bounding", "nnp"} \cup Dropping \cup {"capset"} \cup Filtering \cup {"secured"} \cup Over
Users     == {"root", "user", "service"}

\* The configuration does not change.
ConfigType == config \in [user : {"root", "user"}, skip : SUBSET Layers, policy : Policies, cgroup : BOOLEAN]

\* What the kernel holds of a process.
Processes ==
    [at : Steps, uid : Users, gid : Users, groups : Users, keep : BOOLEAN,
     bounding : SUBSET Caps, permitted : SUBSET Caps, effective : SUBSET Caps,
     nnp : BOOLEAN, ns : BOOLEAN, root : {"host", "sandbox"}, cgroup : {"none", "made", "joined"},
     fds : SUBSET Devices, ioctl : SUBSET Devices, filter : BOOLEAN]

\* A process never has an effective capability that is not permitted.
TaskType == 
    /\ task \in Processes /\ task.effective \subseteq task.permitted
    /\ mgr \in [state : Layers \cup {"UNINITIALIZED", "FULLY_SECURED"}, applied : SUBSET Layers]

\* The layers that lie behind the process, had none been skipped.
Behind(step) ==
    IF step = "verify" THEN {}
    ELSE IF step \in Starting THEN {"verify"}
    ELSE IF step \in {"bounding", "nnp", "capset"} \cup Dropping THEN {"verify", "sandbox"}
    ELSE IF step \in Filtering THEN {"verify", "sandbox", "capabilities"}
    ELSE Layers

\* The flags of the manager are the layers behind the process, and a step of a
\* layer is reached only if the layer is not skipped.
LayersInv ==
    /\ task.at \in Over => mgr = NoManager
    /\ task.at \notin Over => mgr.applied = Behind(task.at) \ config.skip
    /\ mgr.state = "FULLY_SECURED" => task.at = "secured"
    /\ task.at \in {"join", "unshare", "mount"} => "sandbox" \notin config.skip
    /\ task.at \in {"nnp", "capset"} \cup Dropping => "capabilities" \notin config.skip
    /\ task.at \in {"build", "lock", "load"} => "seccomp" \notin config.skip

\* Users, groups, privileges and devices at each step.
KernelInv ==
    /\ task.at \in Starting \cup {"bounding", "nnp"} =>
        task.uid = config.user /\ task.gid = config.user /\ task.groups = config.user
    /\ task.at \in Dropping => config.user = "root" /\ task.uid = "root"
    /\ task.at \in {"gid", "keepcaps", "uid"} => task.groups = "service"
    /\ task.at \in {"keepcaps", "uid"} => task.gid = "service"
    /\ task.at = "capset" => "root" \notin {task.uid, task.gid, task.groups}
    /\ task.at \in Dropping \cup {"capset", "load"} => task.nnp
    /\ task.at = "mount" => task.ns
    /\ task.at \in Starting \cup {"bounding", "nnp"} \cup Dropping /\ config.user = "root" => task.effective = Caps
    /\ task.at \in Starting \cup {"bounding", "nnp"} \cup Dropping => ~task.filter
    /\ task.at \notin {"build", "lock", "load", "cleanup", "killed"} => task.fds = {}

\* The service manager: its limits, then its user, then its filter.
Limits == {"NOFILE", "NPROC", "AS", "CORE"}
SmInv ==
    /\ sm \in [at : {"other", "limits", "drop", "filter", "up", "ended"}, uid : Users, gid : Users, groups : Users,
               limits : SUBSET Limits, nnp : BOOLEAN, filter : BOOLEAN]
    /\ sm.at = "limits" => Cardinality(sm.limits) <= 3
    /\ sm.at \in {"drop", "filter", "up"} => Cardinality(sm.limits) = 4
    /\ sm.at \in {"limits", "drop"} => sm.uid \in {"root", "user"} /\ sm.gid = sm.uid /\ sm.groups = sm.uid
    /\ sm.at \in {"filter", "up"} => "root" \notin {sm.uid, sm.gid, sm.groups}
    /\ sm.at = "up" => sm.nnp /\ sm.filter

Numbers == {"read", "kill", "wait4", "other"}
Signals == {"TERM", "KILL", "CHLD", "0", "HUP"}

\* What is known of a call when its filter is at an instruction.
CallInv ==
    /\ call \in [nr : Numbers \cup {"none"}, sig : Signals, pc : 0 .. 14,
                 acc : Numbers \cup Signals \cup {"none", "allow"}]
    /\ call.pc > 0 => call.nr # "none"
    /\ call.pc \in {2, 4, 12} => call.acc = call.nr
    /\ call.pc \in 6 .. 9 => call.acc = call.sig
    /\ call.pc = 3 => call.nr = "read"
    /\ call.pc = 4 => call.nr # "read"
    /\ call.pc \in 5 .. 11 => call.nr = "kill"
    /\ call.pc \in 7 .. 10 => call.sig # "TERM"
    /\ call.pc \in 8 .. 10 => call.sig # "KILL"
    /\ call.pc \in 9 .. 10 => call.sig # "CHLD"
    /\ call.pc = 10 => call.sig # "0"
    /\ call.pc = 11 => call.sig # "HUP"
    /\ call.pc = 12 => call.nr \notin {"read", "kill"}
    /\ call.pc = 13 => call.nr = "wait4"
    /\ call.pc = 14 => call.nr = "other"
    /\ call.pc = 0 /\ call # NoCall =>
          (call.acc = "allow" <=> (call.nr \in {"read", "wait4"} \/ (call.nr = "kill" /\ call.sig # "HUP")))

\* The inductive invariant of Confinement.
ConfInv == ConfigType /\ TaskType /\ LayersInv /\ KernelInv /\ ClaimsAreTrue /\ SmInv /\ CallInv

\* The filter of the service manager, instruction by instruction
\* (sm_setup_seccomp).
LEMMA FilterCode ==
    /\ Len(SmFilter) = 14
    /\ SmFilter[1] = [op |-> "ld", k |-> "nr"]
    /\ SmFilter[2] = [op |-> "jeq", k |-> "read", jt |-> 0, jf |-> 1]
    /\ SmFilter[3] = [op |-> "ret", k |-> "allow"]
    /\ SmFilter[4] = [op |-> "jeq", k |-> "kill", jt |-> 0, jf |-> 7]
    /\ SmFilter[5] = [op |-> "ld", k |-> "sig"]
    /\ SmFilter[6] = [op |-> "jeq", k |-> "TERM", jt |-> 4, jf |-> 0]
    /\ SmFilter[7] = [op |-> "jeq", k |-> "KILL", jt |-> 3, jf |-> 0]
    /\ SmFilter[8] = [op |-> "jeq", k |-> "CHLD", jt |-> 2, jf |-> 0]
    /\ SmFilter[9] = [op |-> "jeq", k |-> "0", jt |-> 1, jf |-> 0]
    /\ SmFilter[10] = [op |-> "ret", k |-> "kill"]
    /\ SmFilter[11] = [op |-> "ret", k |-> "allow"]
    /\ SmFilter[12] = [op |-> "jeq", k |-> "wait4", jt |-> 0, jf |-> 1]
    /\ SmFilter[13] = [op |-> "ret", k |-> "allow"]
    /\ SmFilter[14] = [op |-> "ret", k |-> "kill"]
BY DEF SmFilter, Allow, Signal

\* The registers of the filter's machine after an instruction.
LEMMA CallStep ==
    ASSUME NEW N, NEW S, NEW P, NEW A, NEW r \in [nr : N, sig : S, pc : P, acc : A],
           NEW pc \in P, NEW acc \in A,
           NEW q, q = [r EXCEPT !.pc = pc, !.acc = acc]
    PROVE  /\ q \in [nr : N, sig : S, pc : P, acc : A]
           /\ q.nr = r.nr /\ q.sig = r.sig /\ q.pc = pc /\ q.acc = acc
OBVIOUS

\* sm_setup_seccomp's program decides every call as its list says: one
\* instruction of it keeps what is known of the call.
LEMMA RunFilterKeeps ==
    ASSUME CallInv, RunFilter
    PROVE  CallInv'
<1> DEFINE i == SmFilter[call.pc]
           Acc == Numbers \cup Signals \cup {"none", "allow"}
           Pcs == 0 .. 14
           Goes(pc, acc) == call' \in [nr : Numbers \cup {"none"}, sig : Signals, pc : Pcs, acc : Acc]
                              /\ call'.nr = call.nr /\ call'.sig = call.sig /\ call'.pc = pc /\ call'.acc = acc
<1>1. call.pc \in 1 .. 14
  BY DEF CallInv, RunFilter
<1>2. /\ call \in [nr : Numbers \cup {"none"}, sig : Signals, pc : Pcs, acc : Acc]
      /\ call.nr \in Acc /\ call.sig \in Acc /\ call.acc \in Acc /\ "allow" \in Acc /\ "kill" \in Acc
  BY DEF CallInv, Numbers
<1>4. CASE i.op = "ld"
  <2>1. call.pc \in {1, 5} /\ i.k = IF call.pc = 1 THEN "nr" ELSE "sig"
    BY <1>1, <1>4, FilterCode
  <2>2. call' = [call EXCEPT !.pc = call.pc + 1, !.acc = call[i.k]]
    BY <1>4 DEF RunFilter
  <2>3. CASE call.pc = 1
    <3>1. call' = [call EXCEPT !.pc = 2, !.acc = call.nr]
      BY <2>1, <2>2, <2>3
    <3>2. Goes(2, call.nr)
      <4>1. 2 \in Pcs  OBVIOUS
      <4> HIDE DEF Acc, Pcs, i
      <4> QED  BY <1>2, <3>1, <4>1, CallStep
    <3> QED  BY <2>3, <3>2 DEF CallInv
  <2>4. CASE call.pc = 5
    <3>1. call' = [call EXCEPT !.pc = 6, !.acc = call.sig]
      BY <2>1, <2>2, <2>4
    <3>2. Goes(6, call.sig)
      <4>1. 6 \in Pcs  OBVIOUS
      <4> HIDE DEF Acc, Pcs, i
      <4> QED  BY <1>2, <3>1, <4>1, CallStep
    <3> QED  BY <2>4, <3>2 DEF CallInv
  <2> QED  BY <2>1, <2>3, <2>4
<1>5. CASE i.op = "jeq"
  <2>1. call.pc \in {2, 4, 6, 7, 8, 9, 12}
    BY <1>1, <1>5, FilterCode
  <2>2. call' = [call EXCEPT !.pc = @ + 1 + IF call.acc = i.k THEN i.jt ELSE i.jf]
    BY <1>5 DEF RunFilter
  <2>3. CASE call.pc \in {2, 4, 12}
    BY <2>2, <2>3, FilterCode, SMTT(20) DEF CallInv, Numbers, Signals, NoCall
  <2>4. CASE call.pc \in {6, 7, 8, 9}
    BY <2>2, <2>4, FilterCode, SMTT(20) DEF CallInv, Numbers, Signals, NoCall
  <2> QED  BY <2>1, <2>3, <2>4
<1>6. CASE i.op = "ret"
  <2>1. call.pc \in {3, 10, 11, 13, 14}
    BY <1>1, <1>6, FilterCode
  <2>2. call' = [call EXCEPT !.pc = 0, !.acc = i.k]
    BY <1>6 DEF RunFilter
  <2>3. CASE call.pc \in {3, 11, 13}
    <3>1. i.k = "allow"
      BY <2>3, FilterCode
    <3>2. Goes(0, "allow")
      <4>1. 0 \in Pcs  OBVIOUS
      <4> HIDE DEF Acc, Pcs, i
      <4> QED  BY <1>2, <2>2, <3>1, <4>1, CallStep
    <3> QED  BY <2>3, <3>2 DEF CallInv
  <2>4. CASE call.pc \in {10, 14}
    <3>1. i.k = "kill"
      BY <2>4, FilterCode
    <3>2. Goes(0, "kill")
      <4>1. 0 \in Pcs  OBVIOUS
      <4> HIDE DEF Acc, Pcs, i
      <4> QED  BY <1>2, <2>2, <3>1, <4>1, CallStep
    <3> QED  BY <2>4, <3>2 DEF CallInv, Signals
  <2> QED  BY <2>1, <2>3, <2>4
<1> QED
  BY <1>1, <1>4, <1>5, <1>6, FilterCode

\* The part of it that is about the service's process.
TaskInv == ConfigType /\ TaskType /\ LayersInv /\ KernelInv /\ ClaimsAreTrue

\* The label rollback of security_manager_apply_all: whatever has been done,
\* nothing is claimed of it.
LEMMA RollbackKeeps ==
    ASSUME ConfigType, UNCHANGED config,
           NEW t \in Processes, t.effective \subseteq t.permitted, Rollback(t)
    PROVE  TaskInv'
<1>1. /\ task' \in Processes /\ task'.at \in {"killed", "cleanup"}
      /\ task'.effective = t.effective /\ task'.permitted = t.permitted
  BY DEF Rollback, Processes, Steps, Over
<1>2. mgr' = NoManager
  BY DEF Rollback
<1>3. ConfigType' /\ TaskType'
  BY <1>1, <1>2 DEF ConfigType, TaskType, NoManager
<1>4. LayersInv' /\ KernelInv' /\ ClaimsAreTrue'
  BY <1>1, <1>2 DEF LayersInv, KernelInv, ClaimsAreTrue, NoManager, Over, Starting, Dropping
<1> QED  BY <1>3, <1>4 DEF TaskInv

\* sandbox_cgroup_destroy changes the cgroup of a process, or ends it.
LEMMA DestroyedType ==
    ASSUME NEW t \in Processes, t.effective \subseteq t.permitted, NEW u \in Destroyed(t)
    PROVE  u \in Processes /\ u.effective \subseteq u.permitted
BY DEF Destroyed, Processes, Steps, Over

\* security_verify_init: the key.
LEMMA InitVerifyKeeps ==
    ASSUME TaskInv, InitVerify
    PROVE  TaskInv'
<1> USE DEF TaskInv, TaskType, ConfigType, Over, Starting, Dropping, Filtering, Processes
<1>1. CASE Rollback(task)
  BY <1>1, RollbackKeeps DEF InitVerify, Mine
<1>2. CASE LayerApplied("verify", task)
  <2>1. ConfigType' /\ TaskType'
    BY <1>2 DEF InitVerify, Runs, Mine, Steps, LayerApplied, Following, Layers
  <2>2. LayersInv'
    BY <1>2, <2>1 DEF InitVerify, Runs, Mine, LayersInv, Behind, LayerApplied, Following, Layers
  <2>3. KernelInv'
    BY <1>2, <2>1 DEF InitVerify, Runs, Mine, KernelInv, LayerApplied, Following, Layers
  <2>4. ClaimsAreTrue'
    BY <1>2, <2>1 DEF InitVerify, Runs, Mine, ClaimsAreTrue, LayersInv, KernelInv, Behind, LayerApplied,
       Following, Layers
  <2> QED  BY <2>1, <2>2, <2>3, <2>4 DEF TaskInv
<1> QED  BY <1>1, <1>2 DEF InitVerify

\* sandbox_cgroup_create.
LEMMA CreateCgroupKeeps ==
    ASSUME TaskInv, CreateCgroup
    PROVE  TaskInv'
<1> USE DEF TaskInv, TaskType, ConfigType, Over, Starting, Dropping, Filtering, Processes
<1>1. CASE Rollback(task)
  BY <1>1, RollbackKeeps DEF CreateCgroup, Mine
<1>2. CASE Go("unshare")
  <2>1. ConfigType' /\ TaskType'
    BY <1>2 DEF CreateCgroup, Runs, Mine, Steps, Go
  <2>2. LayersInv'
    BY <1>2, <2>1 DEF CreateCgroup, Runs, Mine, LayersInv, Behind, Go
  <2>3. KernelInv'
    BY <1>2, <2>1 DEF CreateCgroup, Runs, Mine, KernelInv, IsRoot, Go
  <2>4. ClaimsAreTrue'
    BY <1>2, <2>1 DEF CreateCgroup, Runs, Mine, ClaimsAreTrue, LayersInv, KernelInv, Behind, Go
  <2> QED  BY <2>1, <2>2, <2>3, <2>4 DEF TaskInv
<1>3. CASE task' = [task EXCEPT !.at = "join", !.cgroup = "made"] /\ UNCHANGED mgr
  <2>1. ConfigType' /\ TaskType'
    BY <1>3 DEF CreateCgroup, Runs, Mine, Steps
  <2>2. LayersInv'
    BY <1>3, <2>1 DEF CreateCgroup, Runs, Mine, LayersInv, Behind
  <2>3. KernelInv'
    BY <1>3, <2>1 DEF CreateCgroup, Runs, Mine, KernelInv, IsRoot
  <2>4. ClaimsAreTrue'
    BY <1>3, <2>1 DEF CreateCgroup, Runs, Mine, ClaimsAreTrue, LayersInv, KernelInv, Behind
  <2> QED  BY <2>1, <2>2, <2>3, <2>4 DEF TaskInv
<1> QED  BY <1>1, <1>2, <1>3 DEF CreateCgroup

\* The process joins its cgroup.
LEMMA JoinCgroupKeeps ==
    ASSUME TaskInv, JoinCgroup
    PROVE  TaskInv'
<1> USE DEF TaskInv, TaskType, ConfigType, Over, Starting, Dropping, Filtering, Processes
<1>1. CASE \E t \in Destroyed(task) : Rollback(t)
  BY <1>1, DestroyedType, RollbackKeeps DEF JoinCgroup, Mine
<1>2. CASE task' = [task EXCEPT !.at = "unshare", !.cgroup = "joined"] /\ UNCHANGED mgr
  <2>1. ConfigType' /\ TaskType'
    BY <1>2 DEF JoinCgroup, Mine, Steps
  <2>2. LayersInv'
    BY <1>2, <2>1 DEF JoinCgroup, Mine, LayersInv, Behind
  <2>3. KernelInv'
    BY <1>2, <2>1 DEF JoinCgroup, Mine, KernelInv
  <2>4. ClaimsAreTrue'
    BY <1>2, <2>1 DEF JoinCgroup, Mine, ClaimsAreTrue, LayersInv, KernelInv, Behind
  <2> QED  BY <2>1, <2>2, <2>3, <2>4 DEF TaskInv
<1> QED  BY <1>1, <1>2 DEF JoinCgroup

\* sandbox_core_apply_namespaces.
LEMMA UnshareKeeps ==
    ASSUME TaskInv, Unshare
    PROVE  TaskInv'
<1> USE DEF TaskInv, TaskType, ConfigType, Over, Starting, Dropping, Filtering, Processes
<1>1. CASE \E t \in Destroyed(task) : Rollback(t)
  BY <1>1, DestroyedType, RollbackKeeps DEF Unshare, Mine
<1>2. CASE task' = [task EXCEPT !.at = "mount", !.ns = TRUE] /\ UNCHANGED mgr
  <2>1. ConfigType' /\ TaskType'
    BY <1>2 DEF Unshare, Mine, Steps
  <2>2. LayersInv'
    BY <1>2, <2>1 DEF Unshare, Mine, LayersInv, Behind
  <2>3. KernelInv'
    BY <1>2, <2>1 DEF Unshare, Mine, KernelInv, IsRoot
  <2>4. ClaimsAreTrue'
    BY <1>2, <2>1 DEF Unshare, Mine, ClaimsAreTrue, LayersInv, KernelInv, Behind
  <2> QED  BY <2>1, <2>2, <2>3, <2>4 DEF TaskInv
<1> QED  BY <1>1, <1>2 DEF Unshare

\* sandbox_mount_setup_filesystem.
LEMMA MountKeeps ==
    ASSUME TaskInv, Mount
    PROVE  TaskInv'
<1> USE DEF TaskInv, TaskType, ConfigType, Over, Starting, Dropping, Filtering, Processes
<1>1. CASE \E t \in Destroyed(task) \cup {[task EXCEPT !.root = "sandbox"]} : Rollback(t)
  <2>1. [task EXCEPT !.root = "sandbox"] \in Processes
    OBVIOUS
  <2> QED  BY <1>1, <2>1, DestroyedType, RollbackKeeps DEF Mount, Mine
<1>2. CASE LayerApplied("sandbox", [task EXCEPT !.root = "sandbox"])
  <2>1. ConfigType' /\ TaskType'
    BY <1>2 DEF Mount, Mine, Steps, LayerApplied, Following, Layers
  <2>2. LayersInv'
    BY <1>2, <2>1 DEF Mount, Mine, LayersInv, Behind, LayerApplied, Following, Layers
  <2>3. KernelInv'
    BY <1>2, <2>1 DEF Mount, Mine, KernelInv, LayerApplied, Following, Layers
  <2>4. ClaimsAreTrue'
    BY <1>2, <2>1 DEF Mount, Mine, ClaimsAreTrue, LayersInv, KernelInv, Behind, LayerApplied, Following, Layers
  <2> QED  BY <2>1, <2>2, <2>3, <2>4 DEF TaskInv
<1> QED  BY <1>1, <1>2 DEF Mount

\* set_capability_bounding_set.
LEMMA DropBoundingKeeps ==
    ASSUME TaskInv, DropBounding
    PROVE  TaskInv'
<1> USE DEF TaskInv, TaskType, ConfigType, Over, Starting, Dropping, Filtering, Processes
<1>1. ConfigType' /\ TaskType'
  BY DEF DropBounding, Runs, Mine, Steps, Permitted, Policies
<1>2. LayersInv'
  BY <1>1 DEF DropBounding, Runs, Mine, LayersInv, Behind, Permitted, Policies
<1>3. KernelInv'
  BY <1>1 DEF DropBounding, Runs, Mine, KernelInv, IsRoot, Permitted, Policies
<1>4. ClaimsAreTrue'
  BY <1>1 DEF DropBounding, Runs, Mine, ClaimsAreTrue, LayersInv, KernelInv, Behind, Permitted, Policies
<1> QED  BY <1>1, <1>2, <1>3, <1>4 DEF TaskInv

\* PR_SET_NO_NEW_PRIVS.
LEMMA NoNewPrivsKeeps ==
    ASSUME TaskInv, NoNewPrivs
    PROVE  TaskInv'
<1> USE DEF TaskInv, TaskType, ConfigType, Over, Starting, Dropping, Filtering, Processes
<1>1. CASE Rollback(task)
  BY <1>1, RollbackKeeps DEF NoNewPrivs, Mine
<1>2. CASE task' = [task EXCEPT !.at = IF task.uid = "root" THEN "groups" ELSE "capset", !.nnp = TRUE] /\ UNCHANGED mgr
  <2>1. ConfigType' /\ TaskType'
    BY <1>2 DEF NoNewPrivs, Mine, Steps
  <2>2. LayersInv'
    BY <1>2, <2>1 DEF NoNewPrivs, Mine, LayersInv, Behind
  <2>3. KernelInv'
    BY <1>2, <2>1 DEF NoNewPrivs, Mine, KernelInv
  <2>4. ClaimsAreTrue'
    BY <1>2, <2>1 DEF NoNewPrivs, Mine, ClaimsAreTrue, LayersInv, KernelInv, Behind
  <2> QED  BY <2>1, <2>2, <2>3, <2>4 DEF TaskInv
<1> QED  BY <1>1, <1>2 DEF NoNewPrivs

\* setgroups.
LEMMA SetGroupsKeeps ==
    ASSUME TaskInv, SetGroups
    PROVE  TaskInv'
<1> USE DEF TaskInv, TaskType, ConfigType, Over, Starting, Dropping, Filtering, Processes
<1>1. CASE Rollback(task)
  BY <1>1, RollbackKeeps DEF SetGroups, Mine
<1>2. CASE task' = [task EXCEPT !.at = "gid", !.groups = "service"] /\ UNCHANGED mgr
  <2>1. ConfigType' /\ TaskType'
    BY <1>2 DEF SetGroups, Mine, Steps, Users
  <2>2. LayersInv'
    BY <1>2, <2>1 DEF SetGroups, Mine, LayersInv, Behind, Users
  <2>3. KernelInv'
    BY <1>2, <2>1 DEF SetGroups, Mine, KernelInv, IsRoot, Users
  <2>4. ClaimsAreTrue'
    BY <1>2, <2>1 DEF SetGroups, Mine, ClaimsAreTrue, LayersInv, KernelInv, Behind, Users
  <2> QED  BY <2>1, <2>2, <2>3, <2>4 DEF TaskInv
<1> QED  BY <1>1, <1>2 DEF SetGroups

\* setgid.
LEMMA SetGidKeeps ==
    ASSUME TaskInv, SetGid
    PROVE  TaskInv'
<1> USE DEF TaskInv, TaskType, ConfigType, Over, Starting, Dropping, Filtering, Processes
<1>1. CASE Rollback(task)
  BY <1>1, RollbackKeeps DEF SetGid, Mine
<1>2. CASE task' = [task EXCEPT !.at = "keepcaps", !.gid = "service"] /\ UNCHANGED mgr
  <2>1. ConfigType' /\ TaskType'
    BY <1>2 DEF SetGid, Mine, Steps, Users
  <2>2. LayersInv'
    BY <1>2, <2>1 DEF SetGid, Mine, LayersInv, Behind, Users
  <2>3. KernelInv'
    BY <1>2, <2>1 DEF SetGid, Mine, KernelInv, IsRoot, Users
  <2>4. ClaimsAreTrue'
    BY <1>2, <2>1 DEF SetGid, Mine, ClaimsAreTrue, LayersInv, KernelInv, Behind, Users
  <2> QED  BY <2>1, <2>2, <2>3, <2>4 DEF TaskInv
<1> QED  BY <1>1, <1>2 DEF SetGid

\* PR_SET_KEEPCAPS.
LEMMA KeepCapsKeeps ==
    ASSUME TaskInv, KeepCaps
    PROVE  TaskInv'
<1> USE DEF TaskInv, TaskType, ConfigType, Over, Starting, Dropping, Filtering, Processes
<1>1. CASE Rollback(task)
  BY <1>1, RollbackKeeps DEF KeepCaps, Mine
<1>2. CASE task' = [task EXCEPT !.at = "uid", !.keep = TRUE] /\ UNCHANGED mgr
  <2>1. ConfigType' /\ TaskType'
    BY <1>2 DEF KeepCaps, Mine, Steps
  <2>2. LayersInv'
    BY <1>2, <2>1 DEF KeepCaps, Mine, LayersInv, Behind
  <2>3. KernelInv'
    BY <1>2, <2>1 DEF KeepCaps, Mine, KernelInv
  <2>4. ClaimsAreTrue'
    BY <1>2, <2>1 DEF KeepCaps, Mine, ClaimsAreTrue, LayersInv, KernelInv, Behind
  <2> QED  BY <2>1, <2>2, <2>3, <2>4 DEF TaskInv
<1> QED  BY <1>1, <1>2 DEF KeepCaps

\* setuid.
LEMMA SetUidKeeps ==
    ASSUME TaskInv, SetUid
    PROVE  TaskInv'
<1> USE DEF TaskInv, TaskType, ConfigType, Over, Starting, Dropping, Filtering, Processes
<1>1. CASE Rollback(task)
  BY <1>1, RollbackKeeps DEF SetUid, Mine
<1>2. CASE task' = [Setuid(task) EXCEPT !.at = "capset"] /\ UNCHANGED mgr
  <2>0. PICK kept \in SUBSET task.permitted :
           task' = [task EXCEPT !.uid = "service", !.effective = {}, !.permitted = kept, !.keep = FALSE, !.at = "capset"]
    <3>1. CASE task.keep
      <4> QED  BY <1>2, <3>1 DEF Setuid
    <3>2. CASE ~task.keep
      <4>1. {} \in SUBSET task.permitted
        OBVIOUS
      <4> QED  BY <1>2, <3>2, <4>1 DEF Setuid
    <3> QED  BY <3>1, <3>2
  <2>1. ConfigType' /\ TaskType'
    <3>1. kept \in SUBSET Caps /\ UNCHANGED <<config, mgr>>
      BY <1>2 DEF SetUid, Mine
    <3> QED  BY <2>0, <3>1, ZenonT(60) DEF Steps, Users
  <2>2. LayersInv'
    BY <1>2, <2>1 DEF SetUid, Mine, LayersInv, Behind, Setuid, Users
  <2>3. KernelInv'
    BY <1>2, <2>1 DEF SetUid, Mine, KernelInv, IsRoot, Setuid, Users
  <2>4. ClaimsAreTrue'
    BY <1>2, <2>1 DEF SetUid, Mine, ClaimsAreTrue, LayersInv, KernelInv, Behind, Setuid, Users
  <2> QED  BY <2>1, <2>2, <2>3, <2>4 DEF TaskInv
<1> QED  BY <1>1, <1>2 DEF SetUid

\* set_caps_full.
LEMMA SetCapsKeeps ==
    ASSUME TaskInv, SetCaps
    PROVE  TaskInv'
<1> USE DEF TaskInv, TaskType, ConfigType, Over, Starting, Dropping, Filtering, Processes
<1>1. CASE Rollback(task)
  BY <1>1, RollbackKeeps DEF SetCaps, Mine
<1>2. CASE LayerApplied("capabilities", [task EXCEPT !.permitted = Permitted(config.policy),
                                                !.effective = config.policy.required])
  <2>1. ConfigType' /\ TaskType'
    BY <1>2 DEF SetCaps, Mine, Steps, LayerApplied, Following, Layers, Permitted, Policies
  <2>2. LayersInv'
    BY <1>2, <2>1 DEF SetCaps, Mine, LayersInv, Behind, LayerApplied, Following, Layers, Permitted, Policies
  <2>3. KernelInv'
    BY <1>2, <2>1 DEF SetCaps, Mine, KernelInv, LayerApplied, Following, Layers, Permitted, Policies
  <2>4. ClaimsAreTrue'
    BY <1>2, <2>1 DEF SetCaps, Mine, ClaimsAreTrue, LayersInv, KernelInv, Behind, LayerApplied, Following,
       Layers, Permitted, Policies
  <2> QED  BY <2>1, <2>2, <2>3, <2>4 DEF TaskInv
<1> QED  BY <1>1, <1>2 DEF SetCaps

\* seccomp_core_setup_device_fds.
LEMMA OpenDevicesKeeps ==
    ASSUME TaskInv, OpenDevices
    PROVE  TaskInv'
<1> USE DEF TaskInv, TaskType, ConfigType, Over, Starting, Dropping, Filtering, Processes
<1>1. PICK opened \in SUBSET Devices : task' = [task EXCEPT !.at = "build", !.fds = opened]
  BY DEF OpenDevices
<1>2. UNCHANGED <<config, mgr>> /\ task.at = "devices" /\ "seccomp" \notin config.skip
  BY DEF OpenDevices, Mine, Runs
<1>3. ConfigType' /\ TaskType'
  BY <1>1, <1>2 DEF Steps
<1>4. LayersInv'
  BY <1>1, <1>2, <1>3 DEF LayersInv, Behind
<1>5. KernelInv'
  BY <1>1, <1>2, <1>3 DEF KernelInv
<1>6. ClaimsAreTrue'
  BY <1>1, <1>2, <1>3 DEF ClaimsAreTrue, LayersInv, KernelInv, Behind
<1> QED  BY <1>3, <1>4, <1>5, <1>6 DEF TaskInv

\* The rules of the filter.
LEMMA BuildFilterKeeps ==
    ASSUME TaskInv, BuildFilter
    PROVE  TaskInv'
<1> USE DEF TaskInv, TaskType, ConfigType, Over, Starting, Dropping, Filtering, Processes
<1>1. CASE Rollback(task)
  BY <1>1, RollbackKeeps DEF BuildFilter, Mine
<1>2. CASE task' = [task EXCEPT !.at = "lock", !.ioctl = IF task.fds = {} THEN Devices ELSE task.fds] /\ UNCHANGED mgr
  <2> DEFINE named == IF task.fds = {} THEN Devices ELSE task.fds
  <2>a. named \in SUBSET Devices
    OBVIOUS
  <2>b. task' = [task EXCEPT !.at = "lock", !.ioctl = named]
    BY <1>2
  <2>c. UNCHANGED <<config, mgr>> /\ task.at = "build"
    BY <1>2 DEF BuildFilter, Mine
  <2> HIDE DEF named
  <2>1. ConfigType' /\ TaskType'
    BY <2>a, <2>b, <2>c DEF Steps
  <2>2. LayersInv'
    BY <2>b, <2>c, <2>1 DEF LayersInv, Behind
  <2>3. KernelInv'
    BY <2>b, <2>c, <2>1 DEF KernelInv
  <2>4. ClaimsAreTrue'
    BY <2>b, <2>c, <2>1 DEF ClaimsAreTrue, LayersInv, KernelInv, Behind
  <2> QED  BY <2>1, <2>2, <2>3, <2>4 DEF TaskInv
<1> QED  BY <1>1, <1>2 DEF BuildFilter

\* PR_SET_NO_NEW_PRIVS again.
LEMMA LockPrivsKeeps ==
    ASSUME TaskInv, LockPrivs
    PROVE  TaskInv'
<1> USE DEF TaskInv, TaskType, ConfigType, Over, Starting, Dropping, Filtering, Processes
<1>1. CASE Rollback(task)
  BY <1>1, RollbackKeeps DEF LockPrivs, Mine
<1>2. CASE task' = [task EXCEPT !.at = "load", !.nnp = TRUE] /\ UNCHANGED mgr
  <2>1. ConfigType' /\ TaskType'
    BY <1>2 DEF LockPrivs, Mine, Steps
  <2>2. LayersInv'
    BY <1>2, <2>1 DEF LockPrivs, Mine, LayersInv, Behind
  <2>3. KernelInv'
    BY <1>2, <2>1 DEF LockPrivs, Mine, KernelInv
  <2>4. ClaimsAreTrue'
    BY <1>2, <2>1 DEF LockPrivs, Mine, ClaimsAreTrue, LayersInv, KernelInv, Behind
  <2> QED  BY <2>1, <2>2, <2>3, <2>4 DEF TaskInv
<1> QED  BY <1>1, <1>2 DEF LockPrivs

\* seccomp_load.
LEMMA LoadFilterKeeps ==
    ASSUME TaskInv, LoadFilter
    PROVE  TaskInv'
<1> USE DEF TaskInv, TaskType, ConfigType, Over, Starting, Dropping, Filtering, Processes
<1>1. CASE Rollback([task EXCEPT !.fds = {}])
  <2>1. [task EXCEPT !.fds = {}] \in Processes
    OBVIOUS
  <2> QED  BY <1>1, <2>1, RollbackKeeps DEF LoadFilter, Mine
<1>2. CASE LayerApplied("seccomp", [task EXCEPT !.filter = TRUE, !.fds = {}])
  <2>1. ConfigType' /\ TaskType'
    BY <1>2 DEF LoadFilter, Mine, Steps, LayerApplied, Following, Layers
  <2>2. LayersInv'
    BY <1>2, <2>1 DEF LoadFilter, Mine, LayersInv, Behind, LayerApplied, Following, Layers
  <2>3. KernelInv'
    BY <1>2, <2>1 DEF LoadFilter, Mine, KernelInv, LayerApplied, Following, Layers
  <2>4. ClaimsAreTrue'
    BY <1>2, <2>1 DEF LoadFilter, Mine, ClaimsAreTrue, LayersInv, KernelInv, Behind, LayerApplied, Following, Layers
  <2> QED  BY <2>1, <2>2, <2>3, <2>4 DEF TaskInv
<1> QED  BY <1>1, <1>2 DEF LoadFilter

\* security_manager_cleanup.
LEMMA CleanUpKeeps ==
    ASSUME TaskInv, CleanUp
    PROVE  TaskInv'
<1> USE DEF TaskInv, TaskType, ConfigType, Over, Starting, Dropping, Filtering, Processes
<1>1. ConfigType' /\ TaskType'
  BY DEF CleanUp, Mine, Steps, Cleanup
<1>2. LayersInv'
  BY <1>1 DEF CleanUp, Mine, LayersInv, Behind, Cleanup
<1>3. KernelInv'
  BY <1>1 DEF CleanUp, Mine, KernelInv, Cleanup
<1>4. ClaimsAreTrue'
  BY <1>1 DEF CleanUp, Mine, ClaimsAreTrue, LayersInv, KernelInv, Behind, Cleanup
<1> QED  BY <1>1, <1>2, <1>3, <1>4 DEF TaskInv

\* A layer the configuration skips.
LEMMA SkipLayerKeeps ==
    ASSUME TaskInv, SkipLayer
    PROVE  TaskInv'
<1> USE DEF TaskInv, TaskType, ConfigType, Over, Starting, Dropping, Filtering, Processes
<1>1. PICK layer \in config.skip :
         /\ task.at = First[layer]
         /\ task' = [task EXCEPT !.at = Following[layer]]
         /\ mgr' = IF layer = "seccomp" THEN [mgr EXCEPT !.state = "FULLY_SECURED"] ELSE mgr
  BY DEF SkipLayer
<1>2. layer \in {"verify", "sandbox", "capabilities", "seccomp"}
  BY DEF Layers
<1>3. UNCHANGED config
  BY DEF SkipLayer, Mine
<1>4. ConfigType' /\ TaskType'
  BY <1>1, <1>2, <1>3 DEF First, Following, Steps
<1>5. LayersInv'
  BY <1>1, <1>2, <1>3, <1>4 DEF First, Following, LayersInv, Behind, Layers
<1>6. KernelInv'
  BY <1>1, <1>2, <1>3, <1>4 DEF First, Following, KernelInv
<1>7. ClaimsAreTrue'
  BY <1>1, <1>2, <1>3, <1>4, <1>5 DEF First, Following, ClaimsAreTrue, LayersInv, Behind, Layers
<1> QED  BY <1>4, <1>5, <1>6, <1>7 DEF TaskInv

\* The limits, the user and the filter of the service manager, in that order
\* (sm_set_resource_limits, sm_drop_privileges, sm_setup_seccomp).
LEMMA ManagerKeeps ==
    ASSUME SmInv, (\E limit \in Limits : SetLimit(limit)) \/ DropPrivileges \/ SetupSeccomp
    PROVE  SmInv'
<1>1. ASSUME NEW limit \in Limits, SetLimit(limit)  PROVE SmInv'
  <2>1. IsFiniteSet(sm.limits) /\ Cardinality(sm.limits) \in Nat
    <3>1. sm.limits \subseteq Limits
      BY DEF SmInv
    <3>2. IsFiniteSet(Limits)
      <4>1. IsFiniteSet({"NOFILE"}) /\ IsFiniteSet({"NPROC"}) /\ IsFiniteSet({"AS"}) /\ IsFiniteSet({"CORE"})
        BY FS_Singleton
      <4>2. IsFiniteSet({"NOFILE"} \cup {"NPROC"}) /\ IsFiniteSet({"AS"} \cup {"CORE"})
        BY <4>1, FS_Union
      <4>3. IsFiniteSet(({"NOFILE"} \cup {"NPROC"}) \cup ({"AS"} \cup {"CORE"}))
        BY <4>2, FS_Union
      <4>4. Limits = ({"NOFILE"} \cup {"NPROC"}) \cup ({"AS"} \cup {"CORE"})
        BY DEF Limits
      <4> QED  BY <4>3, <4>4
    <3> QED  BY <3>1, <3>2, FS_Subset, FS_CardinalityType
  <2>2. limit \notin sm.limits /\ sm.at = "limits"
    BY <1>1 DEF SetLimit
  <2>3. Cardinality(sm.limits \cup {limit}) = Cardinality(sm.limits) + 1
    BY <2>1, <2>2, FS_AddElement
  <2>4. CASE sm' = [sm EXCEPT !.at = "ended"]
    BY <2>4 DEF SmInv
  <2>5. CASE sm' = [sm EXCEPT !.limits = sm.limits \cup {limit},
                            !.at = IF Cardinality(sm.limits) = 3 THEN "drop" ELSE sm.at]
    <3> DEFINE more == sm.limits \cup {limit}
    <3>1. more \in SUBSET Limits
      BY <1>1 DEF SmInv
    <3>2. Cardinality(more) = Cardinality(sm.limits) + 1
      BY <2>3
    <3> HIDE DEF more
    <3>3. sm' = [sm EXCEPT !.limits = more, !.at = IF Cardinality(sm.limits) = 3 THEN "drop" ELSE sm.at]
      BY <2>5 DEF more
    <3>4. CASE Cardinality(sm.limits) = 3
      <4>1. sm' = [sm EXCEPT !.limits = more, !.at = "drop"]
        BY <3>3, <3>4
      <4>2. Cardinality(more) = 4
        BY <3>2, <3>4
      <4> QED  BY <2>2, <3>1, <4>1, <4>2 DEF SmInv
    <3>5. CASE Cardinality(sm.limits) # 3
      <4>1. sm' = [sm EXCEPT !.limits = more, !.at = "limits"]
        BY <2>2, <3>3, <3>5
      <4>2. Cardinality(more) <= 3
        BY <2>1, <2>2, <3>2, <3>5 DEF SmInv
      <4> QED  BY <2>2, <3>1, <4>1, <4>2 DEF SmInv
    <3> QED  BY <3>4, <3>5
  <2> QED  BY <1>1, <2>4, <2>5 DEF SetLimit
<1>2. CASE DropPrivileges
  BY <1>2 DEF DropPrivileges, SmInv, Users
<1>3. CASE SetupSeccomp
  <2>1. PICK nnp, filter \in BOOLEAN :
           /\ filter => nnp
           /\ sm' = [sm EXCEPT !.at = IF filter THEN "up" ELSE "ended", !.nnp = nnp, !.filter = filter]
    BY <1>3 DEF SetupSeccomp
  <2>2. sm.at = "filter"
    BY <1>3 DEF SetupSeccomp
  <2>3. CASE filter
    <3>1. sm' = [sm EXCEPT !.at = "up", !.nnp = TRUE, !.filter = TRUE]
      BY <2>1, <2>3
    <3> QED  BY <2>2, <3>1 DEF SmInv
  <2>4. CASE ~filter
    BY <2>1, <2>2, <2>4 DEF SmInv
  <2> QED  BY <2>3, <2>4
<1> QED  BY <1>1, <1>2, <1>3

\* A process starts with nothing given up and nothing claimed.
LEMMA ConfInitially == ConfInit => ConfInv
<1> SUFFICES ASSUME ConfInit PROVE ConfInv
  OBVIOUS
<1>1. PICK manager \in BOOLEAN :
         /\ task = [Confined(config.user) EXCEPT !.at = IF manager THEN "other" ELSE @]
         /\ sm = [at |-> IF manager THEN "limits" ELSE "other", uid |-> config.user, gid |-> config.user,
                  groups |-> config.user, limits |-> {}, nnp |-> FALSE, filter |-> FALSE]
  BY DEF ConfInit
<1>2. ConfigType /\ mgr = NoManager /\ call = NoCall
  BY DEF ConfInit, ConfigType
<1>3. TaskType
  BY <1>1, <1>2 DEF TaskType, ConfigType, Confined, NoManager, Processes, Steps, Starting, Over, Users
<1>4. LayersInv /\ KernelInv /\ ClaimsAreTrue
  BY <1>1, <1>2 DEF LayersInv, KernelInv, ClaimsAreTrue, ConfigType, Confined, NoManager, Behind,
                    Starting, Dropping, Filtering, Over
<1>5. SmInv
  BY <1>1, <1>2, FS_EmptySet DEF SmInv, ConfigType, Users
<1>6. CallInv
  BY <1>2 DEF CallInv, NoCall, Numbers, Signals
<1> QED  BY <1>2, <1>3, <1>4, <1>5, <1>6 DEF ConfInv

\* A step of the service, of the manager or of the kernel keeps what is known.
LEMMA ConfStep == ConfInv /\ [ConfNext]_confVars => ConfInv'
<1> SUFFICES ASSUME ConfInv, [ConfNext]_confVars PROVE ConfInv'
  OBVIOUS
<1>0. TaskInv /\ SmInv /\ CallInv
  BY DEF ConfInv, TaskInv
<1>1. ASSUME TaskInv', UNCHANGED <<sm, call>>  PROVE ConfInv'
  BY <1>0, <1>1 DEF ConfInv, TaskInv, SmInv, CallInv
<1>2. ASSUME SmInv', UNCHANGED <<config, task, mgr, call>>  PROVE ConfInv'
  BY <1>0, <1>2 DEF ConfInv, TaskInv, CallInv, ConfigType, TaskType, LayersInv, KernelInv, ClaimsAreTrue
<1>3. ASSUME CallInv', UNCHANGED <<config, task, mgr, sm>>  PROVE ConfInv'
  BY <1>0, <1>3 DEF ConfInv, TaskInv, SmInv, ConfigType, TaskType, LayersInv, KernelInv, ClaimsAreTrue
<1>4. CASE SkipLayer
  BY <1>0, <1>1, <1>4, SkipLayerKeeps DEF SkipLayer, Mine
<1>5. CASE CleanUp
  BY <1>0, <1>1, <1>5, CleanUpKeeps DEF CleanUp, Mine
<1>6. CASE InitVerify
  BY <1>0, <1>1, <1>6, InitVerifyKeeps DEF InitVerify, Mine
<1>7. CASE CreateCgroup
  BY <1>0, <1>1, <1>7, CreateCgroupKeeps DEF CreateCgroup, Mine
<1>8. CASE JoinCgroup
  BY <1>0, <1>1, <1>8, JoinCgroupKeeps DEF JoinCgroup, Mine
<1>9. CASE Unshare
  BY <1>0, <1>1, <1>9, UnshareKeeps DEF Unshare, Mine
<1>10. CASE Mount
  BY <1>0, <1>1, <1>10, MountKeeps DEF Mount, Mine
<1>11. CASE DropBounding
  BY <1>0, <1>1, <1>11, DropBoundingKeeps DEF DropBounding, Mine
<1>12. CASE NoNewPrivs
  BY <1>0, <1>1, <1>12, NoNewPrivsKeeps DEF NoNewPrivs, Mine
<1>13. CASE SetGroups
  BY <1>0, <1>1, <1>13, SetGroupsKeeps DEF SetGroups, Mine
<1>14. CASE SetGid
  BY <1>0, <1>1, <1>14, SetGidKeeps DEF SetGid, Mine
<1>15. CASE KeepCaps
  BY <1>0, <1>1, <1>15, KeepCapsKeeps DEF KeepCaps, Mine
<1>16. CASE SetUid
  BY <1>0, <1>1, <1>16, SetUidKeeps DEF SetUid, Mine
<1>17. CASE SetCaps
  BY <1>0, <1>1, <1>17, SetCapsKeeps DEF SetCaps, Mine
<1>18. CASE OpenDevices
  BY <1>0, <1>1, <1>18, OpenDevicesKeeps DEF OpenDevices, Mine
<1>19. CASE BuildFilter
  BY <1>0, <1>1, <1>19, BuildFilterKeeps DEF BuildFilter, Mine
<1>20. CASE LockPrivs
  BY <1>0, <1>1, <1>20, LockPrivsKeeps DEF LockPrivs, Mine
<1>21. CASE LoadFilter
  BY <1>0, <1>1, <1>21, LoadFilterKeeps DEF LoadFilter, Mine
<1>22. CASE (\E limit \in Limits : SetLimit(limit)) \/ DropPrivileges \/ SetupSeccomp
  BY <1>0, <1>2, <1>22, ManagerKeeps DEF SetLimit, DropPrivileges, SetupSeccomp, Own
<1>23. ASSUME NEW nr \in Numbers, NEW sig \in Signals, SystemCall(nr, sig)  PROVE ConfInv'
  <2>1. CallInv'
    BY <1>0, <1>23 DEF SystemCall, CallInv, Numbers
  <2> QED  BY <1>3, <1>23, <2>1 DEF SystemCall
<1>24. CASE RunFilter
  BY <1>0, <1>3, <1>24, RunFilterKeeps DEF RunFilter
<1>25. CASE UNCHANGED confVars
  BY <1>0, <1>2, <1>25 DEF confVars, SmInv
<1> QED
  BY <1>4, <1>5, <1>6, <1>7, <1>8, <1>9, <1>10, <1>11, <1>12, <1>13, <1>14, <1>15, <1>16, <1>17, <1>18,
     <1>19, <1>20, <1>21, <1>22, <1>23, <1>24, <1>25 DEF ConfNext, Limits, Numbers, Signals

\* What is known at each step is enough for the properties.
LEMMA ConfInvSafe == ConfInv => ConfinementSafe
<1> SUFFICES ASSUME ConfInv PROVE ConfinementSafe
  OBVIOUS
<1>1. ConfTypeOK
  BY FilterCode DEF ConfInv, ConfTypeOK, TaskType, Processes, CallInv
<1>2. PrivilegedUntilDropped /\ DevicesClosed
  BY DEF ConfInv, PrivilegedUntilDropped, DevicesClosed, KernelInv, IsRoot, Starting, Dropping
<1>3. ManagerConfined
  BY DEF ConfInv, ManagerConfined, SmInv, CallInv
<1> QED  BY <1>1, <1>2, <1>3 DEF ConfInv, ConfinementSafe

\* Whatever layers a service skips, whatever its policy asks for and whichever
\* step fails, security_manager_apply_all claims no layer the kernel does not
\* hold, and a process that starts as root has every privilege a step needs
\* when it comes to it; the service manager serves only behind its limits,
\* its user and a filter that decides every call as its list says.
THEOREM ConfinementCorrect == ConfSpec => []ConfinementSafe
<1>1. ConfSpec => []ConfInv
  BY ConfInitially, ConfStep, PTL DEF ConfSpec
<1> QED  BY <1>1, ConfInvSafe, PTL

-----------------------------------------------------------------------------
(* The connection of a proxy.                                              *)

\* What is on its way.
Kinds    == {"none", "reply", "empty", "push", "bad"}
Holdable == Blocks \cup {"none"}
Messages == [kind : Kinds, of : Nat, blk : Holdable, since : Nat]

\* Types, first of what the threads share.
FlagsType ==
    /\ link \in Nat /\ links \in Nat /\ linkUp \in BOOLEAN /\ wake \in BOOLEAN /\ mixed \in BOOLEAN
    /\ asked \in Nat
    /\ svc \in [connected : BOOLEAN, stopping : BOOLEAN, reconnecting : BOOLEAN]
    /\ at \in [owner : {"idle", "begin", "opened", "start", "joining", "terminated"},
               again : {"none", "loop", "begin", "opened"}]

\* The callers' requests, and what is on its way.
Requests == [at : {"idle", "sending", "waiting", "got"}, req : Nat, msg : Messages]

FarType     == far \in [open : BOOLEAN, todo : Seq(Nat)]
InboxType   == inbox \in Seq(Messages)
IoType      == io \in [at : {"none", "starting", "waiting", "top", "routing", "lost", "retry", "ended"},
                       polled : Nat, msg : Messages, running : BOOLEAN]
PendingType == pending \in [ready : BOOLEAN, msg : Messages]
AppType     == app \in [Callers -> Requests]
TrafficType == FarType /\ InboxType /\ IoType /\ PendingType /\ AppType /\ free \subseteq Blocks

\* BlocksOwned, holder by holder.
HoldersApart ==
    /\ io.msg.blk # "none" => io.msg.blk \notin free /\ io.msg.blk # pending.msg.blk
    /\ pending.msg.blk # "none" => pending.msg.blk \notin free
    /\ \A c \in Callers : app[c].msg.blk # "none" =>
          /\ app[c].msg.blk \notin free /\ app[c].msg.blk # io.msg.blk /\ app[c].msg.blk # pending.msg.blk
          /\ \A d \in Callers \ {c} : app[d].msg.blk # app[c].msg.blk

\* Only the thread that reads, a reply that is ready and a caller that has got
\* one hold a message.
BlockInv ==
    /\ io.at # "routing" => io.msg = NoMsg
    /\ ~pending.ready => pending.msg = NoMsg
    /\ \A c \in Callers : app[c].at # "got" => app[c].msg = NoMsg
    /\ \A i \in DOMAIN inbox : inbox[i].blk = "none"
    /\ HoldersApart

\* A stop that was asked for has been seen or waits in the eventfd.
StopInv == at.owner = "joining" => wake \/ io.at \in {"none", "ended"}

\* Sockets are numbered, so that one that is closed is never polled again.
LinkInv == link <= links /\ io.polled <= links

\* A loss is seen by a proxy that is connected or stopping.
LossInv ==
    /\ svc.stopping => at.owner = "joining" \/ io.at = "none"
    /\ at.owner = "start" => svc.connected \/ io.at # "none"
    /\ io.at \in {"starting", "lost"} => svc.connected \/ svc.stopping
    /\ io.at \notin {"none", "starting", "ended"} /\ io.polled = link /\ link # 0 => svc.connected \/ svc.stopping

\* Restorations to come: of the reconnecting thread, and of the one the io
\* thread is about to start.
Due == (IF at.again # "none" THEN 1 ELSE 0) + (IF io.at = "retry" /\ ~svc.stopping THEN 1 ELSE 0)

\* Each of them makes up for a loss that was announced.
PostInv ==
    /\ posted \in Seq({"lost", "restored"})
    /\ (svc.reconnecting <=> at.again # "none")
    /\ HowOften(posted, "restored") + Due <= HowOften(posted, "lost")

\* A reply that is ready was stamped after the last request.
AskInv ==
    /\ \A c \in Callers : app[c].req <= asked
    /\ pending.ready => pending.msg.since = asked
    /\ \A c \in Callers : app[c].at = "got" => app[c].msg.since >= app[c].req

Reply(m) == m.kind \in {"reply", "empty"}

\* Without overlap, nobody polls a socket whose handshake is not over.
ConnInv ==
    /\ io.at = "starting" => at.owner \in {"idle", "joining"}
    /\ at.again = "opened" => at.owner \notin {"opened", "start"} /\ io.at # "starting"
    /\ "opened" \in {at.owner, at.again} => link = 0 \/ io.polled # link

\* Without overlap, what was pushed is read in the handshake.
PushInv ==
    \A i \in DOMAIN inbox : inbox[i].kind = "push" =>
        ~(far.open /\ linkUp) \/ (i = 1 /\ "opened" \in {at.owner, at.again})

\* A reply is unread.
Arrived == \E i \in DOMAIN inbox : Reply(inbox[i])

\* One request at a time, and all that is on its way is its reply.
FlyInv ==
    /\ \A c, d \in Callers : app[c].at # "idle" /\ app[d].at # "idle" => c = d
    /\ (\A c \in Callers : app[c].at # "waiting") =>
          far.todo = << >> /\ ~Arrived /\ io.at # "routing" /\ ~pending.ready
    /\ \A c \in Callers : app[c].at = "waiting" =>
          /\ \A i \in DOMAIN far.todo : far.todo[i] = app[c].req
          /\ \A i \in DOMAIN inbox : Reply(inbox[i]) => inbox[i].of = app[c].req
          /\ io.at = "routing" => io.msg.of = app[c].req
          /\ pending.ready => pending.msg.of = app[c].req
    /\ \A c \in Callers : app[c].at = "got" => app[c].msg.of = app[c].req

\* The reply is in one place.
OneInv ==
    /\ Len(far.todo) <= 1
    /\ \A i, j \in DOMAIN inbox : Reply(inbox[i]) /\ Reply(inbox[j]) => i = j
    /\ far.todo # << >> => ~Arrived /\ io.at # "routing" /\ ~pending.ready
    /\ Arrived => io.at # "routing" /\ ~pending.ready
    /\ io.at = "routing" => ~pending.ready

PairedInv == ~mixed => ConnInv /\ PushInv /\ FlyInv /\ OneInv

\* The inductive invariant of ProxyConnection.
ProxyInv ==
    FlagsType /\ TrafficType /\ BlockInv /\ StopInv /\ LinkInv /\ LossInv /\ PostInv /\ AskInv /\ PairedInv

\* The property over all holders follows from the one holder by holder.
LEMMA ApartOwned == HoldersApart => BlocksOwned
<1> SUFFICES ASSUME HoldersApart PROVE BlocksOwned
  OBVIOUS
<1> DEFINE held == [h \in Callers \cup {"io", "pending"} |->
                       CASE h = "io" -> io.msg.blk
                         [] h = "pending" -> pending.msg.blk
                         [] OTHER -> app[h].msg.blk]
<1>1. /\ held["io"] = io.msg.blk /\ held["pending"] = pending.msg.blk
      /\ \A c \in Callers : held[c] = app[c].msg.blk
      /\ DOMAIN held = Callers \cup {"io", "pending"}
  BY HolderAssumption
<1>2. ASSUME NEW h \in DOMAIN held, held[h] # "none"  PROVE held[h] \notin free
  <2> HIDE DEF held
  <2> QED  BY <1>1, <1>2 DEF HoldersApart
<1>3. ASSUME NEW h \in DOMAIN held, held[h] # "none", NEW g \in DOMAIN held, g # h, held[g] # "none"
      PROVE  held[g] # held[h]
  <2> HIDE DEF held
  <2> QED  BY <1>1, <1>3 DEF HoldersApart
<1> DEFINE in == {h \in DOMAIN held : held[h] # "none"}
<1>4. \A h \in in : held[h] \notin free /\ \A g \in in \ {h} : held[g] # held[h]
  <2> HIDE DEF held
  <2> QED  BY <1>2, <1>3
<1> QED  BY <1>4, Zenon DEF BlocksOwned

\* No message.
LEMMA NoMsgType ==
    /\ NoMsg \in Messages /\ NoMsg.kind = "none" /\ NoMsg.of = 0 /\ NoMsg.blk = "none" /\ NoMsg.since = 0
BY DEF NoMsg, Messages, Kinds, Holdable

\* A caller without a request.
LEMMA IdleType == Idle_ \in Requests /\ Idle_.at = "idle" /\ Idle_.req = 0 /\ Idle_.msg = NoMsg
BY NoMsgType DEF Idle_, Requests


\* What the daemon sends has no block yet.
LEMMA PushType ==
    ASSUME NEW k \in {"push", "bad"}
    PROVE  /\ [NoMsg EXCEPT !.kind = k] \in Messages
           /\ [NoMsg EXCEPT !.kind = k].kind = k
           /\ [NoMsg EXCEPT !.kind = k].blk = "none"
<1>1. k \in Kinds
  BY DEF Kinds
<1> QED  BY <1>1, NoMsgType DEF Messages

\* A payload in place of a header.
LEMMA UnreadType ==
    Unread \in Seq(Messages) /\ Len(Unread) = 1 /\ Unread[1].kind = "bad" /\ Unread[1].blk = "none"
<1> DEFINE m == [NoMsg EXCEPT !.kind = "bad"]
<1>1. m \in Messages /\ m.kind = "bad" /\ m.blk = "none"
  BY PushType
<1>2. Unread = <<m>>
  BY DEF Unread
<1> HIDE DEF m
<1> QED  BY <1>1, <1>2

\* The first element of a sequence, and the rest.
LEMMA HeadTail ==
    ASSUME NEW S, NEW q \in Seq(S), q # << >>
    PROVE  /\ Head(q) \in S /\ Head(q) = q[1] /\ Tail(q) \in Seq(S) /\ Len(q) \in Nat \ {0}
           /\ Len(Tail(q)) = Len(q) - 1 /\ 1 \in DOMAIN q
           /\ \A i \in DOMAIN Tail(q) : i \in Nat \ {0} /\ i + 1 \in DOMAIN q /\ Tail(q)[i] = q[i + 1]
OBVIOUS

\* The first message is gone from the stream, or its payload is left there.
Taken ==
    \E d \in {0, 1} : \A i \in DOMAIN inbox' :
        /\ i \in Nat \ {0}
        /\ \/ inbox'[i].kind = "bad" /\ inbox'[i].blk = "none"
           \/ i + d > 1 /\ i + d \in DOMAIN inbox /\ inbox'[i] = inbox[i + d]

\* A read takes the first message, or its header only.
LEMMA TakenByRead ==
    ASSUME InboxType, inbox # << >>, inbox' = Tail(inbox) \/ inbox' = Unread \o Tail(inbox)
    PROVE  InboxType' /\ Taken
<1>1. CASE inbox' = Tail(inbox)
  BY <1>1, HeadTail DEF InboxType, Taken
<1>2. CASE inbox' = Unread \o Tail(inbox)
  <2> DEFINE q == Tail(inbox)
  <2>1. /\ q \in Seq(Messages) /\ Len(q) = Len(inbox) - 1 /\ Len(inbox) \in Nat \ {0}
        /\ DOMAIN inbox = 1 .. Len(inbox)
        /\ \A i \in 1 .. Len(q) : q[i] = inbox[i + 1]
    BY HeadTail DEF InboxType
  <2>2. inbox' = Unread \o q
    BY <1>2
  <2> HIDE DEF q
  <2>3. /\ inbox' \in Seq(Messages) /\ Len(inbox') = 1 + Len(q) /\ inbox'[1] = Unread[1]
        /\ \A i \in 2 .. Len(inbox') : inbox'[i] = q[i - 1]
    <3>1. /\ Unread \o q \in Seq(Messages) /\ Len(Unread \o q) = Len(Unread) + Len(q)
          /\ \A i \in 1 .. Len(Unread) + Len(q) :
                (Unread \o q)[i] = IF i <= Len(Unread) THEN Unread[i] ELSE q[i - Len(Unread)]
      <4>1. Unread \in Seq(Messages) /\ q \in Seq(Messages)
        BY <2>1, UnreadType
      <4> QED  BY <4>1, ConcatProperties, Zenon
    <3>2. Len(q) \in Nat
      BY <2>1
    <3> QED  BY <2>2, <3>1, <3>2, UnreadType
  <2>4. \A i \in DOMAIN inbox' : /\ i \in Nat \ {0}
                                 /\ \/ inbox'[i].kind = "bad" /\ inbox'[i].blk = "none"
                                    \/ i + 0 > 1 /\ i + 0 \in DOMAIN inbox /\ inbox'[i] = inbox[i + 0]
    <3> SUFFICES ASSUME NEW i \in 1 .. Len(inbox')
                 PROVE  /\ i \in Nat \ {0}
                        /\ \/ inbox'[i].kind = "bad" /\ inbox'[i].blk = "none"
                           \/ i + 0 > 1 /\ i + 0 \in DOMAIN inbox /\ inbox'[i] = inbox[i + 0]
      BY <2>3
    <3>1. CASE i = 1
      BY <2>3, <3>1, UnreadType
    <3>2. CASE i # 1
      <4>1. i \in 2 .. Len(inbox') /\ i - 1 \in 1 .. Len(q) /\ i \in 1 .. Len(inbox)
        BY <2>1, <2>3, <3>2
      <4>2. inbox'[i] = inbox[(i - 1) + 1]
        BY <2>1, <2>3, <4>1
      <4> QED  BY <2>1, <4>1, <4>2
    <3> QED  BY <3>1, <3>2
  <2>5. 0 \in {0, 1}
    OBVIOUS
  <2> QED  BY <2>3, <2>4, <2>5 DEF InboxType, Taken
<1> QED  BY <1>1, <1>2

\* A message comes at the end.
Comes(m) ==
    /\ m \in Messages /\ InboxType' /\ Len(inbox) \in Nat
    /\ \A i \in DOMAIN inbox' :
          \/ i \in DOMAIN inbox /\ inbox'[i] = inbox[i]
          \/ i = Len(inbox) + 1 /\ inbox'[i] = m

\* What is sent is appended to what is unread.
LEMMA ComesBySend ==
    ASSUME InboxType, NEW m \in Messages, inbox' = Append(inbox, m)
    PROVE  Comes(m)
BY DEF InboxType, Comes

\* A closed socket has neither requests nor messages.
LEMMA ClosedType == CloseLink => FarType' /\ InboxType'
BY DEF CloseLink, FarType, InboxType

\* The daemon answers the oldest request it has.
LEMMA AnswerDoes ==
    ASSUME TrafficType, NEW k \in {"reply", "empty"}, Answer(k)
    PROVE  /\ \E m \in Messages : m.kind = k /\ m.of = far.todo[1] /\ m.blk = "none" /\ Comes(m)
           /\ FarType' /\ far.todo # << >> /\ far'.open = far.open /\ far'.todo = Tail(far.todo)
<1>1. far.open /\ far.todo # << >> /\ far.todo \in Seq(Nat)
  BY DEF Answer, TrafficType, FarType
<1>2. Head(far.todo) \in Nat /\ Head(far.todo) = far.todo[1] /\ Tail(far.todo) \in Seq(Nat)
  BY <1>1, HeadTail
<1> DEFINE m == [NoMsg EXCEPT !.kind = k, !.of = Head(far.todo)]
<1>3. m \in Messages /\ m.kind = k /\ m.of = far.todo[1] /\ m.blk = "none"
  <2>1. k \in Kinds
    BY DEF Kinds
  <2> QED  BY <1>2, <2>1, NoMsgType DEF Messages
<1>4. inbox' = Append(inbox, m)
  BY DEF Answer, Send
<1> HIDE DEF m
<1>5. Comes(m)
  BY <1>3, <1>4, ComesBySend DEF TrafficType
<1>6. far' = [far EXCEPT !.todo = Tail(far.todo)]
  BY DEF Answer
<1> QED  BY <1>1, <1>2, <1>3, <1>5, <1>6 DEF TrafficType, FarType

\* What the daemon sends unasked.
LEMMA PushDoes ==
    ASSUME TrafficType, NEW k \in {"push", "bad"}, PushMessage(k)
    PROVE  \E m \in Messages : m.kind = k /\ m.blk = "none" /\ Comes(m)
<1> DEFINE m == [NoMsg EXCEPT !.kind = k]
<1>1. m \in Messages /\ m.kind = k /\ m.blk = "none"
  BY PushType
<1>2. inbox' = Append(inbox, m)
  BY DEF PushMessage, Send
<1> HIDE DEF m
<1> QED  BY <1>1, <1>2, ComesBySend DEF TrafficType

\* recvHandshakeWelcome reads one message, if a block is free with its payload.
LEMMA WelcomeDoes ==
    ASSUME TrafficType, NEW t \in {"owner", "again"}, Welcome(t)
    PROVE  InboxType' /\ Taken
<1>1. inbox # << >> /\ inbox \in Seq(Messages) /\ Tail(inbox) \in Seq(Messages)
  BY HeadTail DEF Welcome, TrafficType, InboxType
<1>2. inbox' = (IF free = {} THEN Unread ELSE << >>) \o Tail(inbox)
  BY DEF Welcome
<1>3. << >> \o Tail(inbox) = Tail(inbox)
  BY <1>1, ConcatEmptySeq
<1>4. inbox' = Tail(inbox) \/ inbox' = Unread \o Tail(inbox)
  BY <1>2, <1>3
<1> QED  BY <1>1, <1>4, TakenByRead DEF TrafficType

\* The io thread has taken a message and, for its payload, a block.
LEMMA ReadsDoes ==
    ASSUME TrafficType, IoReads
    PROVE  /\ InboxType' /\ Taken /\ inbox # << >> /\ 1 \in DOMAIN inbox
           /\ inbox[1].kind \in {"reply", "empty", "push"}
           /\ IoType' /\ io'.at = "routing" /\ io'.polled = io.polled
           /\ io'.msg.kind = inbox[1].kind /\ io'.msg.of = inbox[1].of
           /\ io'.msg.blk \in free \cup {"none"} /\ free' = free \ {io'.msg.blk}
<1>1. inbox # << >> /\ inbox \in Seq(Messages) /\ Head(inbox) = inbox[1] /\ inbox[1] \in Messages /\ 1 \in DOMAIN inbox
  BY HeadTail DEF IoReads, TrafficType, InboxType
<1>2. PICK b \in (IF Head(inbox).kind = "empty" THEN {"none"} ELSE free) :
         free' = free \ {b} /\ io' = [io EXCEPT !.at = "routing", !.msg = [Head(inbox) EXCEPT !.blk = b]]
  BY Zenon DEF IoReads
<1>3. b \in free \cup {"none"} /\ b \in Holdable
  BY DEF TrafficType, Holdable
<1> DEFINE m == [Head(inbox) EXCEPT !.blk = b]
<1>4. m \in Messages /\ m.kind = inbox[1].kind /\ m.of = inbox[1].of /\ m.blk = b
  BY <1>1, <1>3 DEF Messages
<1>5. io' = [io EXCEPT !.at = "routing", !.msg = m]
  BY <1>2
<1> HIDE DEF m
<1>6. IoType' /\ io'.at = "routing" /\ io'.polled = io.polled /\ io'.msg = m
  BY <1>4, <1>5 DEF TrafficType, IoType
<1>7. InboxType' /\ Taken
  BY <1>1, TakenByRead DEF IoReads, TrafficType
<1>8. inbox[1].kind \in {"reply", "empty", "push"}
  BY <1>1 DEF IoReads
<1> QED  BY <1>1, <1>2, <1>3, <1>4, <1>6, <1>7, <1>8

\* Without a block, the payload stays.
LEMMA PoolEmptyDoes ==
    ASSUME TrafficType, IoPoolEmpty
    PROVE  /\ InboxType' /\ Taken /\ IoType' /\ io'.at = "top" /\ io'.polled = io.polled /\ io'.msg = io.msg
<1>1. InboxType' /\ Taken
  BY TakenByRead DEF IoPoolEmpty, TrafficType
<1> QED  BY <1>1 DEF IoPoolEmpty, TrafficType, IoType

\* The message goes to the request that waits, or its block to the pool.
LEMMA RoutesDoes ==
    ASSUME TrafficType, FlagsType, IoRoutes
    PROVE  /\ io.at = "routing"
           /\ IoType' /\ io'.at = "top" /\ io'.polled = io.polled /\ io'.msg = NoMsg
           /\ pending.ready => free' = free \cup ({io.msg.blk} \ {"none"}) /\ UNCHANGED pending
           /\ ~pending.ready =>
                 /\ PendingType' /\ pending'.ready = TRUE /\ pending'.msg.since = asked
                 /\ pending'.msg.of = io.msg.of /\ pending'.msg.blk = io.msg.blk /\ UNCHANGED free
<1>1. io.at = "routing" /\ io.msg \in Messages /\ io' = [io EXCEPT !.at = "top", !.msg = NoMsg]
  BY DEF IoRoutes, TrafficType, IoType
<1>2. IoType' /\ io'.at = "top" /\ io'.polled = io.polled /\ io'.msg = NoMsg
  BY <1>1, NoMsgType DEF TrafficType, IoType
<1>3. CASE ~pending.ready
  <2> DEFINE m == [io.msg EXCEPT !.since = asked]
  <2>1. m \in Messages /\ m.of = io.msg.of /\ m.blk = io.msg.blk /\ m.since = asked
    BY <1>1 DEF Messages, FlagsType
  <2>2. pending' = [ready |-> TRUE, msg |-> m] /\ UNCHANGED free
    BY <1>3 DEF IoRoutes
  <2> HIDE DEF m
  <2> QED  BY <1>1, <1>2, <1>3, <2>1, <2>2 DEF PendingType
<1>4. CASE pending.ready
  BY <1>1, <1>2, <1>4 DEF IoRoutes
<1> QED  BY <1>3, <1>4

\* One caller moves.
Becomes(c, w, n, m) ==
    /\ AppType' /\ \A d \in Callers \ {c} : app'[d] = app[d]
    /\ app'[c].at = w /\ app'[c].req = n /\ app'[c].msg = m

\* A step of sendRequestWaitReply changes its own caller.
LEMMA CallerDoes ==
    ASSUME TrafficType, FlagsType, NEW c \in Callers
    PROVE  /\ Ask(c) => Becomes(c, "sending", asked + 1, NoMsg)
           /\ SendRequest(c) => Becomes(c, "waiting", app[c].req, app[c].msg)
           /\ SendRequestFails(c) \/ GiveUp(c) \/ (\E r \in BOOLEAN : Use(c, r)) => Becomes(c, "idle", 0, NoMsg)
           /\ TakeReply(c) => Becomes(c, "got", app[c].req, pending.msg)
<1>0. app[c] \in Requests /\ pending.msg \in Messages /\ AppType
  BY DEF TrafficType, AppType, PendingType
<1>1. ASSUME NEW r \in Requests, app' = [app EXCEPT ![c] = r]
      PROVE  AppType' /\ app'[c] = r /\ \A d \in Callers \ {c} : app'[d] = app[d]
  BY <1>0, <1>1 DEF AppType
<1>2. ASSUME Ask(c)  PROVE Becomes(c, "sending", asked + 1, NoMsg)
  <2> DEFINE r == [Idle_ EXCEPT !.at = "sending", !.req = asked + 1]
  <2>1. r \in Requests /\ r.at = "sending" /\ r.req = asked + 1 /\ r.msg = NoMsg
    <3>1. asked + 1 \in Nat
      BY DEF FlagsType
    <3> QED  BY <3>1, IdleType DEF Requests
  <2>2. app' = [app EXCEPT ![c] = r]
    BY <1>2 DEF Ask
  <2> HIDE DEF r
  <2> QED  BY <1>1, <2>1, <2>2 DEF Becomes
<1>3. ASSUME SendRequest(c)  PROVE Becomes(c, "waiting", app[c].req, app[c].msg)
  <2> DEFINE r == [app[c] EXCEPT !.at = "waiting"]
  <2>1. r \in Requests /\ r.at = "waiting" /\ r.req = app[c].req /\ r.msg = app[c].msg
    BY <1>0 DEF Requests
  <2>2. app' = [app EXCEPT ![c] = r]
    BY <1>3 DEF SendRequest
  <2> HIDE DEF r
  <2> QED  BY <1>1, <2>1, <2>2 DEF Becomes
<1>4. ASSUME SendRequestFails(c) \/ GiveUp(c) \/ (\E r \in BOOLEAN : Use(c, r))
      PROVE  Becomes(c, "idle", 0, NoMsg)
  <2>1. app' = [app EXCEPT ![c] = Idle_]
    BY <1>4 DEF SendRequestFails, GiveUp, Use
  <2> QED  BY <1>1, <2>1, IdleType DEF Becomes
<1>5. ASSUME TakeReply(c)  PROVE Becomes(c, "got", app[c].req, pending.msg)
  <2> DEFINE r == [app[c] EXCEPT !.at = "got", !.msg = pending.msg]
  <2>1. r \in Requests /\ r.at = "got" /\ r.req = app[c].req /\ r.msg = pending.msg
    BY <1>0 DEF Requests
  <2>2. app' = [app EXCEPT ![c] = r]
    BY <1>0, <1>5 DEF TakeReply, AppType
  <2> HIDE DEF r
  <2> QED  BY <1>1, <2>1, <2>2 DEF Becomes
<1> QED  BY <1>2, <1>3, <1>4, <1>5

\* The flags, numbers and places of the threads.
LEMMA ProxyFlagsType == ProxyInv /\ ProxyNext => FlagsType'
<1> SUFFICES ASSUME ProxyInv, ProxyNext PROVE FlagsType'
  OBVIOUS
<1> USE DEF ProxyInv, FlagsType
<1>1. ASSUME NEW k \in {"reply", "empty"}, Answer(k)  PROVE FlagsType'
  BY <1>1 DEF Answer, Send
<1>2. ASSUME NEW k \in {"push", "bad"}, PushMessage(k)  PROVE FlagsType'
  BY <1>2 DEF PushMessage, Send
<1>3. CASE DaemonDies
  BY <1>3 DEF DaemonDies
<1>4. CASE DaemonReturns
  BY <1>4 DEF DaemonReturns, linkVars
<1>5. CASE OwnerConnect
  BY <1>5 DEF OwnerConnect, linkVars
<1>6. CASE StartThreads
  BY <1>6 DEF StartThreads, linkVars
<1>7. CASE Disconnect_
  BY <1>7 DEF Disconnect_, linkVars
<1>8. CASE Joined
  BY <1>8 DEF Joined, CloseLink
<1>9. CASE TryAgain
  BY <1>9 DEF TryAgain, linkVars
<1>10. ASSUME NEW t \in {"owner", "again"}, OpenLink(t)  PROVE FlagsType'
  BY <1>10 DEF OpenLink
<1>11. ASSUME NEW t \in {"owner", "again"}, OpenFails(t)  PROVE FlagsType'
  <2>1. UNCHANGED <<wake, mixed, asked, svc>>
    BY <1>11 DEF OpenFails
  <2>3. link' \in Nat /\ linkUp' \in BOOLEAN /\ links' \in Nat
    <3>1. CASE linkUp
      BY <1>11, <3>1 DEF OpenFails, linkVars
    <3>2. CASE ~linkUp
      <4>1. link' = 0 /\ linkUp' = FALSE /\ links' = links
        BY <1>11, <3>2, Zenon DEF OpenFails, CloseLink
      <4> QED  BY <4>1
    <3> QED  BY <3>1, <3>2
  <2>2. at' = [at EXCEPT ![t] = IF t = "owner" THEN "idle" ELSE "loop"]
    BY <1>11 DEF OpenFails, Failed
  <2> QED  BY <2>1, <2>2, <2>3
<1>12. ASSUME NEW t \in {"owner", "again"}, Welcome(t)  PROVE FlagsType'
  BY <1>12 DEF Welcome, Welcomed
<1>13. ASSUME NEW t \in {"owner", "again"}, WelcomeRefused(t)  PROVE FlagsType'
  BY <1>13 DEF WelcomeRefused, Welcomed, CloseLink
<1>14. ASSUME NEW t \in {"owner", "again"}, WelcomeMissing(t)  PROVE FlagsType'
  BY <1>14 DEF WelcomeMissing, Welcomed
<1>15. CASE IoStart
  BY <1>15 DEF IoStart
<1>16. CASE IoTop
  BY <1>16 DEF IoTop, linkVars
<1>17. CASE IoWaitOver
  BY <1>17 DEF IoWaitOver, linkVars
<1>18. CASE IoWoken
  BY <1>18 DEF IoWoken, linkVars
<1>19. CASE IoReads
  BY <1>19 DEF IoReads, IoEvent, IoOther
<1>20. CASE IoPoolEmpty
  BY <1>20 DEF IoPoolEmpty, IoEvent, IoOther
<1>21. CASE IoRefuses
  BY <1>21 DEF IoRefuses, IoEvent, IoOther, CloseLink
<1>22. CASE IoTimesOut
  BY <1>22 DEF IoTimesOut, IoEvent, IoOther
<1>23. CASE IoHangUp
  BY <1>23 DEF IoHangUp, IoEvent, IoOther
<1>24. CASE IoRoutes
  BY <1>24 DEF IoRoutes, linkVars
<1>25. CASE IoCloses
  BY <1>25 DEF IoCloses, CloseLink
<1>26. CASE IoRetries
  BY <1>26 DEF IoRetries, linkVars
<1>27. ASSUME NEW c \in Callers, Ask(c)  PROVE FlagsType'
  BY <1>27 DEF Ask, linkVars
<1>28. ASSUME NEW c \in Callers, SendRequest(c)  PROVE FlagsType'
  BY <1>28 DEF SendRequest
<1>29. ASSUME NEW c \in Callers, SendRequestFails(c)  PROVE FlagsType'
  BY <1>29 DEF SendRequestFails
<1>30. ASSUME NEW c \in Callers, TakeReply(c)  PROVE FlagsType'
  BY <1>30 DEF TakeReply, linkVars
<1>31. ASSUME NEW c \in Callers, GiveUp(c)  PROVE FlagsType'
  BY <1>31 DEF GiveUp, linkVars
<1>32. ASSUME NEW c \in Callers, NEW r \in BOOLEAN, Use(c, r)  PROVE FlagsType'
  BY <1>32 DEF Use, linkVars
<1> QED
  BY <1>1, <1>2, <1>3, <1>4, <1>5, <1>6, <1>7, <1>8, <1>9, <1>10, <1>11, <1>12, <1>13, <1>14, <1>15, <1>16,
     <1>17, <1>18, <1>19, <1>20, <1>21, <1>22, <1>23, <1>24, <1>25, <1>26, <1>27, <1>28, <1>29, <1>30, <1>31, <1>32
  DEF ProxyNext, AudioReleases, CameraReleases, SensorReleases, GpioReleases

\* The messages on their way and the requests.
LEMMA ProxyTrafficType == ProxyInv /\ ProxyNext => TrafficType'
<1> SUFFICES ASSUME ProxyInv, ProxyNext PROVE TrafficType'
  OBVIOUS
<1> USE DEF TrafficType
<1>0. TrafficType /\ FlagsType
  BY DEF ProxyInv
<1>1. ASSUME NEW k \in {"reply", "empty"}, Answer(k)  PROVE TrafficType'
  BY <1>0, <1>1, AnswerDoes DEF Answer, Send, linkVars, FarType, InboxType, IoType, PendingType, AppType, Comes
<1>2. ASSUME NEW k \in {"push", "bad"}, PushMessage(k)  PROVE TrafficType'
  BY <1>0, <1>2, PushDoes DEF PushMessage, Send, linkVars, FarType, InboxType, IoType, PendingType, AppType, Comes
<1>3. CASE DaemonDies
  BY <1>0, <1>3 DEF DaemonDies, linkVars, FarType, InboxType, IoType, PendingType, AppType
<1>4. CASE DaemonReturns
  BY <1>0, <1>4 DEF DaemonReturns, linkVars, FarType, InboxType, IoType, PendingType, AppType
<1>5. CASE OwnerConnect
  BY <1>0, <1>5 DEF OwnerConnect, linkVars, FarType, InboxType, IoType, PendingType, AppType
<1>6. CASE StartThreads
  BY <1>0, <1>6 DEF StartThreads, linkVars, FarType, InboxType, IoType, PendingType, AppType
<1>7. CASE Disconnect_
  BY <1>0, <1>7 DEF Disconnect_, linkVars, FarType, InboxType, IoType, PendingType, AppType
<1>8. CASE Joined
  BY <1>0, <1>8, ClosedType DEF Joined, linkVars, FarType, InboxType, IoType, PendingType, AppType
<1>9. CASE TryAgain
  BY <1>0, <1>9 DEF TryAgain, linkVars, FarType, InboxType, IoType, PendingType, AppType
<1>10. ASSUME NEW t \in {"owner", "again"}, OpenLink(t)  PROVE TrafficType'
  BY <1>0, <1>10 DEF OpenLink, linkVars, FarType, InboxType, IoType, PendingType, AppType, FlagsType
<1>11. ASSUME NEW t \in {"owner", "again"}, OpenFails(t)  PROVE TrafficType'
  BY <1>0, <1>11, ClosedType DEF OpenFails, Failed, linkVars, FarType, InboxType, IoType, PendingType, AppType
<1>12. ASSUME NEW t \in {"owner", "again"}, Welcome(t)  PROVE TrafficType'
  BY <1>0, <1>12, WelcomeDoes DEF Welcome, Welcomed, linkVars, FarType, InboxType, IoType, PendingType, AppType
<1>13. ASSUME NEW t \in {"owner", "again"}, WelcomeRefused(t)  PROVE TrafficType'
  BY <1>0, <1>13, ClosedType DEF WelcomeRefused, Welcomed, linkVars, FarType, InboxType, IoType, PendingType, AppType
<1>14. ASSUME NEW t \in {"owner", "again"}, WelcomeMissing(t)  PROVE TrafficType'
  BY <1>0, <1>14 DEF WelcomeMissing, Welcomed, linkVars, FarType, InboxType, IoType, PendingType, AppType
<1>15. CASE IoStart
  BY <1>0, <1>15 DEF IoStart, linkVars, FarType, InboxType, IoType, PendingType, AppType, FlagsType
<1>16. CASE IoTop
  BY <1>0, <1>16 DEF IoTop, linkVars, FarType, InboxType, IoType, PendingType, AppType
<1>17. CASE IoWaitOver
  BY <1>0, <1>17 DEF IoWaitOver, linkVars, FarType, InboxType, IoType, PendingType, AppType
<1>18. CASE IoWoken
  BY <1>0, <1>18 DEF IoWoken, linkVars, FarType, InboxType, IoType, PendingType, AppType
<1>19. CASE IoReads
  <2>1. UNCHANGED <<far, pending, app>>
    BY <1>19 DEF IoReads, IoOther
  <2>2. InboxType' /\ IoType' /\ free' \subseteq Blocks
    BY <1>0, <1>19, ReadsDoes
  <2> QED  BY <1>0, <2>1, <2>2 DEF FarType, PendingType, AppType
<1>20. CASE IoPoolEmpty
  BY <1>0, <1>20, PoolEmptyDoes DEF IoPoolEmpty, IoEvent, IoOther, linkVars, FarType, InboxType, IoType,
     PendingType, AppType
<1>21. CASE IoRefuses
  BY <1>0, <1>21, ClosedType DEF IoRefuses, IoEvent, IoOther, linkVars, FarType, InboxType, IoType, PendingType, AppType
<1>22. CASE IoTimesOut
  BY <1>0, <1>22 DEF IoTimesOut, IoEvent, IoOther, linkVars, FarType, InboxType, IoType, PendingType, AppType
<1>23. CASE IoHangUp
  BY <1>0, <1>23 DEF IoHangUp, IoEvent, IoOther, linkVars, FarType, InboxType, IoType, PendingType, AppType
<1>24. CASE IoRoutes
  <2>1. UNCHANGED <<far, inbox, app>>
    BY <1>24 DEF IoRoutes, linkVars
  <2>2. io.msg.blk \in Blocks \cup {"none"}
    BY <1>0 DEF IoType, Messages, Holdable
  <2>3. IoType' /\ PendingType' /\ free' \subseteq Blocks
    BY <1>0, <1>24, <2>2, RoutesDoes DEF PendingType
  <2> QED  BY <1>0, <2>1, <2>3 DEF FarType, InboxType, AppType
<1>25. CASE IoCloses
  BY <1>0, <1>25, ClosedType DEF IoCloses, linkVars, FarType, InboxType, IoType, PendingType, AppType
<1>26. CASE IoRetries
  BY <1>0, <1>26 DEF IoRetries, linkVars, FarType, InboxType, IoType, PendingType, AppType
<1>27. ASSUME NEW c \in Callers, Ask(c)  PROVE TrafficType'
  BY <1>0, <1>27, CallerDoes, NoMsgType DEF Ask, linkVars, FarType, InboxType, IoType, PendingType,
     AppType, FlagsType, Becomes
<1>28. ASSUME NEW c \in Callers, SendRequest(c)  PROVE TrafficType'
  <2>1. UNCHANGED <<inbox, io, pending, free>> /\ AppType'
    BY <1>0, <1>28, CallerDoes DEF SendRequest, Becomes
  <2>2. app[c].req \in Nat /\ far' = [far EXCEPT !.todo = Append(far.todo, app[c].req)]
    BY <1>0, <1>28 DEF SendRequest, AppType, Requests
  <2>3. Append(far.todo, app[c].req) \in Seq(Nat)
    BY <1>0, <2>2, AppendProperties DEF FarType
  <2>4. FarType'
    BY <1>0, <2>2, <2>3 DEF FarType
  <2> QED  BY <1>0, <2>1, <2>4 DEF InboxType, IoType, PendingType
<1>29. ASSUME NEW c \in Callers, SendRequestFails(c)  PROVE TrafficType'
  BY <1>0, <1>29, CallerDoes DEF SendRequestFails, linkVars, FarType, InboxType, IoType, PendingType, AppType, Becomes
<1>30. ASSUME NEW c \in Callers, TakeReply(c)  PROVE TrafficType'
  <2>1. UNCHANGED <<far, inbox, io, free>> /\ AppType'
    BY <1>0, <1>30, CallerDoes DEF TakeReply, Becomes, linkVars
  <2>2. PendingType'
    BY <1>30, NoMsgType DEF TakeReply, PendingType
  <2> QED  BY <1>0, <2>1, <2>2 DEF FarType, InboxType, IoType
<1>31. ASSUME NEW c \in Callers, GiveUp(c)  PROVE TrafficType'
  BY <1>0, <1>31, CallerDoes DEF GiveUp, linkVars, FarType, InboxType, IoType, PendingType, AppType, Becomes
<1>32. ASSUME NEW c \in Callers, NEW r \in BOOLEAN, Use(c, r)  PROVE TrafficType'
  <2>1. UNCHANGED <<far, inbox, io, pending>> /\ AppType'
    BY <1>0, <1>32, CallerDoes DEF Use, Becomes, linkVars
  <2>2. app[c].msg.blk \in Blocks \cup {"none"}
    BY <1>0 DEF AppType, Requests, Messages, Holdable
  <2> QED  BY <1>0, <1>32, <2>1, <2>2 DEF Use, FarType, InboxType, IoType, PendingType
<1> QED
  BY <1>1, <1>2, <1>3, <1>4, <1>5, <1>6, <1>7, <1>8, <1>9, <1>10, <1>11, <1>12, <1>13, <1>14, <1>15, <1>16,
     <1>17, <1>18, <1>19, <1>20, <1>21, <1>22, <1>23, <1>24, <1>25, <1>26, <1>27, <1>28, <1>29, <1>30, <1>31, <1>32
  DEF ProxyNext, AudioReleases, CameraReleases, SensorReleases, GpioReleases

\* A connect that fails leaves the socket, or closes it.
LEMMA OpenFailsDoes ==
    ASSUME NEW t \in {"owner", "again"}, OpenFails(t)
    PROVE  /\ UNCHANGED linkVars \/ (CloseLink /\ links' = links)
           /\ at[t] = "begin" /\ at' = [at EXCEPT ![t] = IF t = "owner" THEN "idle" ELSE "loop"]
           /\ UNCHANGED <<daemon, svc, io, wake, pending, app, free, posted, asked, pushes, mixed>>
BY Zenon DEF OpenFails, Failed

\* disconnect() is seen, sockets are told apart by their number, and a socket that is
\* polled belongs to a proxy that is connected or stopping.
LEMMA ProxyControl == ProxyInv /\ ProxyNext => StopInv' /\ LinkInv' /\ LossInv'
<1> SUFFICES ASSUME ProxyInv, ProxyNext PROVE StopInv' /\ LinkInv' /\ LossInv'
  OBVIOUS
<1> USE DEF StopInv, LinkInv, LossInv, FlagsType, IoType
<1>0. TrafficType /\ FlagsType /\ StopInv /\ LinkInv /\ LossInv /\ IoType
  BY DEF ProxyInv, TrafficType
<1>1. ASSUME NEW k \in {"reply", "empty"}, Answer(k)  PROVE StopInv' /\ LinkInv' /\ LossInv'
  BY <1>0, <1>1 DEF Answer, Send, linkVars
<1>2. ASSUME NEW k \in {"push", "bad"}, PushMessage(k)  PROVE StopInv' /\ LinkInv' /\ LossInv'
  BY <1>0, <1>2 DEF PushMessage, Send, linkVars
<1>3. CASE DaemonDies
  BY <1>0, <1>3 DEF DaemonDies, linkVars
<1>4. CASE DaemonReturns
  BY <1>0, <1>4 DEF DaemonReturns, linkVars
<1>5. CASE OwnerConnect
  BY <1>0, <1>5 DEF OwnerConnect, linkVars
<1>6. CASE StartThreads
  BY <1>0, <1>6 DEF StartThreads, linkVars
<1>7. CASE Disconnect_
  BY <1>0, <1>7 DEF Disconnect_, linkVars
<1>8. CASE Joined
  BY <1>0, <1>8 DEF Joined, CloseLink, linkVars
<1>9. CASE TryAgain
  BY <1>0, <1>9 DEF TryAgain, linkVars
<1>10. ASSUME NEW t \in {"owner", "again"}, OpenLink(t)  PROVE StopInv' /\ LinkInv' /\ LossInv'
  BY <1>0, <1>10 DEF OpenLink, linkVars
<1>11. ASSUME NEW t \in {"owner", "again"}, OpenFails(t)  PROVE StopInv' /\ LinkInv' /\ LossInv'
  <2>1. at[t] = "begin" /\ at'.owner = IF t = "owner" THEN "idle" ELSE at.owner
    BY <1>0, <1>11, OpenFailsDoes
  <2>2. (link' = link \/ link' = 0) /\ UNCHANGED <<links, svc, io, wake>>
    BY <1>11, OpenFailsDoes DEF CloseLink, linkVars
  <2> QED  BY <1>0, <2>1, <2>2
<1>12. ASSUME NEW t \in {"owner", "again"}, Welcome(t)  PROVE StopInv' /\ LinkInv' /\ LossInv'
  BY <1>0, <1>12 DEF Welcome, Welcomed, linkVars
<1>13. ASSUME NEW t \in {"owner", "again"}, WelcomeRefused(t)  PROVE StopInv' /\ LinkInv' /\ LossInv'
  BY <1>0, <1>13 DEF WelcomeRefused, Welcomed, CloseLink, linkVars
<1>14. ASSUME NEW t \in {"owner", "again"}, WelcomeMissing(t)  PROVE StopInv' /\ LinkInv' /\ LossInv'
  BY <1>0, <1>14 DEF WelcomeMissing, Welcomed, linkVars
<1>15. CASE IoStart
  BY <1>0, <1>15 DEF IoStart, linkVars
<1>16. CASE IoTop
  BY <1>0, <1>16 DEF IoTop, linkVars
<1>17. CASE IoWaitOver
  BY <1>0, <1>17 DEF IoWaitOver, linkVars
<1>18. CASE IoWoken
  BY <1>0, <1>18 DEF IoWoken, linkVars
<1>19. CASE IoReads
  <2>1. io.at = "waiting" /\ UNCHANGED <<link, links, svc, wake, at>>
    BY <1>19 DEF IoReads, IoEvent, IoOther
  <2>2. io'.at = "routing" /\ io'.polled = io.polled
    BY <1>0, <1>19, ReadsDoes
  <2> QED  BY <1>0, <2>1, <2>2
<1>20. CASE IoPoolEmpty
  BY <1>0, <1>20, PoolEmptyDoes DEF IoPoolEmpty, IoEvent, IoOther, linkVars
<1>21. CASE IoRefuses
  BY <1>0, <1>21 DEF IoRefuses, IoEvent, IoOther, CloseLink, linkVars
<1>22. CASE IoTimesOut
  BY <1>0, <1>22 DEF IoTimesOut, IoEvent, IoOther, linkVars
<1>23. CASE IoHangUp
  BY <1>0, <1>23 DEF IoHangUp, IoEvent, IoOther, linkVars
<1>24. CASE IoRoutes
  BY <1>0, <1>24, RoutesDoes DEF IoRoutes, linkVars
<1>25. CASE IoCloses
  BY <1>0, <1>25 DEF IoCloses, CloseLink, linkVars
<1>26. CASE IoRetries
  BY <1>0, <1>26 DEF IoRetries, linkVars
<1>27. ASSUME NEW c \in Callers, Ask(c)  PROVE StopInv' /\ LinkInv' /\ LossInv'
  BY <1>0, <1>27 DEF Ask, linkVars
<1>28. ASSUME NEW c \in Callers, SendRequest(c)  PROVE StopInv' /\ LinkInv' /\ LossInv'
  BY <1>0, <1>28 DEF SendRequest, linkVars
<1>29. ASSUME NEW c \in Callers, SendRequestFails(c)  PROVE StopInv' /\ LinkInv' /\ LossInv'
  BY <1>0, <1>29 DEF SendRequestFails, linkVars
<1>30. ASSUME NEW c \in Callers, TakeReply(c)  PROVE StopInv' /\ LinkInv' /\ LossInv'
  BY <1>0, <1>30 DEF TakeReply, linkVars
<1>31. ASSUME NEW c \in Callers, GiveUp(c)  PROVE StopInv' /\ LinkInv' /\ LossInv'
  BY <1>0, <1>31 DEF GiveUp, linkVars
<1>32. ASSUME NEW c \in Callers, NEW r \in BOOLEAN, Use(c, r)  PROVE StopInv' /\ LinkInv' /\ LossInv'
  BY <1>0, <1>32 DEF Use, linkVars
<1> QED
  BY <1>1, <1>2, <1>3, <1>4, <1>5, <1>6, <1>7, <1>8, <1>9, <1>10, <1>11, <1>12, <1>13, <1>14, <1>15, <1>16,
     <1>17, <1>18, <1>19, <1>20, <1>21, <1>22, <1>23, <1>24, <1>25, <1>26, <1>27, <1>28, <1>29, <1>30, <1>31, <1>32
  DEF ProxyNext, AudioReleases, CameraReleases, SensorReleases, GpioReleases

\* A callback that is posted is counted once.
LEMMA OnceMore ==
    ASSUME NEW S, NEW q \in Seq(S), NEW x \in S, NEW y
    PROVE  /\ HowOften(q, y) \in Nat
           /\ HowOften(Append(q, x), y) = HowOften(q, y) + IF x = y THEN 1 ELSE 0
<1> DEFINE before == {i \in DOMAIN q : q[i] = y}
           after  == {i \in DOMAIN Append(q, x) : Append(q, x)[i] = y}
           last   == Len(q) + 1
<1>1. IsFiniteSet(before) /\ Cardinality(before) \in Nat
  <2>1. Len(q) \in Nat /\ DOMAIN q = 1 .. Len(q)
    OBVIOUS
  <2>2. IsFiniteSet(DOMAIN q)
    BY <2>1, FS_Interval
  <2> QED  BY <2>2, FS_Subset, FS_CardinalityType
<1>2. last \notin before /\ last \in DOMAIN Append(q, x) /\ Append(q, x)[last] = x
  OBVIOUS
<1>3. \A i \in DOMAIN Append(q, x) : i = last \/ (i \in DOMAIN q /\ Append(q, x)[i] = q[i])
  OBVIOUS
<1>4. \A i \in DOMAIN q : i \in DOMAIN Append(q, x) /\ Append(q, x)[i] = q[i]
  OBVIOUS
<1>5. after = IF x = y THEN before \cup {last} ELSE before
  <2> HIDE DEF last
  <2>1. CASE x = y
    BY <1>2, <1>3, <1>4, <2>1, Zenon
  <2>2. CASE x # y
    BY <1>2, <1>3, <1>4, <2>2, Zenon
  <2> QED  BY <2>1, <2>2
<1>6. Cardinality(before \cup {last}) = Cardinality(before) + 1
  <2> HIDE DEF before, last
  <2> QED  BY <1>1, <1>2, FS_AddElement
<1>7. HowOften(q, y) = Cardinality(before) /\ HowOften(Append(q, x), y) = Cardinality(after)
  BY DEF HowOften
<1> HIDE DEF before, after, last
<1> QED  BY <1>1, <1>5, <1>6, <1>7

\* Every restoration to come is owed to a loss that was announced.
LEMMA ProxyPosts == ProxyInv /\ ProxyNext => PostInv'
<1> SUFFICES ASSUME ProxyInv, ProxyNext PROVE PostInv'
  OBVIOUS
<1>0. PostInv /\ LossInv /\ FlagsType /\ IoType
  BY DEF ProxyInv, TrafficType
<1> DEFINE lost == HowOften(posted, "lost")
           restored == HowOften(posted, "restored")
<1>a. lost \in Nat /\ restored \in Nat
  BY <1>0, OnceMore DEF PostInv
<1>b. ASSUME posted' = Append(posted, "lost")
      PROVE  /\ posted' \in Seq({"lost", "restored"})
             /\ HowOften(posted', "lost") = lost + 1 /\ HowOften(posted', "restored") = restored
  <2>1. posted \in Seq({"lost", "restored"}) /\ "lost" \in {"lost", "restored"} /\ "lost" # "restored"
    BY <1>0 DEF PostInv
  <2> QED  BY <1>a, <1>b, <2>1, OnceMore
<1>c. ASSUME posted' = Append(posted, "restored")
      PROVE  /\ posted' \in Seq({"lost", "restored"})
             /\ HowOften(posted', "lost") = lost /\ HowOften(posted', "restored") = restored + 1
  <2>1. posted \in Seq({"lost", "restored"}) /\ "restored" \in {"lost", "restored"} /\ "lost" # "restored"
    BY <1>0 DEF PostInv
  <2> QED  BY <1>a, <1>c, <2>1, OnceMore
<1> HIDE DEF lost, restored
<1>d. lost = HowOften(posted, "lost") /\ restored = HowOften(posted, "restored")
  BY DEF lost, restored
<1> USE DEF PostInv, Due
<1>1. ASSUME NEW k \in {"reply", "empty"}, Answer(k)  PROVE PostInv'
  BY <1>0, <1>a, <1>d, <1>1 DEF Answer, Send, linkVars, FlagsType, IoType
<1>2. ASSUME NEW k \in {"push", "bad"}, PushMessage(k)  PROVE PostInv'
  BY <1>0, <1>a, <1>d, <1>2 DEF PushMessage, Send, linkVars, FlagsType, IoType
<1>3. CASE DaemonDies
  BY <1>0, <1>a, <1>d, <1>3 DEF DaemonDies, linkVars, FlagsType, IoType
<1>4. CASE DaemonReturns
  BY <1>0, <1>a, <1>d, <1>4 DEF DaemonReturns, linkVars, FlagsType, IoType
<1>5. CASE OwnerConnect
  BY <1>0, <1>a, <1>d, <1>5 DEF OwnerConnect, linkVars, FlagsType, IoType
<1>6. CASE StartThreads
  <2>1. UNCHANGED posted /\ at'.again = at.again /\ at.owner = "start"
    BY <1>0, <1>6 DEF StartThreads, FlagsType
  <2>2. svc'.reconnecting = svc.reconnecting
    BY <1>0, <1>6 DEF StartThreads, FlagsType
  <2>3. CASE io.at = "none"
    <3>1. io'.at = "starting"
      BY <1>0, <1>6, <2>3 DEF StartThreads, IoType
    <3> QED  BY <1>0, <1>a, <1>d, <2>1, <2>2, <3>1
  <2>4. CASE io.at # "none"
    <3>1. UNCHANGED io /\ svc.stopping = FALSE
      BY <1>0, <1>6, <2>1, <2>4 DEF StartThreads, LossInv, FlagsType
    <3> QED  BY <1>0, <1>a, <1>d, <2>1, <2>2, <3>1
  <2> QED  BY <2>3, <2>4
<1>7. CASE Disconnect_
  BY <1>0, <1>a, <1>d, <1>7 DEF Disconnect_, linkVars, FlagsType, IoType
<1>8. CASE Joined
  BY <1>0, <1>a, <1>d, <1>8 DEF Joined, CloseLink, linkVars, FlagsType, IoType
<1>9. CASE TryAgain
  <2> DEFINE stop == svc.stopping \/ attempts >= MaxAttempts
  <2>1. UNCHANGED <<io, posted>> /\ at.again = "loop" /\ svc'.stopping = svc.stopping
    BY <1>0, <1>9 DEF TryAgain, FlagsType
  <2>2. CASE stop
    <3>1. at'.again = "none" /\ svc'.reconnecting = FALSE
      BY <1>0, <1>9, <2>2 DEF TryAgain, FlagsType
    <3> QED  BY <1>0, <1>a, <1>d, <2>1, <3>1
  <2>3. CASE ~stop
    <3>1. at'.again = "begin" /\ svc'.reconnecting = TRUE
      BY <1>0, <1>9, <2>3 DEF TryAgain, FlagsType
    <3> QED  BY <1>0, <1>a, <1>d, <2>1, <3>1
  <2> QED  BY <2>2, <2>3
<1>10. ASSUME NEW t \in {"owner", "again"}, OpenLink(t)  PROVE PostInv'
  BY <1>0, <1>a, <1>d, <1>10 DEF OpenLink, linkVars, FlagsType, IoType
<1>11. ASSUME NEW t \in {"owner", "again"}, OpenFails(t)  PROVE PostInv'
  <2>1. UNCHANGED <<svc, io, posted>> /\ at[t] = "begin"
    BY <1>11, OpenFailsDoes
  <2>2. at'.again = IF t = "again" THEN "loop" ELSE at.again
    BY <1>0, <1>11, OpenFailsDoes DEF FlagsType
  <2> QED  BY <1>0, <1>a, <1>d, <2>1, <2>2 DEF FlagsType, IoType
<1>12. ASSUME NEW t \in {"owner", "again"}, Welcome(t)  PROVE PostInv'
  <2>1. CASE t = "owner"
    BY <1>0, <1>a, <1>d, <1>12, <2>1 DEF Welcome, Welcomed, FlagsType, IoType
  <2>2. CASE t = "again"
    <3>1. posted' = Append(posted, "restored") /\ at[t] = "opened" /\ UNCHANGED io
      BY <1>12, <2>2 DEF Welcome, Welcomed
    <3>2. at'.again = "none" /\ svc'.reconnecting = FALSE /\ svc'.stopping = svc.stopping
      BY <1>0, <1>12, <2>2 DEF Welcome, Welcomed, FlagsType
    <3>3. at.again = "opened" /\ svc.stopping \in BOOLEAN
      BY <1>0, <2>2, <3>1 DEF FlagsType
    <3>4. /\ posted' \in Seq({"lost", "restored"})
          /\ HowOften(posted', "lost") = lost /\ HowOften(posted', "restored") = restored + 1
      BY <1>c, <3>1
    <3>5. UNCHANGED io
      BY <3>1
    <3> QED  BY <1>0, <1>a, <1>d, <3>2, <3>3, <3>4, <3>5
  <2> QED  BY <2>1, <2>2
<1>13. ASSUME NEW t \in {"owner", "again"}, WelcomeRefused(t)  PROVE PostInv'
  <2>1. CASE t = "owner"
    BY <1>0, <1>a, <1>d, <1>13, <2>1 DEF WelcomeRefused, Welcomed, FlagsType, IoType
  <2>2. CASE t = "again"
    <3>1. posted' = Append(posted, "restored") /\ at[t] = "opened" /\ UNCHANGED io
      BY <1>13, <2>2 DEF WelcomeRefused, Welcomed
    <3>2. at'.again = "none" /\ svc'.reconnecting = FALSE /\ svc'.stopping = svc.stopping
      BY <1>0, <1>13, <2>2 DEF WelcomeRefused, Welcomed, FlagsType
    <3>3. at.again = "opened" /\ svc.stopping \in BOOLEAN
      BY <1>0, <2>2, <3>1 DEF FlagsType
    <3>4. /\ posted' \in Seq({"lost", "restored"})
          /\ HowOften(posted', "lost") = lost /\ HowOften(posted', "restored") = restored + 1
      BY <1>c, <3>1
    <3>5. UNCHANGED io
      BY <3>1
    <3> QED  BY <1>0, <1>a, <1>d, <3>2, <3>3, <3>4, <3>5
  <2> QED  BY <2>1, <2>2
<1>14. ASSUME NEW t \in {"owner", "again"}, WelcomeMissing(t)  PROVE PostInv'
  <2>1. CASE t = "owner"
    BY <1>0, <1>a, <1>d, <1>14, <2>1 DEF WelcomeMissing, Welcomed, FlagsType, IoType
  <2>2. CASE t = "again"
    <3>1. posted' = Append(posted, "restored") /\ at[t] = "opened" /\ UNCHANGED io
      BY <1>14, <2>2 DEF WelcomeMissing, Welcomed
    <3>2. at'.again = "none" /\ svc'.reconnecting = FALSE /\ svc'.stopping = svc.stopping
      BY <1>0, <1>14, <2>2 DEF WelcomeMissing, Welcomed, FlagsType
    <3>3. at.again = "opened" /\ svc.stopping \in BOOLEAN
      BY <1>0, <2>2, <3>1 DEF FlagsType
    <3>4. /\ posted' \in Seq({"lost", "restored"})
          /\ HowOften(posted', "lost") = lost /\ HowOften(posted', "restored") = restored + 1
      BY <1>c, <3>1
    <3>5. UNCHANGED io
      BY <3>1
    <3> QED  BY <1>0, <1>a, <1>d, <3>2, <3>3, <3>4, <3>5
  <2> QED  BY <2>1, <2>2
<1>15. CASE IoStart
  BY <1>0, <1>a, <1>d, <1>15 DEF IoStart, linkVars, FlagsType, IoType
<1>16. CASE IoTop
  BY <1>0, <1>a, <1>d, <1>16 DEF IoTop, linkVars, FlagsType, IoType
<1>17. CASE IoWaitOver
  BY <1>0, <1>a, <1>d, <1>17 DEF IoWaitOver, linkVars, FlagsType, IoType
<1>18. CASE IoWoken
  BY <1>0, <1>a, <1>d, <1>18 DEF IoWoken, linkVars, FlagsType, IoType
<1>19. CASE IoReads
  <2>1. io.at = "waiting" /\ UNCHANGED <<svc, at, posted>>
    BY <1>19 DEF IoReads, IoEvent, IoOther
  <2>2. io'.at = "routing"
    BY <1>19, ReadsDoes DEF ProxyInv
  <2> QED  BY <1>0, <1>a, <1>d, <2>1, <2>2
<1>20. CASE IoPoolEmpty
  BY <1>0, <1>a, <1>d, <1>20 DEF IoPoolEmpty, IoEvent, IoOther, linkVars, FlagsType, IoType
<1>21. CASE IoRefuses
  BY <1>0, <1>a, <1>d, <1>21 DEF IoRefuses, IoEvent, IoOther, CloseLink, linkVars, FlagsType, IoType
<1>22. CASE IoTimesOut
  BY <1>0, <1>a, <1>d, <1>22 DEF IoTimesOut, IoEvent, IoOther, linkVars, FlagsType, IoType
<1>23. CASE IoHangUp
  BY <1>0, <1>a, <1>d, <1>23 DEF IoHangUp, IoEvent, IoOther, linkVars, FlagsType, IoType
<1>24. CASE IoRoutes
  BY <1>0, <1>a, <1>d, <1>24 DEF IoRoutes, linkVars, FlagsType, IoType
<1>25. CASE IoCloses
  <2>1. io'.at = "retry" /\ io.at = "lost" /\ UNCHANGED at
    BY <1>0, <1>25 DEF IoCloses, IoType
  <2>2. svc'.stopping = svc.stopping /\ svc'.reconnecting = svc.reconnecting
    BY <1>0, <1>25 DEF IoCloses, FlagsType
  <2>3. CASE svc.connected
    <3>1. posted' = Append(posted, "lost")
      BY <1>25, <2>3 DEF IoCloses
    <3> QED  BY <1>0, <1>a, <1>b, <1>d, <2>1, <2>2, <3>1
  <2>4. CASE ~svc.connected
    <3>1. svc.stopping /\ posted' = posted
      BY <1>0, <1>25, <2>1, <2>4 DEF IoCloses, LossInv
    <3> QED  BY <1>0, <1>a, <1>d, <2>1, <2>2, <3>1
  <2> QED  BY <2>3, <2>4
<1>26. CASE IoRetries
  <2>1. UNCHANGED posted /\ io.at = "retry" /\ io'.at = "top"
    BY <1>0, <1>26 DEF IoRetries, IoType
  <2>2. CASE svc.stopping \/ MaxAttempts = 0 \/ svc.reconnecting
    <3>1. UNCHANGED <<svc, at>>
      BY <1>26, <2>2 DEF IoRetries
    <3> QED  BY <1>0, <1>a, <1>d, <2>1, <3>1
  <2>3. CASE ~(svc.stopping \/ MaxAttempts = 0 \/ svc.reconnecting)
    <3>1. svc'.reconnecting = TRUE /\ at'.again = "loop"
      BY <1>0, <1>26, <2>3 DEF IoRetries, FlagsType
    <3>2. at.again = "none"
      BY <1>0, <2>3
    <3>3. restored + 1 <= lost
      BY <1>0, <1>a, <1>d, <2>1, <2>3, <3>2
    <3> QED  BY <1>0, <1>a, <1>d, <2>1, <3>1, <3>3
  <2> QED  BY <2>2, <2>3
<1>27. ASSUME NEW c \in Callers, Ask(c)  PROVE PostInv'
  BY <1>0, <1>a, <1>d, <1>27 DEF Ask, linkVars, FlagsType, IoType
<1>28. ASSUME NEW c \in Callers, SendRequest(c)  PROVE PostInv'
  BY <1>0, <1>a, <1>d, <1>28 DEF SendRequest, linkVars, FlagsType, IoType
<1>29. ASSUME NEW c \in Callers, SendRequestFails(c)  PROVE PostInv'
  BY <1>0, <1>a, <1>d, <1>29 DEF SendRequestFails, linkVars, FlagsType, IoType
<1>30. ASSUME NEW c \in Callers, TakeReply(c)  PROVE PostInv'
  BY <1>0, <1>a, <1>d, <1>30 DEF TakeReply, linkVars, FlagsType, IoType
<1>31. ASSUME NEW c \in Callers, GiveUp(c)  PROVE PostInv'
  BY <1>0, <1>a, <1>d, <1>31 DEF GiveUp, linkVars, FlagsType, IoType
<1>32. ASSUME NEW c \in Callers, NEW r \in BOOLEAN, Use(c, r)  PROVE PostInv'
  <2>1. UNCHANGED <<svc, at, io, posted>>
    BY <1>32, SMTT(30) DEF Use
  <2> QED  BY <1>0, <1>a, <1>d, <2>1
<1> QED
  BY <1>1, <1>2, <1>3, <1>4, <1>5, <1>6, <1>7, <1>8, <1>9, <1>10, <1>11, <1>12, <1>13, <1>14, <1>15, <1>16,
     <1>17, <1>18, <1>19, <1>20, <1>21, <1>22, <1>23, <1>24, <1>25, <1>26, <1>27, <1>28, <1>29, <1>30, <1>31, <1>32
  DEF ProxyNext, AudioReleases, CameraReleases, SensorReleases, GpioReleases

\* A block of recv_pool_ has one holder.
LEMMA ProxyBlocks == ProxyInv /\ ProxyNext => BlockInv'
<1> SUFFICES ASSUME ProxyInv, ProxyNext PROVE BlockInv'
  OBVIOUS
<1> USE DEF BlockInv, HoldersApart
<1>0. TrafficType /\ FlagsType /\ BlockInv /\ IoType
  BY DEF ProxyInv, TrafficType
<1>1. ASSUME NEW k \in {"reply", "empty"}, Answer(k)  PROVE BlockInv'
  BY <1>0, <1>1, NoMsgType, AnswerDoes DEF Answer, Send, linkVars, Comes
<1>2. ASSUME NEW k \in {"push", "bad"}, PushMessage(k)  PROVE BlockInv'
  BY <1>0, <1>2, NoMsgType, PushDoes DEF PushMessage, Send, linkVars, Comes
<1>3. CASE DaemonDies
  BY <1>0, <1>3, NoMsgType DEF DaemonDies, linkVars
<1>4. CASE DaemonReturns
  BY <1>0, <1>4, NoMsgType DEF DaemonReturns, linkVars
<1>5. CASE OwnerConnect
  BY <1>0, <1>5, NoMsgType DEF OwnerConnect, linkVars
<1>6. CASE StartThreads
  BY <1>0, <1>6, NoMsgType DEF StartThreads, linkVars, IoType
<1>7. CASE Disconnect_
  BY <1>0, <1>7, NoMsgType DEF Disconnect_, linkVars, IoType
<1>8. CASE Joined
  BY <1>0, <1>8, NoMsgType DEF Joined, CloseLink, linkVars, IoType
<1>9. CASE TryAgain
  BY <1>0, <1>9, NoMsgType DEF TryAgain, linkVars
<1>10. ASSUME NEW t \in {"owner", "again"}, OpenLink(t)  PROVE BlockInv'
  BY <1>0, <1>10, NoMsgType DEF OpenLink, linkVars
<1>11. ASSUME NEW t \in {"owner", "again"}, OpenFails(t)  PROVE BlockInv'
  <2>1. UNCHANGED <<io, pending, app, free>> /\ (inbox' = inbox \/ inbox' = << >>)
    BY <1>11, OpenFailsDoes DEF CloseLink, linkVars
  <2> QED  BY <1>0, <2>1
<1>12. ASSUME NEW t \in {"owner", "again"}, Welcome(t)  PROVE BlockInv'
  <2>1. UNCHANGED <<io, pending, app, free>>
    BY <1>12 DEF Welcome, Welcomed
  <2>2. \A i \in DOMAIN inbox' : inbox'[i].blk = "none"
    BY <1>0, <1>12, WelcomeDoes DEF Taken
  <2> QED  BY <1>0, <2>1, <2>2
<1>13. ASSUME NEW t \in {"owner", "again"}, WelcomeRefused(t)  PROVE BlockInv'
  BY <1>0, <1>13, NoMsgType DEF WelcomeRefused, Welcomed, CloseLink, linkVars
<1>14. ASSUME NEW t \in {"owner", "again"}, WelcomeMissing(t)  PROVE BlockInv'
  BY <1>0, <1>14, NoMsgType DEF WelcomeMissing, Welcomed, linkVars
<1>15. CASE IoStart
  BY <1>0, <1>15, NoMsgType DEF IoStart, linkVars, IoType
<1>16. CASE IoTop
  BY <1>0, <1>16, NoMsgType DEF IoTop, linkVars, IoType
<1>17. CASE IoWaitOver
  BY <1>0, <1>17, NoMsgType DEF IoWaitOver, linkVars, IoType
<1>18. CASE IoWoken
  BY <1>0, <1>18, NoMsgType DEF IoWoken, linkVars, IoType
<1>19. CASE IoReads
  <2>1. io.at = "waiting" /\ UNCHANGED <<pending, app>>
    BY <1>19 DEF IoReads, IoEvent, IoOther
  <2>2. \A i \in DOMAIN inbox' : inbox'[i].blk = "none"
    BY <1>0, <1>19, ReadsDoes DEF Taken
  <2>3. /\ io'.at = "routing" /\ io'.msg.blk \in free \cup {"none"}
        /\ free' = free \ {io'.msg.blk}
    BY <1>0, <1>19, ReadsDoes
  <2>4. HoldersApart'
    BY <1>0, <2>1, <2>3, NoMsgType DEF HoldersApart
  <2> QED  BY <1>0, <2>1, <2>2, <2>3, <2>4
<1>20. CASE IoPoolEmpty
  <2>1. UNCHANGED <<pending, app, free>> /\ io.at = "waiting"
    BY <1>20 DEF IoPoolEmpty, IoEvent, IoOther
  <2>2. \A i \in DOMAIN inbox' : inbox'[i].blk = "none"
    BY <1>0, <1>20, PoolEmptyDoes DEF Taken
  <2>3. io'.at = "top" /\ io'.msg = io.msg
    BY <1>0, <1>20, PoolEmptyDoes
  <2> QED  BY <1>0, <2>1, <2>2, <2>3
<1>21. CASE IoRefuses
  BY <1>0, <1>21, NoMsgType DEF IoRefuses, IoEvent, IoOther, CloseLink, linkVars, IoType
<1>22. CASE IoTimesOut
  BY <1>0, <1>22, NoMsgType DEF IoTimesOut, IoEvent, IoOther, linkVars, IoType
<1>23. CASE IoHangUp
  BY <1>0, <1>23, NoMsgType DEF IoHangUp, IoEvent, IoOther, linkVars, IoType
<1>24. CASE IoRoutes
  <2>1. UNCHANGED <<app, inbox>> /\ io'.at = "top" /\ io'.msg = NoMsg
    BY <1>0, <1>24, RoutesDoes DEF IoRoutes, linkVars
  <2>2. CASE pending.ready
    <3>1. free' = free \cup ({io.msg.blk} \ {"none"}) /\ UNCHANGED pending
      BY <1>0, <1>24, <2>2, RoutesDoes
    <3> QED  BY <1>0, <2>1, <2>2, <3>1, NoMsgType
  <2>3. CASE ~pending.ready
    <3>1. pending'.ready = TRUE /\ pending'.msg.blk = io.msg.blk /\ UNCHANGED free
      BY <1>0, <1>24, <2>3, RoutesDoes
    <3> QED  BY <1>0, <2>1, <2>3, <3>1, NoMsgType
  <2> QED  BY <2>2, <2>3
<1>25. CASE IoCloses
  BY <1>0, <1>25, NoMsgType DEF IoCloses, CloseLink, linkVars, IoType
<1>26. CASE IoRetries
  BY <1>0, <1>26, NoMsgType DEF IoRetries, linkVars, IoType
<1>27. ASSUME NEW c \in Callers, Ask(c)  PROVE BlockInv'
  <2>1. UNCHANGED <<io, free, inbox>> /\ pending'.ready = FALSE /\ pending'.msg = NoMsg
    BY <1>27 DEF Ask, linkVars
  <2>2. Becomes(c, "sending", asked + 1, NoMsg)
    BY <1>0, <1>27, CallerDoes
  <2> QED  BY <1>0, <2>1, <2>2, NoMsgType DEF Becomes
<1>28. ASSUME NEW c \in Callers, SendRequest(c)  PROVE BlockInv'
  BY <1>0, <1>28, NoMsgType, CallerDoes DEF SendRequest, linkVars, Becomes
<1>29. ASSUME NEW c \in Callers, SendRequestFails(c)  PROVE BlockInv'
  <2>1. UNCHANGED <<io, pending, free, inbox>>
    BY <1>29 DEF SendRequestFails, linkVars
  <2>2. Becomes(c, "idle", 0, NoMsg)
    BY <1>0, <1>29, CallerDoes
  <2> QED  BY <1>0, <2>1, <2>2, NoMsgType DEF Becomes
<1>30. ASSUME NEW c \in Callers, TakeReply(c)  PROVE BlockInv'
  <2>1. UNCHANGED <<io, free, inbox>> /\ pending'.ready = FALSE /\ pending'.msg = NoMsg
    BY <1>30 DEF TakeReply, linkVars
  <2>2. Becomes(c, "got", app[c].req, pending.msg)
    BY <1>0, <1>30, CallerDoes
  <2> QED  BY <1>0, <2>1, <2>2, NoMsgType DEF Becomes
<1>31. ASSUME NEW c \in Callers, GiveUp(c)  PROVE BlockInv'
  <2>1. UNCHANGED <<io, pending, free, inbox>>
    BY <1>31 DEF GiveUp, linkVars
  <2>2. Becomes(c, "idle", 0, NoMsg)
    BY <1>0, <1>31, CallerDoes
  <2> QED  BY <1>0, <2>1, <2>2, NoMsgType DEF Becomes
<1>32. ASSUME NEW c \in Callers, NEW r \in BOOLEAN, Use(c, r)  PROVE BlockInv'
  <2>1. UNCHANGED <<io, pending, inbox>> /\ free' \in {free, free \cup ({app[c].msg.blk} \ {"none"})}
    BY <1>32 DEF Use, linkVars
  <2>2. Becomes(c, "idle", 0, NoMsg)
    BY <1>0, <1>32, CallerDoes
  <2> QED  BY <1>0, <2>1, <2>2, NoMsgType DEF Becomes
<1> QED
  BY <1>1, <1>2, <1>3, <1>4, <1>5, <1>6, <1>7, <1>8, <1>9, <1>10, <1>11, <1>12, <1>13, <1>14, <1>15, <1>16,
     <1>17, <1>18, <1>19, <1>20, <1>21, <1>22, <1>23, <1>24, <1>25, <1>26, <1>27, <1>28, <1>29, <1>30, <1>31, <1>32
  DEF ProxyNext, AudioReleases, CameraReleases, SensorReleases, GpioReleases

\* A request is younger than what was there before it.
LEMMA ProxyFresh == ProxyInv /\ ProxyNext => AskInv'
<1> SUFFICES ASSUME ProxyInv, ProxyNext PROVE AskInv'
  OBVIOUS
<1> USE DEF AskInv
<1>0. TrafficType /\ FlagsType /\ AskInv
  BY DEF ProxyInv
<1>a. asked \in Nat /\ \A c \in Callers : app[c].req \in Nat /\ app[c].msg.since \in Nat
  BY <1>0 DEF TrafficType, FlagsType, AppType, Requests, Messages
<1>1. ASSUME NEW k \in {"reply", "empty"}, Answer(k)  PROVE AskInv'
  BY <1>0, <1>1 DEF Answer, Send, linkVars
<1>2. ASSUME NEW k \in {"push", "bad"}, PushMessage(k)  PROVE AskInv'
  BY <1>0, <1>2 DEF PushMessage, Send, linkVars
<1>3. CASE DaemonDies
  BY <1>0, <1>3 DEF DaemonDies, linkVars
<1>4. CASE DaemonReturns
  BY <1>0, <1>4 DEF DaemonReturns, linkVars
<1>5. CASE OwnerConnect
  BY <1>0, <1>5 DEF OwnerConnect, linkVars
<1>6. CASE StartThreads
  BY <1>0, <1>6 DEF StartThreads, linkVars
<1>7. CASE Disconnect_
  BY <1>0, <1>7 DEF Disconnect_, linkVars
<1>8. CASE Joined
  BY <1>0, <1>8 DEF Joined, CloseLink, linkVars
<1>9. CASE TryAgain
  BY <1>0, <1>9 DEF TryAgain, linkVars
<1>10. ASSUME NEW t \in {"owner", "again"}, OpenLink(t)  PROVE AskInv'
  BY <1>0, <1>10 DEF OpenLink, linkVars
<1>11. ASSUME NEW t \in {"owner", "again"}, OpenFails(t)  PROVE AskInv'
  BY <1>0, <1>11, OpenFailsDoes
<1>12. ASSUME NEW t \in {"owner", "again"}, Welcome(t)  PROVE AskInv'
  BY <1>0, <1>12 DEF Welcome, Welcomed, linkVars
<1>13. ASSUME NEW t \in {"owner", "again"}, WelcomeRefused(t)  PROVE AskInv'
  BY <1>0, <1>13 DEF WelcomeRefused, Welcomed, CloseLink, linkVars
<1>14. ASSUME NEW t \in {"owner", "again"}, WelcomeMissing(t)  PROVE AskInv'
  BY <1>0, <1>14 DEF WelcomeMissing, Welcomed, linkVars
<1>15. CASE IoStart
  BY <1>0, <1>15 DEF IoStart, linkVars
<1>16. CASE IoTop
  BY <1>0, <1>16 DEF IoTop, linkVars
<1>17. CASE IoWaitOver
  BY <1>0, <1>17 DEF IoWaitOver, linkVars
<1>18. CASE IoWoken
  BY <1>0, <1>18 DEF IoWoken, linkVars
<1>19. CASE IoReads
  BY <1>0, <1>19 DEF IoReads, IoEvent, IoOther, linkVars
<1>20. CASE IoPoolEmpty
  BY <1>0, <1>20 DEF IoPoolEmpty, IoEvent, IoOther, linkVars
<1>21. CASE IoRefuses
  BY <1>0, <1>21 DEF IoRefuses, IoEvent, IoOther, CloseLink, linkVars
<1>22. CASE IoTimesOut
  BY <1>0, <1>22 DEF IoTimesOut, IoEvent, IoOther, linkVars
<1>23. CASE IoHangUp
  BY <1>0, <1>23 DEF IoHangUp, IoEvent, IoOther, linkVars
<1>24. CASE IoRoutes
  <2>1. UNCHANGED <<app, asked>>
    BY <1>24 DEF IoRoutes
  <2>2. pending'.ready => pending'.msg.since = asked
    BY <1>0, <1>24, RoutesDoes
  <2> QED  BY <1>0, <2>1, <2>2
<1>25. CASE IoCloses
  BY <1>0, <1>25 DEF IoCloses, CloseLink, linkVars
<1>26. CASE IoRetries
  BY <1>0, <1>26 DEF IoRetries, linkVars
<1>27. ASSUME NEW c \in Callers, Ask(c)  PROVE AskInv'
  <2>1. asked' = asked + 1 /\ pending'.ready = FALSE
    BY <1>27 DEF Ask
  <2>2. Becomes(c, "sending", asked + 1, NoMsg)
    BY <1>0, <1>27, CallerDoes
  <2>3. \A d \in Callers : d = c \/ app'[d] = app[d]
    BY <2>2 DEF Becomes
  <2>4. app'[c].at = "sending" /\ app'[c].req = asked + 1 /\ app'[c].msg = NoMsg
    BY <2>2 DEF Becomes
  <2> QED  BY <1>0, <1>a, <2>1, <2>3, <2>4
<1>28. ASSUME NEW c \in Callers, SendRequest(c)  PROVE AskInv'
  <2>1. UNCHANGED <<asked, pending>>
    BY <1>28 DEF SendRequest
  <2>2. Becomes(c, "waiting", app[c].req, app[c].msg)
    BY <1>0, <1>28, CallerDoes
  <2>3. \A d \in Callers : d = c \/ app'[d] = app[d]
    BY <2>2 DEF Becomes
  <2>4. app'[c].at = "waiting" /\ app'[c].req = app[c].req /\ app'[c].msg = app[c].msg
    BY <2>2 DEF Becomes
  <2> QED  BY <1>0, <1>a, <2>1, <2>3, <2>4
<1>29. ASSUME NEW c \in Callers, SendRequestFails(c)  PROVE AskInv'
  <2>1. UNCHANGED <<asked, pending>>
    BY <1>29 DEF SendRequestFails
  <2>2. Becomes(c, "idle", 0, NoMsg)
    BY <1>0, <1>29, CallerDoes
  <2>3. \A d \in Callers : d = c \/ app'[d] = app[d]
    BY <2>2 DEF Becomes
  <2>4. app'[c].at = "idle" /\ app'[c].req = 0 /\ app'[c].msg = NoMsg
    BY <2>2 DEF Becomes
  <2> QED  BY <1>0, <1>a, <2>1, <2>3, <2>4
<1>30. ASSUME NEW c \in Callers, TakeReply(c)  PROVE AskInv'
  <2>1. asked' = asked /\ pending.ready /\ pending'.ready = FALSE
    BY <1>30 DEF TakeReply
  <2>2. Becomes(c, "got", app[c].req, pending.msg)
    BY <1>0, <1>30, CallerDoes
  <2>3. \A d \in Callers : d = c \/ app'[d] = app[d]
    BY <2>2 DEF Becomes
  <2>4. app'[c].at = "got" /\ app'[c].req = app[c].req /\ app'[c].msg = pending.msg
    BY <2>2 DEF Becomes
  <2> QED  BY <1>0, <1>a, <2>1, <2>3, <2>4
<1>31. ASSUME NEW c \in Callers, GiveUp(c)  PROVE AskInv'
  <2>1. UNCHANGED <<asked, pending>>
    BY <1>31 DEF GiveUp
  <2>2. Becomes(c, "idle", 0, NoMsg)
    BY <1>0, <1>31, CallerDoes
  <2>3. \A d \in Callers : d = c \/ app'[d] = app[d]
    BY <2>2 DEF Becomes
  <2>4. app'[c].at = "idle" /\ app'[c].req = 0 /\ app'[c].msg = NoMsg
    BY <2>2 DEF Becomes
  <2> QED  BY <1>0, <1>a, <2>1, <2>3, <2>4
<1>32. ASSUME NEW c \in Callers, NEW r \in BOOLEAN, Use(c, r)  PROVE AskInv'
  <2>1. UNCHANGED <<asked, pending>>
    BY <1>32 DEF Use
  <2>2. Becomes(c, "idle", 0, NoMsg)
    BY <1>0, <1>32, CallerDoes
  <2>3. \A d \in Callers : d = c \/ app'[d] = app[d]
    BY <2>2 DEF Becomes
  <2>4. app'[c].at = "idle" /\ app'[c].req = 0 /\ app'[c].msg = NoMsg
    BY <2>2 DEF Becomes
  <2> QED  BY <1>0, <1>a, <2>1, <2>3, <2>4
<1> QED
  BY <1>1, <1>2, <1>3, <1>4, <1>5, <1>6, <1>7, <1>8, <1>9, <1>10, <1>11, <1>12, <1>13, <1>14, <1>15, <1>16,
     <1>17, <1>18, <1>19, <1>20, <1>21, <1>22, <1>23, <1>24, <1>25, <1>26, <1>27, <1>28, <1>29, <1>30, <1>31, <1>32
  DEF ProxyNext, AudioReleases, CameraReleases, SensorReleases, GpioReleases

\* What is mixed stays so.
LEMMA MixedStays == ProxyInv /\ ProxyNext => (mixed => mixed')
<1> SUFFICES ASSUME ProxyInv, ProxyNext PROVE (mixed => mixed')
  OBVIOUS
<1>1. ASSUME NEW k \in {"reply", "empty"}, Answer(k)  PROVE (mixed => mixed')
  BY <1>1 DEF Answer, Send
<1>2. ASSUME NEW k \in {"push", "bad"}, PushMessage(k)  PROVE (mixed => mixed')
  BY <1>2 DEF PushMessage
<1>3. CASE DaemonDies
  BY <1>3 DEF DaemonDies
<1>4. CASE DaemonReturns
  BY <1>4 DEF DaemonReturns
<1>5. CASE OwnerConnect
  BY <1>5 DEF OwnerConnect
<1>6. CASE StartThreads
  BY <1>6 DEF StartThreads
<1>7. CASE Disconnect_
  BY <1>7 DEF Disconnect_
<1>8. CASE Joined
  BY <1>8 DEF Joined
<1>9. CASE TryAgain
  BY <1>9 DEF TryAgain
<1>10. ASSUME NEW t \in {"owner", "again"}, OpenLink(t)  PROVE (mixed => mixed')
  BY <1>10 DEF OpenLink
<1>11. ASSUME NEW t \in {"owner", "again"}, OpenFails(t)  PROVE (mixed => mixed')
  BY <1>11 DEF OpenFails
<1>12. ASSUME NEW t \in {"owner", "again"}, Welcome(t)  PROVE (mixed => mixed')
  BY <1>12 DEF Welcome, Welcomed
<1>13. ASSUME NEW t \in {"owner", "again"}, WelcomeRefused(t)  PROVE (mixed => mixed')
  BY <1>13 DEF WelcomeRefused, Welcomed
<1>14. ASSUME NEW t \in {"owner", "again"}, WelcomeMissing(t)  PROVE (mixed => mixed')
  BY <1>14 DEF WelcomeMissing, Welcomed
<1>15. CASE IoStart
  BY <1>15 DEF IoStart
<1>16. CASE IoTop
  BY <1>16 DEF IoTop
<1>17. CASE IoWaitOver
  BY <1>17 DEF IoWaitOver
<1>18. CASE IoWoken
  BY <1>18 DEF IoWoken
<1>19. CASE IoReads
  BY <1>19 DEF IoReads, IoOther
<1>20. CASE IoPoolEmpty
  BY <1>20 DEF IoPoolEmpty, IoOther
<1>21. CASE IoRefuses
  BY <1>21 DEF IoRefuses, IoOther
<1>22. CASE IoTimesOut
  BY <1>22 DEF IoTimesOut, IoOther
<1>23. CASE IoHangUp
  BY <1>23 DEF IoHangUp, IoOther
<1>24. CASE IoRoutes
  BY <1>24 DEF IoRoutes
<1>25. CASE IoCloses
  BY <1>25 DEF IoCloses
<1>26. CASE IoRetries
  BY <1>26 DEF IoRetries
<1>27. ASSUME NEW c \in Callers, Ask(c)  PROVE (mixed => mixed')
  BY <1>27 DEF Ask
<1>28. ASSUME NEW c \in Callers, SendRequest(c)  PROVE (mixed => mixed')
  BY <1>28 DEF SendRequest
<1>29. ASSUME NEW c \in Callers, SendRequestFails(c)  PROVE (mixed => mixed')
  BY <1>29 DEF SendRequestFails
<1>30. ASSUME NEW c \in Callers, TakeReply(c)  PROVE (mixed => mixed')
  BY <1>30 DEF TakeReply
<1>31. ASSUME NEW c \in Callers, GiveUp(c)  PROVE (mixed => mixed')
  BY <1>31 DEF GiveUp
<1>32. ASSUME NEW c \in Callers, NEW r \in BOOLEAN, Use(c, r)  PROVE (mixed => mixed')
  BY <1>32 DEF Use
<1> QED
  BY <1>1, <1>2, <1>3, <1>4, <1>5, <1>6, <1>7, <1>8, <1>9, <1>10, <1>11, <1>12, <1>13, <1>14, <1>15, <1>16,
     <1>17, <1>18, <1>19, <1>20, <1>21, <1>22, <1>23, <1>24, <1>25, <1>26, <1>27, <1>28, <1>29, <1>30, <1>31, <1>32
  DEF ProxyNext, AudioReleases, CameraReleases, SensorReleases, GpioReleases

\* Connections are made one at a time.
LEMMA ProxyConnects == ProxyInv /\ ProxyNext /\ ~mixed' => ConnInv'
<1> SUFFICES ASSUME ProxyInv, ProxyNext, ~mixed' PROVE ConnInv'
  OBVIOUS
<1> USE DEF ConnInv, LinkInv, FlagsType, IoType, OwnerConnecting
<1>0. TrafficType /\ FlagsType /\ IoType /\ LinkInv /\ LossInv /\ ConnInv
  BY MixedStays DEF ProxyInv, TrafficType, PairedInv
<1>1. ASSUME NEW k \in {"reply", "empty"}, Answer(k)  PROVE ConnInv'
  BY <1>0, <1>1 DEF Answer, Send, linkVars
<1>2. ASSUME NEW k \in {"push", "bad"}, PushMessage(k)  PROVE ConnInv'
  BY <1>0, <1>2 DEF PushMessage, Send, linkVars
<1>3. CASE DaemonDies
  BY <1>0, <1>3 DEF DaemonDies, linkVars
<1>4. CASE DaemonReturns
  BY <1>0, <1>4 DEF DaemonReturns, linkVars
<1>5. CASE OwnerConnect
  BY <1>0, <1>5 DEF OwnerConnect, linkVars, LossInv
<1>6. CASE StartThreads
  BY <1>0, <1>6 DEF StartThreads, linkVars
<1>7. CASE Disconnect_
  BY <1>0, <1>7 DEF Disconnect_, linkVars
<1>8. CASE Joined
  BY <1>0, <1>8 DEF Joined, CloseLink, linkVars
<1>9. CASE TryAgain
  BY <1>0, <1>9 DEF TryAgain, linkVars
<1>10. ASSUME NEW t \in {"owner", "again"}, OpenLink(t)  PROVE ConnInv'
  <2>1. link' = links + 1 /\ UNCHANGED io /\ io.polled # link'
    BY <1>0, <1>10 DEF OpenLink
  <2>2. CASE t = "owner"
    <3>1. at'.owner = "opened" /\ at'.again = at.again /\ at.owner = "begin"
      BY <1>0, <1>10, <2>2 DEF OpenLink
    <3>2. at.again # "opened"
      BY <1>10, <2>2 DEF OpenLink
    <3> QED  BY <1>0, <2>1, <3>1, <3>2
  <2>3. CASE t = "again"
    <3>1. at'.again = "opened" /\ at'.owner = at.owner
      BY <1>0, <1>10, <2>3 DEF OpenLink
    <3>2. ~OwnerConnecting
      BY <1>10, <2>3 DEF OpenLink
    <3> QED  BY <1>0, <2>1, <3>1, <3>2
  <2> QED  BY <2>2, <2>3
<1>11. ASSUME NEW t \in {"owner", "again"}, OpenFails(t)  PROVE ConnInv'
  <2>1. \/ at'.owner \in {at.owner, "idle"} /\ at'.again \in {at.again, "loop"} /\ at'.owner # "opened"
        \/ at.owner = "opened"
    BY <1>0, <1>11, OpenFailsDoes
  <2>2. (link' = link \/ link' = 0) /\ UNCHANGED io
    BY <1>11, OpenFailsDoes DEF CloseLink, linkVars
  <2>3. at[t] = "begin" /\ at'[t] \in {"idle", "loop"}
        /\ (t = "owner" => at'.again = at.again) /\ (t = "again" => at'.owner = at.owner)
    BY <1>0, <1>11, OpenFailsDoes
  <2> QED  BY <1>0, <2>1, <2>2, <2>3
<1>12. ASSUME NEW t \in {"owner", "again"}, Welcome(t)  PROVE ConnInv'
  BY <1>0, <1>12 DEF Welcome, Welcomed, linkVars
<1>13. ASSUME NEW t \in {"owner", "again"}, WelcomeRefused(t)  PROVE ConnInv'
  BY <1>0, <1>13 DEF WelcomeRefused, Welcomed, CloseLink, linkVars
<1>14. ASSUME NEW t \in {"owner", "again"}, WelcomeMissing(t)  PROVE ConnInv'
  BY <1>0, <1>14 DEF WelcomeMissing, Welcomed, linkVars
<1>15. CASE IoStart
  BY <1>0, <1>15 DEF IoStart, linkVars
<1>16. CASE IoTop
  BY <1>0, <1>16 DEF IoTop, linkVars
<1>17. CASE IoWaitOver
  BY <1>0, <1>17 DEF IoWaitOver, linkVars
<1>18. CASE IoWoken
  BY <1>0, <1>18 DEF IoWoken, linkVars
<1>19. CASE IoReads
  <2>1. io.at = "waiting" /\ UNCHANGED <<link, at>>
    BY <1>19 DEF IoReads, IoEvent, IoOther
  <2>2. io'.at = "routing" /\ io'.polled = io.polled
    BY <1>0, <1>19, ReadsDoes
  <2> QED  BY <1>0, <2>1, <2>2
<1>20. CASE IoPoolEmpty
  BY <1>0, <1>20 DEF IoPoolEmpty, IoEvent, IoOther, linkVars
<1>21. CASE IoRefuses
  BY <1>0, <1>21 DEF IoRefuses, IoEvent, IoOther, CloseLink, linkVars
<1>22. CASE IoTimesOut
  BY <1>0, <1>22 DEF IoTimesOut, IoEvent, IoOther, linkVars
<1>23. CASE IoHangUp
  BY <1>0, <1>23 DEF IoHangUp, IoEvent, IoOther, linkVars
<1>24. CASE IoRoutes
  BY <1>0, <1>24 DEF IoRoutes, linkVars
<1>25. CASE IoCloses
  BY <1>0, <1>25 DEF IoCloses, CloseLink, linkVars
<1>26. CASE IoRetries
  BY <1>0, <1>26 DEF IoRetries, linkVars
<1>27. ASSUME NEW c \in Callers, Ask(c)  PROVE ConnInv'
  BY <1>0, <1>27 DEF Ask, linkVars
<1>28. ASSUME NEW c \in Callers, SendRequest(c)  PROVE ConnInv'
  BY <1>0, <1>28 DEF SendRequest, linkVars
<1>29. ASSUME NEW c \in Callers, SendRequestFails(c)  PROVE ConnInv'
  BY <1>0, <1>29 DEF SendRequestFails, linkVars
<1>30. ASSUME NEW c \in Callers, TakeReply(c)  PROVE ConnInv'
  BY <1>0, <1>30 DEF TakeReply, linkVars
<1>31. ASSUME NEW c \in Callers, GiveUp(c)  PROVE ConnInv'
  BY <1>0, <1>31 DEF GiveUp, linkVars
<1>32. ASSUME NEW c \in Callers, NEW r \in BOOLEAN, Use(c, r)  PROVE ConnInv'
  BY <1>0, <1>32 DEF Use, linkVars
<1> QED
  BY <1>1, <1>2, <1>3, <1>4, <1>5, <1>6, <1>7, <1>8, <1>9, <1>10, <1>11, <1>12, <1>13, <1>14, <1>15, <1>16,
     <1>17, <1>18, <1>19, <1>20, <1>21, <1>22, <1>23, <1>24, <1>25, <1>26, <1>27, <1>28, <1>29, <1>30, <1>31, <1>32
  DEF ProxyNext, AudioReleases, CameraReleases, SensorReleases, GpioReleases

\* What the daemon pushes in the handshake is read there.
LEMMA ProxyPushes == ProxyInv /\ ProxyNext /\ ~mixed' => PushInv'
<1> SUFFICES ASSUME ProxyInv, ProxyNext, ~mixed' PROVE PushInv'
  OBVIOUS
<1> USE DEF PushInv
<1>0. TrafficType /\ FlagsType /\ FarType /\ IoType /\ ConnInv /\ PushInv
  BY MixedStays DEF ProxyInv, TrafficType, PairedInv
<1>1. ASSUME NEW k \in {"reply", "empty"}, Answer(k)  PROVE PushInv'
  <2>1. PICK m \in Messages : m.kind = k /\ Comes(m)
    BY <1>0, <1>1, AnswerDoes
  <2>2. far'.open = far.open /\ UNCHANGED <<linkUp, at>>
    BY <1>0, <1>1, AnswerDoes DEF Answer, Send
  <2> QED  BY <1>0, <2>1, <2>2 DEF Comes
<1>2. ASSUME NEW k \in {"push", "bad"}, PushMessage(k)  PROVE PushInv'
  <2>1. PICK m \in Messages : Comes(m)
    BY <1>0, <1>2, PushDoes
  <2>2. "opened" \in {at.owner, at.again} /\ inbox = << >> /\ UNCHANGED at
    BY <1>2 DEF PushMessage, Send
  <2> QED  BY <2>1, <2>2 DEF Comes
<1>3. CASE DaemonDies
  BY <1>0, <1>3 DEF DaemonDies, linkVars, FlagsType, FarType, IoType
<1>4. CASE DaemonReturns
  BY <1>0, <1>4 DEF DaemonReturns, linkVars, FlagsType, FarType, IoType
<1>5. CASE OwnerConnect
  BY <1>0, <1>5 DEF OwnerConnect, linkVars, FlagsType, FarType, IoType
<1>6. CASE StartThreads
  BY <1>0, <1>6 DEF StartThreads, linkVars, FlagsType, FarType, IoType
<1>7. CASE Disconnect_
  BY <1>0, <1>7 DEF Disconnect_, linkVars, FlagsType, FarType, IoType
<1>8. CASE Joined
  BY <1>0, <1>8 DEF Joined, CloseLink, linkVars, FlagsType, FarType, IoType
<1>9. CASE TryAgain
  BY <1>0, <1>9 DEF TryAgain, linkVars, FlagsType, FarType, IoType
<1>10. ASSUME NEW t \in {"owner", "again"}, OpenLink(t)  PROVE PushInv'
  BY <1>0, <1>10 DEF OpenLink, linkVars, FlagsType, FarType, IoType
<1>11. ASSUME NEW t \in {"owner", "again"}, OpenFails(t)  PROVE PushInv'
  <2>1. CASE inbox' = << >>
    BY <2>1
  <2>2. CASE UNCHANGED <<inbox, far, linkUp>>
    <3>1. "opened" \in {at.owner, at.again} => "opened" \in {at'.owner, at'.again}
      BY <1>0, <1>11, OpenFailsDoes DEF FlagsType
    <3> QED  BY <1>0, <2>2, <3>1
  <2> QED  BY <1>11, <2>1, <2>2, OpenFailsDoes DEF CloseLink, linkVars
<1>12. ASSUME NEW t \in {"owner", "again"}, Welcome(t)  PROVE PushInv'
  <2>1. UNCHANGED <<far, linkUp>>
    BY <1>12 DEF Welcome
  <2>2. Taken
    BY <1>0, <1>12, WelcomeDoes
  <2> QED  BY <1>0, <2>1, <2>2 DEF Taken
<1>13. ASSUME NEW t \in {"owner", "again"}, WelcomeRefused(t)  PROVE PushInv'
  BY <1>0, <1>13 DEF WelcomeRefused, Welcomed, CloseLink, linkVars, FlagsType, FarType, IoType
<1>14. ASSUME NEW t \in {"owner", "again"}, WelcomeMissing(t)  PROVE PushInv'
  BY <1>0, <1>14 DEF WelcomeMissing, Welcomed, linkVars, FlagsType, FarType, IoType
<1>15. CASE IoStart
  BY <1>0, <1>15 DEF IoStart, linkVars, FlagsType, FarType, IoType
<1>16. CASE IoTop
  BY <1>0, <1>16 DEF IoTop, linkVars, FlagsType, FarType, IoType
<1>17. CASE IoWaitOver
  BY <1>0, <1>17 DEF IoWaitOver, linkVars, FlagsType, FarType, IoType
<1>18. CASE IoWoken
  BY <1>0, <1>18 DEF IoWoken, linkVars, FlagsType, FarType, IoType
<1>19. CASE IoReads
  <2>1. UNCHANGED <<far, linkUp>>
    BY <1>19 DEF IoReads
  <2>2. Taken
    BY <1>0, <1>19, ReadsDoes
  <2> QED  BY <1>0, <2>1, <2>2 DEF Taken
<1>20. CASE IoPoolEmpty
  <2>1. UNCHANGED <<far, linkUp>>
    BY <1>20 DEF IoPoolEmpty
  <2>2. Taken
    BY <1>0, <1>20, PoolEmptyDoes
  <2> QED  BY <1>0, <2>1, <2>2 DEF Taken
<1>21. CASE IoRefuses
  BY <1>0, <1>21 DEF IoRefuses, IoEvent, IoOther, CloseLink, linkVars, FlagsType, FarType, IoType
<1>22. CASE IoTimesOut
  BY <1>0, <1>22 DEF IoTimesOut, IoEvent, IoOther, linkVars, FlagsType, FarType, IoType
<1>23. CASE IoHangUp
  BY <1>0, <1>23 DEF IoHangUp, IoEvent, IoOther, linkVars, FlagsType, FarType, IoType
<1>24. CASE IoRoutes
  BY <1>0, <1>24 DEF IoRoutes, linkVars, FlagsType, FarType, IoType
<1>25. CASE IoCloses
  BY <1>0, <1>25 DEF IoCloses, CloseLink, linkVars, FlagsType, FarType, IoType
<1>26. CASE IoRetries
  <2>1. UNCHANGED <<inbox, far, linkUp>> /\ at'.owner = at.owner
    BY <1>0, <1>26 DEF IoRetries, linkVars, FlagsType
  <2>2. at'.again = at.again \/ at.again = "none"
    BY <1>0, <1>26 DEF IoRetries, ProxyInv, PostInv
  <2> QED  BY <1>0, <2>1, <2>2
<1>27. ASSUME NEW c \in Callers, Ask(c)  PROVE PushInv'
  BY <1>0, <1>27 DEF Ask, linkVars, FlagsType, FarType, IoType
<1>28. ASSUME NEW c \in Callers, SendRequest(c)  PROVE PushInv'
  BY <1>0, <1>28 DEF SendRequest, linkVars, FlagsType, FarType, IoType
<1>29. ASSUME NEW c \in Callers, SendRequestFails(c)  PROVE PushInv'
  BY <1>0, <1>29 DEF SendRequestFails, linkVars, FlagsType, FarType, IoType
<1>30. ASSUME NEW c \in Callers, TakeReply(c)  PROVE PushInv'
  BY <1>0, <1>30 DEF TakeReply, linkVars, FlagsType, FarType, IoType
<1>31. ASSUME NEW c \in Callers, GiveUp(c)  PROVE PushInv'
  BY <1>0, <1>31 DEF GiveUp, linkVars, FlagsType, FarType, IoType
<1>32. ASSUME NEW c \in Callers, NEW r \in BOOLEAN, Use(c, r)  PROVE PushInv'
  BY <1>0, <1>32 DEF Use, linkVars, FlagsType, FarType, IoType
<1> QED
  BY <1>1, <1>2, <1>3, <1>4, <1>5, <1>6, <1>7, <1>8, <1>9, <1>10, <1>11, <1>12, <1>13, <1>14, <1>15, <1>16,
     <1>17, <1>18, <1>19, <1>20, <1>21, <1>22, <1>23, <1>24, <1>25, <1>26, <1>27, <1>28, <1>29, <1>30, <1>31, <1>32
  DEF ProxyNext, AudioReleases, CameraReleases, SensorReleases, GpioReleases

\* The replies that are left are the ones that were there.
Kept ==
    \E d \in {0, 1} : \A i \in DOMAIN inbox' :
        ~Reply(inbox'[i]) \/ (i \in Nat /\ i + d \in DOMAIN inbox /\ inbox'[i] = inbox[i + d])

\* A read leaves the other replies.
LEMMA TakenKeeps == Taken => Kept
BY DEF Taken, Kept, Reply

\* So does a step that reads nothing, or closes the socket.
LEMMA SameKeeps == (InboxType /\ inbox' = inbox) \/ inbox' = << >> => Kept
<1>1. ASSUME InboxType, inbox' = inbox  PROVE Kept
  <2>1. \A i \in DOMAIN inbox' : i \in Nat /\ i + 0 \in DOMAIN inbox /\ inbox'[i] = inbox[i + 0]
    BY <1>1 DEF InboxType
  <2> QED  BY <2>1 DEF Kept
<1>2. ASSUME inbox' = << >>  PROVE Kept
  BY <1>2 DEF Kept
<1> QED  BY <1>1, <1>2

\* A step that only takes replies away keeps the rest in order.
LEMMA FewerInFlight ==
    ASSUME FlyInv, OneInv, UNCHANGED <<app, pending>>, Kept,
           io'.at = "routing" => io.at = "routing" /\ io'.msg = io.msg,
           far'.todo = far.todo \/ far'.todo = << >>
    PROVE  FlyInv' /\ OneInv'
<1>1. PICK d \in {0, 1} : \A i \in DOMAIN inbox' :
         ~Reply(inbox'[i]) \/ (i \in Nat /\ i + d \in DOMAIN inbox /\ inbox'[i] = inbox[i + d])
  BY DEF Kept
<1>2. Arrived' => Arrived
  BY <1>1 DEF Arrived
<1>3. \A i, j \in DOMAIN inbox' : Reply(inbox'[i]) /\ Reply(inbox'[j]) => i = j
  <2> SUFFICES ASSUME NEW i \in DOMAIN inbox', NEW j \in DOMAIN inbox', Reply(inbox'[i]), Reply(inbox'[j])
               PROVE  i = j
    OBVIOUS
  <2>1. i \in Nat /\ j \in Nat /\ i + d \in DOMAIN inbox /\ j + d \in DOMAIN inbox
        /\ Reply(inbox[i + d]) /\ Reply(inbox[j + d])
    BY <1>1
  <2>2. i + d = j + d
    BY <2>1 DEF OneInv
  <2> QED  BY <2>1, <2>2
<1>4. OneInv'
  BY <1>2, <1>3 DEF OneInv
<1>5. ASSUME NEW c \in Callers, app'[c].at = "waiting", NEW i \in DOMAIN inbox', Reply(inbox'[i])
      PROVE  inbox'[i].of = app'[c].req
  BY <1>1, <1>5 DEF FlyInv
<1>6. ASSUME \A c \in Callers : app'[c].at # "waiting"
      PROVE  far'.todo = << >> /\ ~Arrived' /\ io'.at # "routing" /\ ~pending'.ready
  BY <1>2, <1>6 DEF FlyInv
<1>7. ASSUME NEW c \in Callers, app'[c].at = "waiting"
      PROVE  /\ \A i \in DOMAIN far'.todo : far'.todo[i] = app'[c].req
             /\ io'.at = "routing" => io'.msg.of = app'[c].req
             /\ pending'.ready => pending'.msg.of = app'[c].req
  BY <1>7 DEF FlyInv
<1>8. \A c \in Callers : app'[c].at = "got" => app'[c].msg.of = app'[c].req
  BY DEF FlyInv
<1>9. \A c, e \in Callers : app'[c].at # "idle" /\ app'[e].at # "idle" => c = e
  BY DEF FlyInv
<1> QED  BY <1>4, <1>5, <1>6, <1>7, <1>8, <1>9 DEF FlyInv

\* One reply at a time is on its way, to the request that waits for it.
LEMMA ProxyFlies == ProxyInv /\ ProxyNext /\ ~mixed' => FlyInv' /\ OneInv'
<1> SUFFICES ASSUME ProxyInv, ProxyNext, ~mixed' PROVE FlyInv' /\ OneInv'
  OBVIOUS
<1>0. /\ TrafficType /\ FlagsType /\ FarType /\ IoType /\ InboxType
      /\ ConnInv /\ PushInv /\ FlyInv /\ OneInv
  BY MixedStays DEF ProxyInv, TrafficType, PairedInv
<1>1. ASSUME NEW k \in {"reply", "empty"}, Answer(k)  PROVE FlyInv' /\ OneInv'
  <2>1. PICK m \in Messages : m.kind = k /\ m.of = far.todo[1] /\ Comes(m)
    BY <1>0, <1>1, AnswerDoes
  <2>2. far.todo # << >> /\ far'.todo = Tail(far.todo) /\ UNCHANGED <<app, pending, io>>
    BY <1>0, <1>1, AnswerDoes DEF Answer, Send
  <2>3. /\ ~Arrived /\ io.at # "routing" /\ ~pending.ready
        /\ far'.todo = << >> /\ 1 \in DOMAIN far.todo
    BY <1>0, <2>2 DEF OneInv, FarType
  <2>4. PICK c \in Callers : app[c].at = "waiting"
    BY <1>0, <2>2 DEF FlyInv
  <2>5. \A e \in Callers : app[e].at = "waiting" => m.of = app[e].req
    BY <1>0, <2>1, <2>3 DEF FlyInv
  <2>6. \A i \in DOMAIN inbox' : Reply(inbox'[i]) => i = Len(inbox) + 1 /\ inbox'[i] = m
    BY <2>1, <2>3 DEF Comes, Arrived
  <2>7. UNCHANGED <<app, pending, io>> /\ far'.todo = << >> /\ Len(far'.todo) = 0
    BY <2>2, <2>3
  <2>8. OneInv'
    BY <2>3, <2>6, <2>7 DEF OneInv
  <2>9. FlyInv'
    BY <1>0, <2>3, <2>4, <2>5, <2>6, <2>7 DEF FlyInv
  <2> QED  BY <2>8, <2>9
<1>2. ASSUME NEW k \in {"push", "bad"}, PushMessage(k)  PROVE FlyInv' /\ OneInv'
  <2>1. /\ UNCHANGED <<app, pending>> /\ (far'.todo = far.todo \/ far'.todo = << >>)
        /\ io'.at = "routing" => io.at = "routing" /\ io'.msg = io.msg
    BY <1>0, <1>2 DEF PushMessage, Send, linkVars, FarType, IoType
  <2>2. Kept
    <3>1. PICK m \in Messages : m.kind = k /\ Comes(m)
      BY <1>0, <1>2, PushDoes
    <3>2. ~Reply(m)
      BY <3>1 DEF Reply
    <3>3. \A i \in DOMAIN inbox' : ~Reply(inbox'[i]) \/ (i \in DOMAIN inbox /\ inbox'[i] = inbox[i])
      BY <3>1, <3>2 DEF Comes
    <3>4. \A i \in DOMAIN inbox : i \in Nat /\ i + 0 = i
      BY <1>0 DEF InboxType
    <3> QED  BY <3>3, <3>4 DEF Kept
  <2> QED  BY <1>0, <2>1, <2>2, FewerInFlight
<1>3. CASE DaemonDies
  <2>1. /\ UNCHANGED <<app, pending>> /\ (far'.todo = far.todo \/ far'.todo = << >>)
        /\ io'.at = "routing" => io.at = "routing" /\ io'.msg = io.msg
    BY <1>0, <1>3 DEF DaemonDies, linkVars, FarType, IoType
  <2>2. Kept
    BY <1>0, <1>3, SameKeeps DEF DaemonDies, linkVars
  <2> QED  BY <1>0, <2>1, <2>2, FewerInFlight
<1>4. CASE DaemonReturns
  <2>1. /\ UNCHANGED <<app, pending>> /\ (far'.todo = far.todo \/ far'.todo = << >>)
        /\ io'.at = "routing" => io.at = "routing" /\ io'.msg = io.msg
    BY <1>0, <1>4 DEF DaemonReturns, linkVars, FarType, IoType
  <2>2. Kept
    BY <1>0, <1>4, SameKeeps DEF DaemonReturns, linkVars
  <2> QED  BY <1>0, <2>1, <2>2, FewerInFlight
<1>5. CASE OwnerConnect
  <2>1. /\ UNCHANGED <<app, pending>> /\ (far'.todo = far.todo \/ far'.todo = << >>)
        /\ io'.at = "routing" => io.at = "routing" /\ io'.msg = io.msg
    BY <1>0, <1>5 DEF OwnerConnect, linkVars, FarType, IoType
  <2>2. Kept
    BY <1>0, <1>5, SameKeeps DEF OwnerConnect, linkVars
  <2> QED  BY <1>0, <2>1, <2>2, FewerInFlight
<1>6. CASE StartThreads
  <2>1. /\ UNCHANGED <<app, pending>> /\ (far'.todo = far.todo \/ far'.todo = << >>)
        /\ io'.at = "routing" => io.at = "routing" /\ io'.msg = io.msg
    BY <1>0, <1>6 DEF StartThreads, linkVars, FarType, IoType
  <2>2. Kept
    BY <1>0, <1>6, SameKeeps DEF StartThreads, linkVars
  <2> QED  BY <1>0, <2>1, <2>2, FewerInFlight
<1>7. CASE Disconnect_
  <2>1. /\ UNCHANGED <<app, pending>> /\ (far'.todo = far.todo \/ far'.todo = << >>)
        /\ io'.at = "routing" => io.at = "routing" /\ io'.msg = io.msg
    BY <1>0, <1>7 DEF Disconnect_, linkVars, FarType, IoType
  <2>2. Kept
    BY <1>0, <1>7, SameKeeps DEF Disconnect_, linkVars
  <2> QED  BY <1>0, <2>1, <2>2, FewerInFlight
<1>8. CASE Joined
  <2>1. /\ UNCHANGED <<app, pending>> /\ (far'.todo = far.todo \/ far'.todo = << >>)
        /\ io'.at = "routing" => io.at = "routing" /\ io'.msg = io.msg
    BY <1>0, <1>8 DEF Joined, CloseLink, linkVars, FarType, IoType
  <2>2. Kept
    BY <1>0, <1>8, SameKeeps DEF Joined, CloseLink, linkVars
  <2> QED  BY <1>0, <2>1, <2>2, FewerInFlight
<1>9. CASE TryAgain
  <2>1. /\ UNCHANGED <<app, pending>> /\ (far'.todo = far.todo \/ far'.todo = << >>)
        /\ io'.at = "routing" => io.at = "routing" /\ io'.msg = io.msg
    BY <1>0, <1>9 DEF TryAgain, linkVars, FarType, IoType
  <2>2. Kept
    BY <1>0, <1>9, SameKeeps DEF TryAgain, linkVars
  <2> QED  BY <1>0, <2>1, <2>2, FewerInFlight
<1>10. ASSUME NEW t \in {"owner", "again"}, OpenLink(t)  PROVE FlyInv' /\ OneInv'
  <2>1. /\ UNCHANGED <<app, pending>> /\ (far'.todo = far.todo \/ far'.todo = << >>)
        /\ io'.at = "routing" => io.at = "routing" /\ io'.msg = io.msg
    BY <1>0, <1>10 DEF OpenLink, linkVars, FarType, IoType
  <2>2. Kept
    BY <1>0, <1>10, SameKeeps DEF OpenLink, linkVars
  <2> QED  BY <1>0, <2>1, <2>2, FewerInFlight
<1>11. ASSUME NEW t \in {"owner", "again"}, OpenFails(t)  PROVE FlyInv' /\ OneInv'
  <2>1. UNCHANGED <<app, pending, io>>
    BY <1>11, OpenFailsDoes
  <2>2. far'.todo = far.todo \/ far'.todo = << >>
    <3>1. far' = far \/ far' = [open |-> FALSE, todo |-> << >>]
      BY <1>11, OpenFailsDoes, Zenon DEF CloseLink, linkVars
    <3> QED  BY <3>1
  <2>3. Kept
    BY <1>0, <1>11, OpenFailsDoes, SameKeeps DEF CloseLink, linkVars
  <2> QED  BY <1>0, <2>1, <2>2, <2>3, FewerInFlight
<1>12. ASSUME NEW t \in {"owner", "again"}, Welcome(t)  PROVE FlyInv' /\ OneInv'
  <2>1. /\ UNCHANGED <<app, pending>> /\ (far'.todo = far.todo \/ far'.todo = << >>)
        /\ io'.at = "routing" => io.at = "routing" /\ io'.msg = io.msg
    BY <1>0, <1>12 DEF Welcome, Welcomed, linkVars, FarType, IoType
  <2>2. Kept
    BY <1>0, <1>12, WelcomeDoes, TakenKeeps
  <2> QED  BY <1>0, <2>1, <2>2, FewerInFlight
<1>13. ASSUME NEW t \in {"owner", "again"}, WelcomeRefused(t)  PROVE FlyInv' /\ OneInv'
  <2>1. /\ UNCHANGED <<app, pending>> /\ (far'.todo = far.todo \/ far'.todo = << >>)
        /\ io'.at = "routing" => io.at = "routing" /\ io'.msg = io.msg
    BY <1>0, <1>13 DEF WelcomeRefused, Welcomed, CloseLink, linkVars, FarType, IoType
  <2>2. Kept
    BY <1>0, <1>13, SameKeeps DEF WelcomeRefused, Welcomed, CloseLink, linkVars
  <2> QED  BY <1>0, <2>1, <2>2, FewerInFlight
<1>14. ASSUME NEW t \in {"owner", "again"}, WelcomeMissing(t)  PROVE FlyInv' /\ OneInv'
  <2>1. /\ UNCHANGED <<app, pending>> /\ (far'.todo = far.todo \/ far'.todo = << >>)
        /\ io'.at = "routing" => io.at = "routing" /\ io'.msg = io.msg
    BY <1>0, <1>14 DEF WelcomeMissing, Welcomed, linkVars, FarType, IoType
  <2>2. Kept
    BY <1>0, <1>14, SameKeeps DEF WelcomeMissing, Welcomed, linkVars
  <2> QED  BY <1>0, <2>1, <2>2, FewerInFlight
<1>15. CASE IoStart
  <2>1. /\ UNCHANGED <<app, pending>> /\ (far'.todo = far.todo \/ far'.todo = << >>)
        /\ io'.at = "routing" => io.at = "routing" /\ io'.msg = io.msg
    BY <1>0, <1>15 DEF IoStart, linkVars, FarType, IoType
  <2>2. Kept
    BY <1>0, <1>15, SameKeeps DEF IoStart, linkVars
  <2> QED  BY <1>0, <2>1, <2>2, FewerInFlight
<1>16. CASE IoTop
  <2>1. /\ UNCHANGED <<app, pending>> /\ (far'.todo = far.todo \/ far'.todo = << >>)
        /\ io'.at = "routing" => io.at = "routing" /\ io'.msg = io.msg
    BY <1>0, <1>16 DEF IoTop, linkVars, FarType, IoType
  <2>2. Kept
    BY <1>0, <1>16, SameKeeps DEF IoTop, linkVars
  <2> QED  BY <1>0, <2>1, <2>2, FewerInFlight
<1>17. CASE IoWaitOver
  <2>1. /\ UNCHANGED <<app, pending>> /\ (far'.todo = far.todo \/ far'.todo = << >>)
        /\ io'.at = "routing" => io.at = "routing" /\ io'.msg = io.msg
    BY <1>0, <1>17 DEF IoWaitOver, linkVars, FarType, IoType
  <2>2. Kept
    BY <1>0, <1>17, SameKeeps DEF IoWaitOver, linkVars
  <2> QED  BY <1>0, <2>1, <2>2, FewerInFlight
<1>18. CASE IoWoken
  <2>1. /\ UNCHANGED <<app, pending>> /\ (far'.todo = far.todo \/ far'.todo = << >>)
        /\ io'.at = "routing" => io.at = "routing" /\ io'.msg = io.msg
    BY <1>0, <1>18 DEF IoWoken, linkVars, FarType, IoType
  <2>2. Kept
    BY <1>0, <1>18, SameKeeps DEF IoWoken, linkVars
  <2> QED  BY <1>0, <2>1, <2>2, FewerInFlight
<1>19. CASE IoReads
  <2>1. /\ far.open /\ linkUp /\ io.polled = link /\ link # 0 /\ UNCHANGED <<app, pending, far>>
    BY <1>19 DEF IoReads, IoEvent, IoOther
  <2>2. /\ Taken /\ 1 \in DOMAIN inbox /\ inbox[1].kind \in {"reply", "empty", "push"}
        /\ io'.at = "routing" /\ io'.msg.of = inbox[1].of
    BY <1>0, <1>19, ReadsDoes
  <2>3. Reply(inbox[1])
    BY <1>0, <2>1, <2>2 DEF ConnInv, PushInv, Reply
  <2>4. Arrived /\ far.todo = << >> /\ ~pending.ready
    BY <1>0, <2>2, <2>3 DEF Arrived, OneInv
  <2>5. \A i \in DOMAIN inbox' : ~Reply(inbox'[i])
    <3> SUFFICES ASSUME NEW i \in DOMAIN inbox', Reply(inbox'[i])  PROVE FALSE
      OBVIOUS
    <3>1. PICK d \in {0, 1} : i + d > 1 /\ i + d \in DOMAIN inbox /\ inbox'[i] = inbox[i + d]
      BY <2>2 DEF Taken, Reply
    <3> QED  BY <1>0, <2>2, <2>3, <3>1 DEF OneInv
  <2>6. OneInv'
    BY <2>1, <2>4, <2>5 DEF OneInv, Arrived
  <2>7. \A c \in Callers : app[c].at = "waiting" => inbox[1].of = app[c].req
    BY <1>0, <2>2, <2>3 DEF FlyInv
  <2>8. \E c \in Callers : app[c].at = "waiting"
    BY <1>0, <2>4 DEF FlyInv
  <2>9. FlyInv'
    BY <1>0, <2>1, <2>2, <2>4, <2>5, <2>7, <2>8 DEF FlyInv
  <2> QED  BY <2>6, <2>9
<1>20. CASE IoPoolEmpty
  <2>1. /\ UNCHANGED <<app, pending>> /\ (far'.todo = far.todo \/ far'.todo = << >>)
        /\ io'.at = "routing" => io.at = "routing" /\ io'.msg = io.msg
    BY <1>0, <1>20 DEF IoPoolEmpty, IoEvent, IoOther, linkVars, FarType, IoType
  <2>2. Kept
    BY <1>0, <1>20, PoolEmptyDoes, TakenKeeps
  <2> QED  BY <1>0, <2>1, <2>2, FewerInFlight
<1>21. CASE IoRefuses
  <2>1. /\ UNCHANGED <<app, pending>> /\ (far'.todo = far.todo \/ far'.todo = << >>)
        /\ io'.at = "routing" => io.at = "routing" /\ io'.msg = io.msg
    BY <1>0, <1>21 DEF IoRefuses, IoEvent, IoOther, CloseLink, linkVars, FarType, IoType
  <2>2. Kept
    BY <1>0, <1>21, SameKeeps DEF IoRefuses, IoEvent, IoOther, CloseLink, linkVars
  <2> QED  BY <1>0, <2>1, <2>2, FewerInFlight
<1>22. CASE IoTimesOut
  <2>1. /\ UNCHANGED <<app, pending>> /\ (far'.todo = far.todo \/ far'.todo = << >>)
        /\ io'.at = "routing" => io.at = "routing" /\ io'.msg = io.msg
    BY <1>0, <1>22 DEF IoTimesOut, IoEvent, IoOther, linkVars, FarType, IoType
  <2>2. Kept
    BY <1>0, <1>22, SameKeeps DEF IoTimesOut, IoEvent, IoOther, linkVars
  <2> QED  BY <1>0, <2>1, <2>2, FewerInFlight
<1>23. CASE IoHangUp
  <2>1. /\ UNCHANGED <<app, pending>> /\ (far'.todo = far.todo \/ far'.todo = << >>)
        /\ io'.at = "routing" => io.at = "routing" /\ io'.msg = io.msg
    BY <1>0, <1>23 DEF IoHangUp, IoEvent, IoOther, linkVars, FarType, IoType
  <2>2. Kept
    BY <1>0, <1>23, SameKeeps DEF IoHangUp, IoEvent, IoOther, linkVars
  <2> QED  BY <1>0, <2>1, <2>2, FewerInFlight
<1>24. CASE IoRoutes
  <2>1. io.at = "routing" /\ io'.at = "top" /\ UNCHANGED <<app, far, inbox>>
    BY <1>0, <1>24, RoutesDoes DEF IoRoutes, linkVars
  <2>2. ~pending.ready /\ ~Arrived /\ far.todo = << >>
    BY <1>0, <2>1 DEF OneInv
  <2>3. pending'.ready = TRUE /\ pending'.msg.of = io.msg.of
    BY <1>0, <1>24, <2>2, RoutesDoes
  <2>4. ~Arrived'
    BY <2>1, <2>2 DEF Arrived
  <2>5. OneInv'
    BY <1>0, <2>1, <2>2, <2>4 DEF OneInv
  <2>6. FlyInv'
    BY <1>0, <2>1, <2>2, <2>3, <2>4 DEF FlyInv
  <2> QED  BY <2>5, <2>6
<1>25. CASE IoCloses
  <2>1. /\ UNCHANGED <<app, pending>> /\ (far'.todo = far.todo \/ far'.todo = << >>)
        /\ io'.at = "routing" => io.at = "routing" /\ io'.msg = io.msg
    BY <1>0, <1>25 DEF IoCloses, CloseLink, linkVars, FarType, IoType
  <2>2. Kept
    BY <1>0, <1>25, SameKeeps DEF IoCloses, CloseLink, linkVars
  <2> QED  BY <1>0, <2>1, <2>2, FewerInFlight
<1>26. CASE IoRetries
  <2>1. /\ UNCHANGED <<app, pending>> /\ (far'.todo = far.todo \/ far'.todo = << >>)
        /\ io'.at = "routing" => io.at = "routing" /\ io'.msg = io.msg
    BY <1>0, <1>26 DEF IoRetries, linkVars, FarType, IoType
  <2>2. Kept
    BY <1>0, <1>26, SameKeeps DEF IoRetries, linkVars
  <2> QED  BY <1>0, <2>1, <2>2, FewerInFlight
<1>27. ASSUME NEW c \in Callers, Ask(c)  PROVE FlyInv' /\ OneInv'
  <2>1. Becomes(c, "sending", asked + 1, NoMsg)
    BY <1>0, <1>27, CallerDoes
  <2>2. /\ \A e \in Callers : e = c \/ app'[e] = app[e]
        /\ app'[c].at = "sending" /\ app'[c].req = asked + 1 /\ app'[c].msg = NoMsg
    BY <2>1 DEF Becomes
  <2>3. \A e \in Callers : e = c \/ app[e].at = "idle"
    BY <1>0, <1>27 DEF FlyInv, Ask, Others
  <2>4. far.todo = << >> /\ ~Arrived /\ io.at # "routing" /\ ~pending.ready
    BY <1>0, <1>27, <2>3 DEF FlyInv, Ask
  <2>5. UNCHANGED <<far, inbox, io>> /\ pending'.ready = FALSE
    BY <1>27 DEF Ask, linkVars
  <2>6. ~Arrived'
    BY <2>4, <2>5 DEF Arrived
  <2>7. OneInv'
    BY <1>0, <2>4, <2>5, <2>6 DEF OneInv
  <2>8. FlyInv'
    BY <1>0, <2>2, <2>3, <2>4, <2>5, <2>6 DEF FlyInv
  <2> QED  BY <2>7, <2>8
<1>28. ASSUME NEW c \in Callers, SendRequest(c)  PROVE FlyInv' /\ OneInv'
  <2>1. Becomes(c, "waiting", app[c].req, app[c].msg)
    BY <1>0, <1>28, CallerDoes
  <2>2. /\ \A e \in Callers : e = c \/ app'[e] = app[e]
        /\ app'[c].at = "waiting" /\ app'[c].req = app[c].req /\ app'[c].msg = app[c].msg
    BY <2>1 DEF Becomes
  <2>3. \A e \in Callers : e = c \/ app[e].at = "idle"
    BY <1>0, <1>28 DEF FlyInv, SendRequest
  <2>4. far.todo = << >> /\ ~Arrived /\ io.at # "routing" /\ ~pending.ready
    BY <1>0, <1>28, <2>3 DEF FlyInv, SendRequest
  <2>5. UNCHANGED <<inbox, io, pending>> /\ far'.todo = <<app[c].req>>
    <3>1. far'.todo = Append(far.todo, app[c].req) /\ UNCHANGED <<inbox, io, pending>>
      BY <1>0, <1>28 DEF SendRequest, FarType
    <3> QED  BY <2>4, <3>1
  <2>6. ~Arrived'
    BY <2>4, <2>5 DEF Arrived
  <2>7. OneInv'
    BY <1>0, <2>4, <2>5, <2>6 DEF OneInv
  <2>8. FlyInv'
    BY <1>0, <2>2, <2>3, <2>4, <2>5, <2>6 DEF FlyInv, Arrived
  <2> QED  BY <2>7, <2>8
<1>29. ASSUME NEW c \in Callers, SendRequestFails(c)  PROVE FlyInv' /\ OneInv'
  <2>1. Becomes(c, "idle", 0, NoMsg)
    BY <1>0, <1>29, CallerDoes
  <2>2. /\ \A e \in Callers : e = c \/ app'[e] = app[e]
        /\ app'[c].at = "idle" /\ app'[c].req = 0 /\ app'[c].msg = NoMsg
    BY <2>1 DEF Becomes
  <2>3. \A e \in Callers : e = c \/ app[e].at = "idle"
    BY <1>0, <1>29 DEF FlyInv, SendRequestFails
  <2>4. far.todo = << >> /\ ~Arrived /\ io.at # "routing" /\ ~pending.ready
    BY <1>0, <1>29, <2>3 DEF FlyInv, SendRequestFails
  <2>5. UNCHANGED <<far, inbox, io, pending>>
    BY <1>29 DEF SendRequestFails, linkVars
  <2>6. ~Arrived'
    BY <2>4, <2>5 DEF Arrived
  <2>7. OneInv'
    BY <1>0, <2>4, <2>5, <2>6 DEF OneInv
  <2>8. FlyInv'
    BY <1>0, <2>2, <2>3, <2>4, <2>5, <2>6 DEF FlyInv
  <2> QED  BY <2>7, <2>8
<1>30. ASSUME NEW c \in Callers, TakeReply(c)  PROVE FlyInv' /\ OneInv'
  <2>1. Becomes(c, "got", app[c].req, pending.msg)
    BY <1>0, <1>30, CallerDoes
  <2>2. /\ \A e \in Callers : e = c \/ app'[e] = app[e]
        /\ app'[c].at = "got" /\ app'[c].req = app[c].req /\ app'[c].msg = pending.msg
    BY <2>1 DEF Becomes
  <2>3. \A e \in Callers : e = c \/ app[e].at = "idle"
    BY <1>0, <1>30 DEF FlyInv, TakeReply
  <2>4. pending.ready /\ far.todo = << >> /\ ~Arrived /\ io.at # "routing" /\ pending.msg.of = app[c].req
    BY <1>0, <1>30 DEF FlyInv, OneInv, TakeReply
  <2>5. UNCHANGED <<far, inbox, io>> /\ pending'.ready = FALSE
    BY <1>30 DEF TakeReply, linkVars
  <2>6. ~Arrived'
    BY <2>4, <2>5 DEF Arrived
  <2>7. OneInv'
    BY <1>0, <2>4, <2>5, <2>6 DEF OneInv
  <2>8. FlyInv'
    BY <1>0, <2>2, <2>3, <2>4, <2>5, <2>6 DEF FlyInv
  <2> QED  BY <2>7, <2>8
<1>31. ASSUME NEW c \in Callers, GiveUp(c)  PROVE FlyInv' /\ OneInv'
  BY <1>31 DEF GiveUp
<1>32. ASSUME NEW c \in Callers, NEW r \in BOOLEAN, Use(c, r)  PROVE FlyInv' /\ OneInv'
  <2>1. Becomes(c, "idle", 0, NoMsg)
    BY <1>0, <1>32, CallerDoes
  <2>2. /\ \A e \in Callers : e = c \/ app'[e] = app[e]
        /\ app'[c].at = "idle" /\ app'[c].req = 0 /\ app'[c].msg = NoMsg
    BY <2>1 DEF Becomes
  <2>3. \A e \in Callers : e = c \/ app[e].at = "idle"
    BY <1>0, <1>32 DEF FlyInv, Use
  <2>4. far.todo = << >> /\ ~Arrived /\ io.at # "routing" /\ ~pending.ready
    BY <1>0, <1>32, <2>3 DEF FlyInv, Use
  <2>5. UNCHANGED <<far, inbox, io, pending>>
    BY <1>32 DEF Use, linkVars
  <2>6. ~Arrived'
    BY <2>4, <2>5 DEF Arrived
  <2>7. OneInv'
    BY <1>0, <2>4, <2>5, <2>6 DEF OneInv
  <2>8. FlyInv'
    BY <1>0, <2>2, <2>3, <2>4, <2>5, <2>6 DEF FlyInv
  <2> QED  BY <2>7, <2>8
<1> QED
  BY <1>1, <1>2, <1>3, <1>4, <1>5, <1>6, <1>7, <1>8, <1>9, <1>10, <1>11, <1>12, <1>13, <1>14, <1>15, <1>16,
     <1>17, <1>18, <1>19, <1>20, <1>21, <1>22, <1>23, <1>24, <1>25, <1>26, <1>27, <1>28, <1>29, <1>30, <1>31, <1>32
  DEF ProxyNext, AudioReleases, CameraReleases, SensorReleases, GpioReleases

\* Nothing has been posted at first.
LEMMA NoneYet == ASSUME NEW y  PROVE HowOften(<< >>, y) = 0
<1>1. {i \in DOMAIN << >> : << >>[i] = y} = {}
  OBVIOUS
<1> QED  BY <1>1, FS_EmptySet DEF HowOften

\* A new proxy.
LEMMA ProxyInitially == ProxyInit => ProxyInv
<1> SUFFICES ASSUME ProxyInit PROVE ProxyInv
  OBVIOUS
<1> USE DEF ProxyInit
<1>1. FlagsType
  BY DEF FlagsType
<1>2. FarType /\ InboxType
  BY DEF FarType, InboxType
<1>3. IoType /\ PendingType
  BY NoMsgType DEF IoType, PendingType
<1>4. AppType /\ \A c \in Callers : app[c].at = "idle" /\ app[c].req = 0 /\ app[c].msg = NoMsg
  BY IdleType DEF AppType
<1>5. BlockInv
  BY <1>4, NoMsgType DEF BlockInv, HoldersApart
<1>6. StopInv /\ LinkInv /\ LossInv
  BY DEF StopInv, LinkInv, LossInv
<1>7. PostInv
  <2>1. posted = << >> /\ ~svc.reconnecting /\ at.again = "none" /\ io.at = "none"
    OBVIOUS
  <2> QED  BY <2>1, NoneYet DEF PostInv, Due
<1>8. AskInv
  BY <1>4 DEF AskInv
<1>9. PairedInv
  <2>1. ConnInv /\ PushInv
    BY DEF ConnInv, PushInv
  <2>2. ~Arrived
    BY DEF Arrived
  <2>3. far.todo = << >> /\ Len(far.todo) = 0 /\ inbox = << >> /\ ~pending.ready /\ io.at # "routing"
    OBVIOUS
  <2>4. FlyInv /\ OneInv
    BY <1>4, <2>2, <2>3 DEF FlyInv, OneInv
  <2> QED  BY <2>1, <2>4 DEF PairedInv
<1> QED  BY <1>1, <1>2, <1>3, <1>4, <1>5, <1>6, <1>7, <1>8, <1>9 DEF ProxyInv, TrafficType

\* A step of any thread keeps what is known.
LEMMA ProxyStep == ProxyInv /\ [ProxyNext]_proxyVars => ProxyInv'
<1> SUFFICES ASSUME ProxyInv, [ProxyNext]_proxyVars PROVE ProxyInv'
  OBVIOUS
<1>1. CASE ProxyNext
  <2>1. PairedInv'
    BY <1>1, ProxyConnects, ProxyPushes, ProxyFlies DEF PairedInv
  <2> QED
    BY <1>1, <2>1, ProxyFlagsType, ProxyTrafficType, ProxyBlocks, ProxyControl, ProxyPosts, ProxyFresh DEF ProxyInv
<1>2. CASE UNCHANGED proxyVars
  <2> USE <1>2 DEF proxyVars, linkVars, ProxyInv
  <2>1. FlagsType' /\ TrafficType'
    BY DEF FlagsType, TrafficType, FarType, InboxType, IoType, PendingType, AppType
  <2>2. BlockInv' /\ StopInv' /\ LinkInv' /\ LossInv' /\ AskInv'
    BY DEF BlockInv, HoldersApart, StopInv, LinkInv, LossInv, AskInv
  <2>3. PostInv'
    BY DEF PostInv, Due
  <2>4. PairedInv'
    BY DEF PairedInv, ConnInv, PushInv, FlyInv, OneInv, Arrived
  <2> QED  BY <2>1, <2>2, <2>3, <2>4
<1> QED  BY <1>1, <1>2

\* What is known is enough for the properties.
LEMMA ProxyInvSafe == ProxyInv => ProxySafe
<1> SUFFICES ASSUME ProxyInv PROVE ProxySafe
  OBVIOUS
<1>1. FreshReply
  BY DEF ProxyInv, FreshReply, AskInv, PairedInv, FlyInv
<1>2. BlocksOwned
  BY ApartOwned DEF ProxyInv, BlockInv
<1>3. StopNotLost
  BY DEF ProxyInv, StopNotLost, StopInv
<1>4. RestoredAfterLost
  <2>1. HowOften(posted, "restored") \in Nat /\ HowOften(posted, "lost") \in Nat
    BY OnceMore DEF ProxyInv, PostInv
  <2>2. HowOften(posted, "restored") + Due <= HowOften(posted, "lost") /\ Due \in Nat
    BY DEF ProxyInv, PostInv, Due
  <2> QED  BY <2>1, <2>2 DEF RestoredAfterLost
<1> QED  BY <1>1, <1>2, <1>3, <1>4 DEF ProxySafe

\* Whatever the owner, the callers, the io thread, the reconnecting thread and
\* the daemon do between each other: a request takes no message older than
\* itself, and its own reply as long as requests and connections follow each
\* other; a block of the receive pool has one holder; disconnect() is seen by
\* the io thread; and no more restorations are announced than losses
\* (service_proxy.cpp).
THEOREM ProxyCorrect == ProxySpec => []ProxySafe
<1>1. ProxySpec => []ProxyInv
  BY ProxyInitially, ProxyStep, PTL DEF ProxySpec
<1> QED  BY <1>1, ProxyInvSafe, PTL

-----------------------------------------------------------------------------
(* Typed services.                                                        *)

LEMMA DivMod ==
  ASSUME NEW a \in Nat, NEW b \in Nat \ {0}
  PROVE  a = (a \div b) * b + (a % b) /\ a % b \in 0 .. b - 1 /\ a \div b \in Nat
OBVIOUS

LEMMA ModNear ==
  ASSUME NEW a \in Nat, NEW c \in Nat, NEW b \in Nat \ {0}, a < c, c - a < b
  PROVE  a % b # c % b
<1> DEFINE q == a \div b
           r == a % b
           p == c \div b
<1> SUFFICES ASSUME r = c % b PROVE FALSE
  OBVIOUS
<1>1. a = q * b + r /\ r \in 0 .. b - 1 /\ q \in Nat
  BY DivMod
<1>2. c = p * b + r /\ p \in Nat
  BY DivMod
<1> HIDE DEF q, r, p
<1>3. CASE p =< q
  BY <1>1, <1>2, <1>3
<1>4. CASE q < p
  <2>1. q + 1 =< p
    BY <1>1, <1>2, <1>4
  <2>2. (q + 1) * b =< p * b
    BY <1>1, <1>2, <2>1
  <2>3. q * b + b =< p * b
    BY <1>1, <2>2
  <2> QED BY <1>1, <1>2, <2>3
<1> QED BY <1>1, <1>2, <1>3, <1>4

-----------------------------------------------------------------------------
(***************************************************************************)
(* The areas of ProxyService.  A step changes the variables of one.        *)
(***************************************************************************)
QueueNext ==
    \/ StopQueue \/ ConsumerTop \/ ConsumerTakes
    \/ \E p \in Posters : Claim(p)
    \/ \E p \in Posters \cup {"stopper"} : DropOldest(p) \/ Place(p)

FrameNext ==
    \/ (\E laps \in BOOLEAN : WriteFrame(laps)) \/ (\E ok \in BOOLEAN : OpenRing(ok) \/ ReopenRing(ok)) \/ LoseRing
    \/ PollFrame \/ ReadFrame \/ (\E on \in BOOLEAN : Capture(on)) \/ Captured
    \/ EndBegins \/ PollEnds \/ EndCompletes

ShmNext ==
    \/ \E r \in Regions, n \in {"na", "nb"} : (\E ok \in BOOLEAN : CreateRegion(r, n, ok)) \/ OpenRegion(r, n)
    \/ \E r, q \in Regions : CloseRegion(r) \/ MoveRegion(r, q)

LookNext ==
    \/ LookUp \/ LookGoesOn \/ Deadline
    \/ \E x \in {"found", "not_found", "failed"} : LookEnds(x)

LEMMA AreaSteps ==
  ASSUME [PsNext]_serviceVars
  PROVE  [QueueNext]_queueVars /\ [FrameNext]_frameVars /\ [ShmNext]_shmVars /\ [LookNext]_look
<1>1. CASE QueueNext
  <2>1. UNCHANGED QueueOther
    BY <1>1 DEF QueueNext, StopQueue, ConsumerTop, ConsumerTakes, Claim, DropOldest, Place
  <2> QED BY <1>1, <2>1 DEF QueueOther
<1>2. CASE FrameNext
  <2>1. UNCHANGED FrameOther
    BY <1>2 DEF FrameNext, WriteFrame, OpenRing, ReopenRing, LoseRing, PollFrame, ReadFrame, Capture,
                Captured, EndBegins, PollEnds, EndCompletes
  <2> QED BY <1>2, <2>1 DEF FrameOther
<1>3. CASE ShmNext
  <2>1. UNCHANGED ShmOther
    BY <1>3 DEF ShmNext, CreateRegion, OpenRegion, CloseRegion, MoveRegion
  <2> QED BY <1>3, <2>1 DEF ShmOther
<1>4. CASE LookNext
  <2>1. UNCHANGED LookOther
    BY <1>4 DEF LookNext, LookUp, LookGoesOn, Deadline, LookEnds
  <2> QED BY <1>4, <2>1 DEF LookOther
<1>5. CASE UNCHANGED serviceVars
  BY <1>5 DEF serviceVars
<1>6. PsNext => QueueNext \/ FrameNext \/ ShmNext \/ LookNext
  BY DEF PsNext, QueueNext, FrameNext, ShmNext, LookNext
<1> QED BY <1>1, <1>2, <1>3, <1>4, <1>5, <1>6

(***************************************************************************)
(* Lookups and regions.                                                    *)
(***************************************************************************)
LookInv ==
    /\ look \in [step : {"idle", "again", "connecting", "header", "payload", "reply", "body", "done"}, fd : BOOLEAN,
                 tries : Nat, result : {"none", "found", "not_found", "failed", "timeout"}]
    /\ LookupClosed

LEMMA AfterGoesOn ==
  ASSUME NEW s \in {"connecting", "header", "payload", "reply"}
  PROVE  After(s) \in {"header", "payload", "reply", "body"}
<1> DEFINE i == CHOOSE i \in 1 .. 4 : LookSteps[i] = s
<1>1. /\ LookSteps[1] = "connecting" /\ LookSteps[2] = "header" /\ LookSteps[3] = "payload"
      /\ LookSteps[4] = "reply" /\ LookSteps[5] = "body"
  BY DEF LookSteps
<1>2. \E j \in 1 .. 4 : LookSteps[j] = s
  BY <1>1
<1>3. i \in 1 .. 4
  BY <1>2
<1>4. After(s) = LookSteps[i + 1]
  BY DEF After
<1> HIDE DEF i
<1>5. i + 1 \in {2, 3, 4, 5}
  BY <1>3
<1> QED BY <1>1, <1>4, <1>5

LEMMA LookStep == LookInv /\ [LookNext]_look => LookInv'
<1> SUFFICES ASSUME LookInv, [LookNext]_look PROVE LookInv'
  OBVIOUS
<1> DEFINE LookRec == [step : {"idle", "again", "connecting", "header", "payload", "reply", "body", "done"}, fd : BOOLEAN,
                       tries : Nat, result : {"none", "found", "not_found", "failed", "timeout"}]
<1>0. look \in LookRec /\ (look.step \in {"idle", "again", "done"} => ~look.fd)
  BY DEF LookInv, LookupClosed
<1>1. ASSUME LookUp PROVE LookInv'
  <2> DEFINE a == [look EXCEPT !.step = "connecting"]
             b == [a EXCEPT !.tries = @ + 1]
  <2>1. look' = [b EXCEPT !.result = "none"]
    BY <1>1 DEF LookUp
  <2>2. a \in LookRec /\ a.step = "connecting"
    BY <1>0
  <2> HIDE DEF a
  <2>3. b \in LookRec /\ b.step = "connecting"
    BY <2>2
  <2> HIDE DEF b
  <2>4. look' \in LookRec /\ look'.step = "connecting"
    BY <2>1, <2>3
  <2> QED BY <2>4 DEF LookInv, LookupClosed
<1>2. ASSUME LookGoesOn PROVE LookInv'
  <2> DEFINE s == After(look.step)
             a == [look EXCEPT !.step = s]
  <2>1. look' = [a EXCEPT !.fd = TRUE] /\ s \in {"header", "payload", "reply", "body"}
    BY <1>2, AfterGoesOn DEF LookGoesOn
  <2> HIDE DEF s
  <2>2. a \in LookRec /\ a.step = s
    BY <1>0, <2>1
  <2> HIDE DEF a
  <2>3. look' \in LookRec /\ look'.step = s
    BY <2>1, <2>2
  <2> QED BY <2>1, <2>3 DEF LookInv, LookupClosed
<1>3. ASSUME NEW x \in {"found", "not_found", "failed"}, LookEnds(x) PROVE LookInv'
  <2> DEFINE t == IF x = "not_found" THEN "again" ELSE "done"
             a == [look EXCEPT !.fd = FALSE]
             b == [a EXCEPT !.result = x]
  <2>1. look' = [b EXCEPT !.step = t] /\ t \in {"again", "done"}
    BY <1>3 DEF LookEnds, Returns
  <2> HIDE DEF t
  <2>2. a \in LookRec /\ a.fd = FALSE
    BY <1>0
  <2> HIDE DEF a
  <2>3. b \in LookRec /\ b.fd = FALSE
    BY <2>2
  <2> HIDE DEF b
  <2>4. look' \in LookRec /\ look'.fd = FALSE
    BY <2>1, <2>3
  <2> QED BY <2>4 DEF LookInv, LookupClosed
<1>4. ASSUME Deadline PROVE LookInv'
  <2> DEFINE a == [look EXCEPT !.step = "done"]
  <2>1. look' = [a EXCEPT !.result = "timeout"] /\ ~look.fd
    BY <1>0, <1>4 DEF Deadline
  <2>2. a \in LookRec /\ a.fd = look.fd
    BY <1>0
  <2> HIDE DEF a
  <2>3. look' \in LookRec /\ look'.fd = look.fd
    BY <2>1, <2>2
  <2> QED BY <2>1, <2>3 DEF LookInv, LookupClosed
<1>5. ASSUME look' = look PROVE LookInv'
  BY <1>5 DEF LookInv, LookupClosed
<1> QED BY <1>1, <1>2, <1>3, <1>4, <1>5 DEF LookNext

RegionRec == [name : {"none", "na", "nb"}, owner : BOOLEAN]

RegionInv ==
    /\ region \in [Regions -> RegionRec]
    /\ \A r \in Regions : region[r].owner => region[r].name # "none"
    /\ RegionsOwned

LEMMA NamesAre ==
  RegionsOwned <=>
    /\ \A r, q \in Regions : region[r].owner /\ region[q].owner /\ region[r].name = region[q].name => r = q
    /\ \A n : n \in names <=> \E r \in Regions : region[r].owner /\ region[r].name = n
BY DEF RegionsOwned

LEMMA RegionStep == RegionInv /\ [ShmNext]_shmVars => RegionInv'
<1> SUFFICES ASSUME RegionInv, [ShmNext]_shmVars PROVE RegionInv'
  OBVIOUS
<1>0. /\ region \in [Regions -> RegionRec] /\ Unmapped \in RegionRec
      /\ Unmapped.owner = FALSE /\ Unmapped.name = "none"
      /\ \A r \in Regions : region[r].owner => region[r].name # "none"
      /\ \A r, q \in Regions : region[r].owner /\ region[q].owner /\ region[r].name = region[q].name => r = q
      /\ \A n : n \in names <=> \E r \in Regions : region[r].owner /\ region[r].name = n
  BY NamesAre DEF RegionInv, RegionRec, Unmapped
<1>n. ASSUME \A r, q \in Regions : region'[r].owner /\ region'[q].owner /\ region'[r].name = region'[q].name => r = q,
             \A n : n \in names' <=> \E r \in Regions : region'[r].owner /\ region'[r].name = n
      PROVE  RegionsOwned'
  BY <1>n DEF RegionsOwned
<1>1. ASSUME NEW r \in Regions, NEW n \in {"na", "nb"}, NEW ok \in BOOLEAN, CreateRegion(r, n, ok) PROVE RegionInv'
  <2>1. CASE ok
    <3> DEFINE new == [name |-> n, owner |-> TRUE]
    <3>1. new \in RegionRec /\ new.name = n /\ new.owner = TRUE /\ n # "none"
      BY DEF RegionRec
    <3>2. /\ region' = [region EXCEPT ![r] = new] /\ names' = names \cup {n} /\ n \notin names
          /\ region[r].name = "none"
      BY <1>1, <2>1 DEF CreateRegion
    <3> HIDE DEF new
    <3>3. region' \in [Regions -> RegionRec] /\ region'[r] = new /\ \A q \in Regions : q # r => region'[q] = region[q]
      BY <1>0, <3>1, <3>2
    <3>4. \A q \in Regions : region'[q].owner => region'[q].name # "none"
      BY <1>0, <3>1, <3>3
    <3>5. \A q \in Regions : region[q].owner => region[q].name # n /\ q # r
      BY <1>0, <3>2
    <3>6. \A p, q \in Regions : region'[p].owner /\ region'[q].owner /\ region'[p].name = region'[q].name => p = q
      BY <1>0, <3>1, <3>3, <3>5
    <3>7. \A m : m \in names' <=> \E q \in Regions : region'[q].owner /\ region'[q].name = m
      BY <1>0, <3>1, <3>2, <3>3, <3>5
    <3> QED BY <1>n, <3>3, <3>4, <3>6, <3>7 DEF RegionInv
  <2>2. CASE ~ok
    BY <1>1, <2>2 DEF CreateRegion, RegionInv, RegionsOwned
  <2> QED BY <2>1, <2>2
<1>2. ASSUME NEW r \in Regions, NEW n \in {"na", "nb"}, OpenRegion(r, n) PROVE RegionInv'
  <2> DEFINE new == [name |-> n, owner |-> FALSE]
  <2>1. new \in RegionRec /\ new.owner = FALSE
    BY DEF RegionRec
  <2>2. region' = [region EXCEPT ![r] = new] /\ names' = names /\ region[r].name = "none"
    BY <1>2 DEF OpenRegion
  <2> HIDE DEF new
  <2>3. region' \in [Regions -> RegionRec] /\ region'[r] = new /\ \A q \in Regions : q # r => region'[q] = region[q]
    BY <1>0, <2>1, <2>2
  <2>4. ~region[r].owner
    BY <1>0, <2>2
  <2>5. \A q \in Regions : region'[q].owner => region[q].owner /\ region'[q] = region[q]
    BY <2>1, <2>3
  <2>6. \A q \in Regions : region[q].owner => region'[q] = region[q]
    BY <2>3, <2>4
  <2>7. \A p, q \in Regions : region'[p].owner /\ region'[q].owner /\ region'[p].name = region'[q].name => p = q
    BY <1>0, <2>5
  <2>8. \A m : m \in names' <=> \E q \in Regions : region'[q].owner /\ region'[q].name = m
    BY <1>0, <2>2, <2>5, <2>6
  <2>9. \A q \in Regions : region'[q].owner => region'[q].name # "none"
    BY <1>0, <2>5
  <2> QED BY <1>n, <2>3, <2>7, <2>8, <2>9 DEF RegionInv
<1>3. ASSUME NEW r \in Regions, CloseRegion(r) PROVE RegionInv'
  <2>1. region' = [region EXCEPT ![r] = Unmapped] /\ names' = names \ Unlinked(r)
    BY <1>3 DEF CloseRegion
  <2>2. region' \in [Regions -> RegionRec] /\ region'[r] = Unmapped /\ \A q \in Regions : q # r => region'[q] = region[q]
    BY <1>0, <2>1
  <2>3. \A q \in Regions : region'[q].owner => q # r /\ region[q].owner /\ region'[q] = region[q]
    BY <1>0, <2>2
  <2>4. \A p, q \in Regions : region'[p].owner /\ region'[q].owner /\ region'[p].name = region'[q].name => p = q
    BY <1>0, <2>3
  <2>5. ASSUME NEW m PROVE m \in names' <=> \E q \in Regions : region'[q].owner /\ region'[q].name = m
    <3>1. m \in names' <=> m \in names /\ ~(region[r].owner /\ region[r].name = m)
      BY <2>1 DEF Unlinked
    <3>2. m \in names <=> \E q \in Regions : region[q].owner /\ region[q].name = m
      BY <1>0
    <3> QED BY <1>0, <2>2, <2>3, <3>1, <3>2
  <2>6. \A q \in Regions : region'[q].owner => region'[q].name # "none"
    BY <1>0, <2>3
  <2> QED BY <1>n, <2>2, <2>4, <2>5, <2>6 DEF RegionInv
<1>4. ASSUME NEW r \in Regions, NEW q \in Regions, MoveRegion(r, q) PROVE RegionInv'
  <2> DEFINE first == [region EXCEPT ![r] = region[q]]
  <2>1. region' = [first EXCEPT ![q] = Unmapped] /\ names' = names \ Unlinked(r) /\ r # q
    BY <1>4 DEF MoveRegion
  <2>2. /\ first \in [Regions -> RegionRec] /\ first[r] = region[q]
        /\ \A p \in Regions : p # r => first[p] = region[p]
    BY <1>0
  <2> HIDE DEF first
  <2>3. /\ region' \in [Regions -> RegionRec] /\ region'[q] = Unmapped /\ region'[r] = region[q]
        /\ \A p \in Regions : p # r /\ p # q => region'[p] = region[p]
    BY <1>0, <2>1, <2>2
  <2>4. \A p \in Regions : region'[p].owner => p # q
    BY <1>0, <2>3
  <2>5. \A p, s \in Regions : region'[p].owner /\ region'[s].owner /\ region'[p].name = region'[s].name => p = s
    BY <1>0, <2>3, <2>4
  <2>6. ASSUME NEW m PROVE m \in names' <=> \E p \in Regions : region'[p].owner /\ region'[p].name = m
    <3>1. m \in names' <=> m \in names /\ ~(region[r].owner /\ region[r].name = m)
      BY <2>1 DEF Unlinked
    <3>2. m \in names <=> \E p \in Regions : region[p].owner /\ region[p].name = m
      BY <1>0
    <3>3. (\E p \in Regions : region'[p].owner /\ region'[p].name = m) =>
            \E p \in Regions : p # r /\ region[p].owner /\ region[p].name = m
      BY <2>1, <2>3, <2>4
    <3>4. (\E p \in Regions : p # r /\ region[p].owner /\ region[p].name = m) =>
            \E p \in Regions : region'[p].owner /\ region'[p].name = m
      BY <2>3
    <3> QED BY <1>0, <3>1, <3>2, <3>3, <3>4
  <2>7. \A p \in Regions : region'[p].owner => region'[p].name # "none"
    BY <1>0, <2>3, <2>4
  <2> QED BY <1>n, <2>3, <2>5, <2>6, <2>7 DEF RegionInv
<1>5. ASSUME UNCHANGED shmVars PROVE RegionInv'
  BY <1>5 DEF shmVars, RegionInv, RegionsOwned
<1> QED BY <1>1, <1>2, <1>3, <1>4, <1>5 DEF ShmNext

(***************************************************************************)
(* The callback queue.  Each claim is in one place: run, in a slot, or     *)
(* with its poster; and while no claim has overrun the slots, the slots    *)
(* hold exactly the window between tail and head.                          *)
(***************************************************************************)
Threads   == Posters \cup {"stopper"}
SlotIds   == 0 .. QueueCap - 1
SlotRec   == {EmptySlot} \cup [ready : {TRUE}, fn : Nat \ {0}]
PosterRec == [at : {"idle", "placing", "dropped", "joining"}, idx : Nat]
Active(p) == poster[p].at \in {"placing", "dropped"}

QueueTypes ==
    /\ head \in Nat /\ tail \in Nat /\ drainedTo \in Nat
    /\ slots \in [SlotIds -> SlotRec]
    /\ poster \in [Threads -> PosterRec]
    /\ consumer \in {"top", "taking", "ended"}
    /\ ran \in Seq(Nat)
    /\ overrun \in BOOLEAN /\ running_ \in BOOLEAN
    /\ running_ => poster["stopper"].at = "idle"

\* No claim is in two places.
ClaimsOnce ==
    /\ \A i \in DOMAIN ran : ran[i] \in 1 .. head
    /\ \A i, j \in DOMAIN ran : ran[i] = ran[j] => i = j
    /\ \A s \in SlotIds : slots[s].fn =< head
    /\ \A s \in SlotIds : slots[s].ready => \A i \in DOMAIN ran : ran[i] # slots[s].fn
    /\ \A s, t \in SlotIds : slots[s].ready /\ slots[t].ready /\ slots[s].fn = slots[t].fn => s = t
    /\ \A p \in Threads : Active(p) => poster[p].idx < head
    /\ \A p \in Threads : Active(p) => \A i \in DOMAIN ran : ran[i] # poster[p].idx + 1
    /\ \A p \in Threads : Active(p) => \A s \in SlotIds : slots[s].ready => slots[s].fn # poster[p].idx + 1
    /\ \A p, q \in Threads : Active(p) /\ Active(q) /\ poster[p].idx = poster[q].idx => p = q

\* The slots between tail and head.
Window ==
    /\ tail =< head /\ head =< tail + QueueCap
    /\ Len(ran) = tail /\ \A i \in DOMAIN ran : ran[i] = i
    /\ \A i \in tail .. head - 1 : slots[SlotOf(i)].ready => slots[SlotOf(i)].fn = i + 1
    /\ \A s \in SlotIds : slots[s].ready => \E i \in tail .. head - 1 : s = SlotOf(i)
    /\ \A p \in Threads : poster[p].at # "dropped"
    /\ \A p \in Threads : poster[p].at = "placing" =>
          poster[p].idx \in tail .. head - 1 /\ ~slots[SlotOf(poster[p].idx)].ready
    /\ consumer = "taking" => tail < head /\ slots[SlotOf(tail)].ready
    /\ consumer = "ended" => drainedTo = tail

QueueInv == QueueTypes /\ ClaimsOnce /\ (~overrun => Window)

LEMMA SlotsApart ==
  ASSUME NEW i \in Nat, NEW j \in Nat, NEW t \in Nat, t =< i, t =< j, i < t + QueueCap, j < t + QueueCap, i # j
  PROVE  SlotOf(i) # SlotOf(j)
<1>1. QueueCap \in Nat \ {0}
  BY PsAssumption
<1>2. CASE i < j
  <2>1. j - i < QueueCap
    BY <1>1, <1>2
  <2>2. i % QueueCap # j % QueueCap
    BY <1>1, <1>2, <2>1, ModNear
  <2> QED BY <2>2 DEF SlotOf
<1>3. CASE j < i
  <2>1. i - j < QueueCap
    BY <1>1, <1>3
  <2>2. j % QueueCap # i % QueueCap
    BY <1>1, <1>3, <2>1, ModNear
  <2> QED BY <2>2 DEF SlotOf
<1> QED BY <1>2, <1>3

LEMMA SlotOfIn ==
  ASSUME NEW i \in Nat
  PROVE  SlotOf(i) \in SlotIds
BY PsAssumption, DivMod DEF SlotOf, SlotIds

LEMMA SlotFacts ==
  /\ EmptySlot \in SlotRec /\ EmptySlot.ready = FALSE /\ EmptySlot.fn = 0
  /\ \A s \in SlotRec : s.ready \in BOOLEAN /\ s.fn \in Nat /\ (s.ready <=> s.fn # 0)
  /\ \A n \in Nat : [ready |-> TRUE, fn |-> n + 1] \in SlotRec
<1>1. EmptySlot \in SlotRec /\ EmptySlot.ready = FALSE /\ EmptySlot.fn = 0
  BY DEF SlotRec, EmptySlot
<1>2. ASSUME NEW s \in SlotRec PROVE s.ready \in BOOLEAN /\ s.fn \in Nat /\ (s.ready <=> s.fn # 0)
  <2>1. CASE s = EmptySlot
    <3>1. s.ready = FALSE /\ s.fn = 0 /\ 0 \in Nat
      BY <1>1, <2>1
    <3> QED BY <3>1, Zenon
  <2>2. CASE s \in [ready : {TRUE}, fn : Nat \ {0}]
    <3>1. s.ready = TRUE /\ s.fn \in Nat /\ s.fn # 0
      BY <2>2
    <3> QED BY <3>1
  <2> QED BY <2>1, <2>2 DEF SlotRec
<1>3. ASSUME NEW n \in Nat PROVE [ready |-> TRUE, fn |-> n + 1] \in SlotRec
  <2>1. n + 1 \in Nat \ {0}
    OBVIOUS
  <2> QED BY <2>1 DEF SlotRec
<1> QED BY <1>1, <1>2, <1>3

\* A claim, by a poster or by stop.
LEMMA ClaimKeeps ==
  ASSUME QueueInv, NEW p \in Threads, poster[p].at \in {"idle"},
         poster' = [poster EXCEPT ![p] = [at |-> "placing", idx |-> head]],
         head' = head + 1, overrun' = (overrun \/ head - tail >= QueueCap),
         UNCHANGED <<tail, slots, consumer, ran, drainedTo>>,
         running_' \in BOOLEAN, running_' => poster'["stopper"].at = "idle"
  PROVE  QueueInv'
<1>0. QueueTypes /\ ClaimsOnce /\ (~overrun => Window)
  BY DEF QueueInv
<1>q. QueueCap \in Nat \ {0}
  BY PsAssumption
<1> DEFINE new == [at |-> "placing", idx |-> head]
<1>1. new \in PosterRec /\ new.at = "placing" /\ new.idx = head
  BY <1>0 DEF QueueTypes, PosterRec
<1>2. poster' = [poster EXCEPT ![p] = new]
  OBVIOUS
<1> HIDE DEF new
<1>3. /\ poster' \in [Threads -> PosterRec] /\ poster'[p] = new
      /\ \A q \in Threads : q # p => poster'[q] = poster[q]
  BY <1>0, <1>1, <1>2 DEF QueueTypes
<1>4. QueueTypes'
  <2>1. overrun' \in BOOLEAN
    BY <1>0 DEF QueueTypes
  <2>2. head' \in Nat
    BY <1>0 DEF QueueTypes
  <2> QED BY <1>0, <1>3, <2>1, <2>2 DEF QueueTypes
<1>t. head \in Nat /\ tail \in Nat /\ slots \in [SlotIds -> SlotRec] /\ ran \in Seq(Nat)
  BY <1>0 DEF QueueTypes
<1>i. \A i \in DOMAIN ran : ran[i] \in Nat
  BY <1>t
<1>s. \A s \in SlotIds : slots[s].fn \in Nat /\ slots[s].ready \in BOOLEAN
  BY <1>t, SlotFacts
<1>p. \A q \in Threads : poster[q].idx \in Nat
  BY <1>0 DEF QueueTypes, PosterRec
<1>5. ClaimsOnce'
  <2>1. \A i \in DOMAIN ran : ran[i] \in 1 .. head'
    BY <1>0, <1>t, <1>i DEF ClaimsOnce
  <2>2. \A s \in SlotIds : slots[s].fn =< head'
    BY <1>0, <1>t, <1>s DEF ClaimsOnce
  <2>3. \A q \in Threads : Active(q)' => poster'[q].idx < head'
    BY <1>0, <1>1, <1>3, <1>t, <1>p DEF ClaimsOnce, Active
  <2>4. \A q \in Threads : Active(q)' => \A i \in DOMAIN ran : ran[i] # poster'[q].idx + 1
    <3>1. \A i \in DOMAIN ran : ran[i] # head + 1
      BY <1>0, <1>t, <1>i DEF ClaimsOnce
    <3> QED BY <1>0, <1>1, <1>3, <3>1 DEF ClaimsOnce, Active
  <2>5. \A q \in Threads : Active(q)' => \A s \in SlotIds : slots[s].ready => slots[s].fn # poster'[q].idx + 1
    <3>1. \A s \in SlotIds : slots[s].fn # head + 1
      BY <1>0, <1>t, <1>s DEF ClaimsOnce
    <3> QED BY <1>0, <1>1, <1>3, <3>1 DEF ClaimsOnce, Active
  <2>6. \A q, r \in Threads : Active(q)' /\ Active(r)' /\ poster'[q].idx = poster'[r].idx => q = r
    <3>1. \A q \in Threads : Active(q) => poster[q].idx # head
      BY <1>0, <1>t, <1>p DEF ClaimsOnce
    <3> QED BY <1>0, <1>1, <1>3, <3>1 DEF ClaimsOnce, Active
  <2> QED BY <1>0, <2>1, <2>2, <2>3, <2>4, <2>5, <2>6 DEF ClaimsOnce, Active
<1>6. ASSUME ~overrun' PROVE Window'
  <2>1. Window /\ head - tail < QueueCap
    <3>1. ~overrun /\ ~(head - tail >= QueueCap)
      BY <1>6, Zenon
    <3> QED BY <1>0, <1>t, <1>q, <3>1
  <2>2. tail =< head /\ head' =< tail + QueueCap
    BY <1>t, <1>q, <2>1 DEF Window
  <2>3. ~slots[SlotOf(head)].ready
    <3> SUFFICES ASSUME slots[SlotOf(head)].ready PROVE FALSE
      OBVIOUS
    <3>1. PICK i \in tail .. head - 1 : SlotOf(head) = SlotOf(i)
      BY <1>t, <2>1, SlotOfIn DEF Window
    <3>2. i \in Nat /\ tail =< i /\ i < head /\ head < tail + QueueCap /\ i < tail + QueueCap
      BY <1>t, <1>q, <2>1, <3>1
    <3> QED BY <1>t, <2>2, <3>1, <3>2, SlotsApart
  <2>4. tail' .. head' - 1 = (tail .. head - 1) \cup {head}
    BY <1>t, <2>2
  <2>5. \A i \in tail' .. head' - 1 : slots[SlotOf(i)].ready => slots[SlotOf(i)].fn = i + 1
    BY <2>1, <2>3, <2>4 DEF Window
  <2>6. \A s \in SlotIds : slots[s].ready => \E i \in tail' .. head' - 1 : s = SlotOf(i)
    BY <2>1, <2>4 DEF Window
  <2>7. \A q \in Threads : poster'[q].at # "dropped"
    BY <1>1, <1>3, <2>1 DEF Window
  <2>8. \A q \in Threads : poster'[q].at = "placing" =>
          poster'[q].idx \in tail' .. head' - 1 /\ ~slots[SlotOf(poster'[q].idx)].ready
    BY <1>1, <1>3, <2>1, <2>3, <2>4 DEF Window
  <2>9. consumer' = "taking" => tail' < head' /\ slots[SlotOf(tail)].ready
    BY <1>t, <2>1 DEF Window
  <2>a. tail' =< head'
    BY <1>t, <2>2
  <2> QED BY <2>1, <2>2, <2>5, <2>6, <2>7, <2>8, <2>9, <2>a DEF Window, SlotOf
<1> QED BY <1>4, <1>5, <1>6 DEF QueueInv

LEMMA DropKeeps ==
  ASSUME QueueInv, NEW p \in Threads, DropOldest(p)
  PROVE  QueueInv'
<1>0. QueueTypes /\ ClaimsOnce /\ (~overrun => Window)
  BY DEF QueueInv
<1> DEFINE x == SlotOf(poster[p].idx)
<1>1. /\ poster[p].at = "placing" /\ slots[x].ready
      /\ slots' = [slots EXCEPT ![x] = EmptySlot]
      /\ poster' = [poster EXCEPT ![p].at = "dropped"]
      /\ UNCHANGED <<head, tail, consumer, ran, overrun, running_, drainedTo>>
  BY DEF DropOldest
<1>2. overrun
  BY <1>0, <1>1 DEF Window
<1>3. x \in SlotIds
  BY <1>0, SlotOfIn DEF QueueTypes, PosterRec
<1> HIDE DEF x
<1>4. /\ slots' \in [SlotIds -> SlotRec] /\ slots'[x] = EmptySlot
      /\ \A s \in SlotIds : s # x => slots'[s] = slots[s]
  BY <1>0, <1>1, <1>3, SlotFacts DEF QueueTypes
<1>5. /\ poster' \in [Threads -> PosterRec] /\ poster'[p].idx = poster[p].idx /\ poster'[p].at = "dropped"
      /\ \A q \in Threads : q # p => poster'[q] = poster[q]
  BY <1>0, <1>1 DEF QueueTypes, PosterRec
<1>6. QueueTypes'
  <2>1. running_' => poster'["stopper"].at = "idle"
    BY <1>0, <1>1, <1>5 DEF QueueTypes, Threads
  <2> QED BY <1>0, <1>1, <1>4, <1>5, <2>1 DEF QueueTypes
<1>7. \A q \in Threads : (Active(q)' <=> Active(q)) /\ poster'[q].idx = poster[q].idx
  BY <1>1, <1>5 DEF Active
<1>8. \A s \in SlotIds : slots'[s].ready => slots[s].ready /\ slots'[s].fn = slots[s].fn
  BY <1>4, SlotFacts
<1>9. \A s \in SlotIds : slots'[s].fn =< head'
  BY <1>0, <1>1, <1>4, SlotFacts DEF ClaimsOnce, QueueTypes
<1>a. ClaimsOnce'
  BY <1>0, <1>1, <1>7, <1>8, <1>9 DEF ClaimsOnce
<1> QED BY <1>1, <1>2, <1>6, <1>a DEF QueueInv

LEMMA PlaceKeeps ==
  ASSUME QueueInv, NEW p \in Threads, Place(p)
  PROVE  QueueInv'
<1>0. QueueTypes /\ ClaimsOnce /\ (~overrun => Window)
  BY DEF QueueInv
<1>q. QueueCap \in Nat \ {0}
  BY PsAssumption
<1> DEFINE n   == poster[p].idx
           x   == SlotOf(n)
           new == [ready |-> TRUE, fn |-> n + 1]
           out == IF p = "stopper" THEN [Apart EXCEPT !.at = "joining"] ELSE Apart
<1>1. /\ Active(p)
      /\ slots' = [slots EXCEPT ![x] = new] /\ poster' = [poster EXCEPT ![p] = out]
      /\ UNCHANGED <<head, tail, consumer, ran, overrun, running_, drainedTo>>
  BY DEF Place, Active
<1>2. n \in Nat /\ x \in SlotIds
  BY <1>0, SlotOfIn DEF QueueTypes, PosterRec
<1>3. new \in SlotRec /\ new.ready = TRUE /\ new.fn = n + 1
  BY <1>2, SlotFacts
<1>4. out \in PosterRec /\ out.at \in {"idle", "joining"} /\ (p # "stopper" => out.at = "idle")
  BY DEF PosterRec, Apart
<1> HIDE DEF new, out
<1>5. /\ slots' \in [SlotIds -> SlotRec] /\ slots'[x] = new
      /\ \A s \in SlotIds : s # x => slots'[s] = slots[s]
  BY <1>0, <1>1, <1>2, <1>3 DEF QueueTypes
<1>6. /\ poster' \in [Threads -> PosterRec] /\ poster'[p] = out
      /\ \A q \in Threads : q # p => poster'[q] = poster[q]
  BY <1>0, <1>1, <1>4 DEF QueueTypes
<1>7. QueueTypes'
  <2>1. running_' => poster'["stopper"].at = "idle"
    <3>1. running_ => p # "stopper"
      BY <1>0, <1>1 DEF QueueTypes, Active
    <3> QED BY <1>0, <1>1, <1>6, <3>1 DEF QueueTypes, Threads
  <2> QED BY <1>0, <1>1, <1>5, <1>6, <2>1 DEF QueueTypes
<1>8. \A q \in Threads : Active(q)' => q # p /\ Active(q) /\ poster'[q] = poster[q]
  BY <1>4, <1>6 DEF Active
<1>n. poster[p].idx = n /\ SlotOf(n) = x
  OBVIOUS
<1> HIDE DEF n, x
<1>c. /\ n < head
      /\ \A i \in DOMAIN ran : ran[i] # n + 1
      /\ \A s \in SlotIds : slots[s].ready => slots[s].fn # n + 1
      /\ \A q \in Threads : Active(q) /\ q # p => poster[q].idx # n
  BY <1>0, <1>1, <1>n DEF ClaimsOnce
<1>9. ClaimsOnce'
  <2>1. \A s \in SlotIds : slots'[s].fn =< head'
    <3>1. n + 1 =< head
      BY <1>0, <1>2, <1>c DEF QueueTypes
    <3> QED BY <1>0, <1>1, <1>3, <1>5, <3>1 DEF ClaimsOnce
  <2>2. \A s \in SlotIds : slots'[s].ready => \A i \in DOMAIN ran : ran[i] # slots'[s].fn
    BY <1>0, <1>3, <1>5, <1>c DEF ClaimsOnce
  <2>3. \A s, t \in SlotIds : slots'[s].ready /\ slots'[t].ready /\ slots'[s].fn = slots'[t].fn => s = t
    BY <1>0, <1>3, <1>5, <1>c DEF ClaimsOnce
  <2>4. \A q \in Threads : Active(q)' => \A s \in SlotIds : slots'[s].ready => slots'[s].fn # poster'[q].idx + 1
    <3> SUFFICES ASSUME NEW q \in Threads, Active(q)', NEW s \in SlotIds, slots'[s].ready
                 PROVE  slots'[s].fn # poster'[q].idx + 1
      OBVIOUS
    <3>1. q # p /\ Active(q) /\ poster'[q] = poster[q]
      BY <1>8
    <3>2. CASE s = x
      <4>1. poster[q].idx \in Nat /\ poster[q].idx # n
        BY <1>0, <1>c, <3>1 DEF QueueTypes, PosterRec
      <4> QED BY <1>2, <1>3, <1>5, <3>1, <3>2, <4>1
    <3>3. CASE s # x
      BY <1>0, <1>5, <3>1, <3>3 DEF ClaimsOnce
    <3> QED BY <3>2, <3>3
  <2> QED BY <1>0, <1>1, <1>8, <2>1, <2>2, <2>3, <2>4 DEF ClaimsOnce
<1>a. ASSUME ~overrun' PROVE Window'
  <2>1. Window
    BY <1>0, <1>1, <1>a
  <2>2. n \in tail .. head - 1
    BY <1>1, <1>n, <2>1 DEF Window, Active
  <2>t. head \in Nat /\ tail \in Nat /\ tail =< head /\ head =< tail + QueueCap
    BY <1>0, <2>1 DEF QueueTypes, Window
  <2>3. ASSUME NEW i \in tail .. head - 1, i # n PROVE SlotOf(i) # x
    <3>1. i \in Nat /\ tail =< i /\ i < tail + QueueCap
      BY <1>q, <2>3, <2>t
    <3>2. tail =< n /\ n < tail + QueueCap
      BY <1>q, <2>2, <2>t
    <3> QED BY <1>2, <1>n, <2>3, <2>t, <3>1, <3>2, SlotsApart
  <2>k. \A i \in tail .. head - 1 : SlotOf(i) \in SlotIds
    BY <2>t, SlotOfIn
  <2>4. \A i \in tail .. head - 1 : slots'[SlotOf(i)].ready => slots'[SlotOf(i)].fn = i + 1
    <3> SUFFICES ASSUME NEW i \in tail .. head - 1, slots'[SlotOf(i)].ready PROVE slots'[SlotOf(i)].fn = i + 1
      OBVIOUS
    <3>1. CASE i = n
      BY <1>3, <1>5, <1>n, <3>1
    <3>2. CASE i # n
      BY <1>5, <2>1, <2>3, <2>k, <3>2 DEF Window
    <3> QED BY <3>1, <3>2
  <2>5. \A s \in SlotIds : slots'[s].ready => \E i \in tail .. head - 1 : s = SlotOf(i)
    BY <1>5, <1>n, <2>1, <2>2 DEF Window
  <2>6. \A q \in Threads : poster'[q].at # "dropped"
    BY <1>4, <1>6, <2>1 DEF Window
  <2>7. \A q \in Threads : poster'[q].at = "placing" =>
          poster'[q].idx \in tail .. head - 1 /\ ~slots'[SlotOf(poster'[q].idx)].ready
    <3> SUFFICES ASSUME NEW q \in Threads, poster'[q].at = "placing"
                 PROVE  poster'[q].idx \in tail .. head - 1 /\ ~slots'[SlotOf(poster'[q].idx)].ready
      OBVIOUS
    <3>1. q # p /\ Active(q) /\ poster'[q] = poster[q]
      BY <1>8 DEF Active
    <3>2. poster[q].idx \in tail .. head - 1 /\ ~slots[SlotOf(poster[q].idx)].ready /\ poster[q].idx # n
      BY <1>c, <2>1, <3>1 DEF Window
    <3> QED BY <1>5, <2>3, <2>k, <3>1, <3>2
  <2>8. slots[SlotOf(tail)].ready => slots'[SlotOf(tail)].ready
    BY <1>3, <1>5, <2>t, SlotOfIn
  <2> QED BY <1>1, <2>1, <2>4, <2>5, <2>6, <2>7, <2>8 DEF Window, SlotOf
<1> QED BY <1>7, <1>9, <1>a DEF QueueInv

LEMMA TopKeeps ==
  ASSUME QueueInv, ConsumerTop
  PROVE  QueueInv'
<1>0. QueueTypes /\ ClaimsOnce /\ (~overrun => Window)
  BY DEF QueueInv
<1>1. UNCHANGED <<head, tail, slots, poster, ran, overrun, running_>>
  BY DEF ConsumerTop
<1>2. ClaimsOnce'
  BY <1>0, <1>1 DEF ClaimsOnce, Active
<1>t. head \in Nat /\ tail \in Nat
  BY <1>0 DEF QueueTypes
<1>3. CASE running_ \/ Pending_ > 0
  <2>1. slots[SlotOf(tail)].ready /\ consumer' = "taking" /\ drainedTo' = drainedTo
    BY <1>3 DEF ConsumerTop
  <2>2. QueueTypes'
    BY <1>0, <1>1, <2>1 DEF QueueTypes
  <2>3. ASSUME ~overrun' PROVE Window'
    <3>1. Window
      BY <1>0, <1>1, <2>3
    <3>2. \E i \in tail .. head - 1 : SlotOf(tail) = SlotOf(i)
      BY <1>t, <2>1, <3>1, SlotOfIn DEF Window
    <3>3. tail < head
      BY <1>t, <3>2
    <3> QED BY <1>1, <2>1, <3>1, <3>3 DEF Window, SlotOf
  <2> QED BY <1>2, <2>2, <2>3 DEF QueueInv
<1>4. CASE ~(running_ \/ Pending_ > 0)
  <2>1. consumer' = "ended" /\ drainedTo' = head
    BY <1>4 DEF ConsumerTop
  <2>2. head =< tail
    BY <1>4, <1>t DEF Pending_
  <2>3. QueueTypes'
    BY <1>0, <1>1, <2>1 DEF QueueTypes
  <2>4. ASSUME ~overrun' PROVE Window'
    <3>1. Window
      BY <1>0, <1>1, <2>4
    <3>2. head = tail
      BY <1>t, <2>2, <3>1 DEF Window
    <3> QED BY <1>1, <2>1, <3>1, <3>2 DEF Window, SlotOf
  <2> QED BY <1>2, <2>3, <2>4 DEF QueueInv
<1> QED BY <1>3, <1>4

LEMMA TakesKeeps ==
  ASSUME QueueInv, ConsumerTakes
  PROVE  QueueInv'
<1>0. QueueTypes /\ ClaimsOnce /\ (~overrun => Window)
  BY DEF QueueInv
<1>q. QueueCap \in Nat \ {0}
  BY PsAssumption
<1>t. /\ head \in Nat /\ tail \in Nat /\ slots \in [SlotIds -> SlotRec] /\ ran \in Seq(Nat)
      /\ poster \in [Threads -> PosterRec]
  BY <1>0 DEF QueueTypes
<1> DEFINE x  == SlotOf(tail)
           fn == slots[x].fn
<1>1. /\ consumer = "taking" /\ consumer' = "top" /\ tail' = tail + 1
      /\ ran' = IF fn = 0 THEN ran ELSE Append(ran, fn)
      /\ slots' = [slots EXCEPT ![x] = EmptySlot]
      /\ UNCHANGED <<head, poster, overrun, running_, drainedTo>>
  BY DEF ConsumerTakes
<1>2. x \in SlotIds /\ SlotOf(tail) = x
  BY <1>t, SlotOfIn
<1> HIDE DEF x
<1>3. fn \in Nat /\ (slots[x].ready <=> fn # 0) /\ fn =< head /\ slots[x].fn = fn
  BY <1>0, <1>t, <1>2, SlotFacts DEF ClaimsOnce
<1> HIDE DEF fn
<1>4. /\ slots' \in [SlotIds -> SlotRec] /\ slots'[x] = EmptySlot
      /\ \A s \in SlotIds : s # x => slots'[s] = slots[s]
  BY <1>t, <1>1, <1>2, SlotFacts
<1>5. \A s \in SlotIds : slots'[s].ready => s # x /\ slots[s].ready /\ slots'[s] = slots[s]
  BY <1>4, SlotFacts
<1>6. \A s \in SlotIds : slots'[s].fn =< head'
  BY <1>0, <1>t, <1>1, <1>4, SlotFacts DEF ClaimsOnce
<1>7. CASE fn = 0
  <2>1. ran' = ran
    BY <1>1, <1>7
  <2>2. QueueTypes'
    BY <1>0, <1>1, <1>4, <2>1 DEF QueueTypes
  <2>3. ClaimsOnce'
    BY <1>0, <1>1, <1>5, <1>6, <2>1 DEF ClaimsOnce, Active
  <2>4. overrun
    BY <1>0, <1>1, <1>2, <1>3, <1>7 DEF Window
  <2> QED BY <1>1, <2>2, <2>3, <2>4 DEF QueueInv
<1>8. CASE fn # 0
  <2>1. ran' = Append(ran, fn) /\ slots[x].ready
    BY <1>1, <1>3, <1>8
  <2> DEFINE n == Len(ran) + 1
  <2>2. /\ ran' \in Seq(Nat) /\ Len(ran') = n /\ n \in Nat /\ Len(ran) \in Nat
        /\ DOMAIN ran = 1 .. Len(ran) /\ DOMAIN ran' = 1 .. n
        /\ ran'[n] = fn /\ \A i \in DOMAIN ran : ran'[i] = ran[i]
    BY <1>t, <1>3, <2>1
  <2>3. \A i \in DOMAIN ran' : i \in DOMAIN ran \/ i = n
    BY <2>2
  <2>n. n \notin DOMAIN ran /\ n \in DOMAIN ran'
    BY <2>2
  <2> HIDE DEF n
  <2>4. QueueTypes'
    <3>1. tail' \in Nat /\ consumer' \in {"top", "taking", "ended"}
      BY <1>t, <1>1
    <3>2. slots' \in [SlotIds -> SlotRec] /\ ran' \in Seq(Nat)
      BY <1>4, <2>2
    <3> QED BY <1>0, <1>1, <3>1, <3>2, Zenon DEF QueueTypes
  <2>5. \A i \in DOMAIN ran : ran[i] # fn
    BY <1>0, <1>2, <1>3, <2>1 DEF ClaimsOnce
  <2>6. ClaimsOnce'
    <3>1. fn \in 1 .. head
      BY <1>t, <1>3, <1>8
    <3>2. \A i \in DOMAIN ran' : ran'[i] \in 1 .. head'
      BY <1>0, <1>1, <2>2, <2>3, <3>1 DEF ClaimsOnce
    <3>3. \A i, j \in DOMAIN ran' : ran'[i] = ran'[j] => i = j
      BY <1>0, <2>2, <2>3, <2>5 DEF ClaimsOnce
    <3>4. \A s \in SlotIds : slots'[s].ready => \A i \in DOMAIN ran' : ran'[i] # slots'[s].fn
      <4>1. \A s \in SlotIds : slots'[s].ready => slots'[s].fn # fn
        BY <1>0, <1>2, <1>3, <1>5, <2>1 DEF ClaimsOnce
      <4>2. \A s \in SlotIds : slots'[s].ready => \A i \in DOMAIN ran : ran[i] # slots'[s].fn
        BY <1>0, <1>5 DEF ClaimsOnce
      <4> QED BY <2>2, <2>3, <4>1, <4>2
    <3>5. \A p \in Threads : Active(p)' => \A i \in DOMAIN ran' : ran'[i] # poster'[p].idx + 1
      <4>1. \A p \in Threads : Active(p) => fn # poster[p].idx + 1
        BY <1>0, <1>2, <1>3, <2>1 DEF ClaimsOnce
      <4>2. \A p \in Threads : Active(p) => \A i \in DOMAIN ran : ran[i] # poster[p].idx + 1
        BY <1>0 DEF ClaimsOnce
      <4>3. \A p \in Threads : (Active(p)' <=> Active(p)) /\ poster'[p] = poster[p]
        BY <1>1 DEF Active
      <4> QED BY <2>2, <2>3, <4>1, <4>2, <4>3
    <3> QED BY <1>0, <1>1, <1>5, <1>6, <3>2, <3>3, <3>4, <3>5 DEF ClaimsOnce, Active
  <2>7. ASSUME ~overrun' PROVE Window'
    <3>1. Window
      BY <1>0, <1>1, <2>7
    <3>2. tail < head /\ head =< tail + QueueCap /\ Len(ran) = tail
      BY <1>1, <3>1 DEF Window
    <3>3. fn = tail + 1
      BY <1>t, <1>2, <1>3, <2>1, <3>1, <3>2 DEF Window
    <3>4. \A i \in tail' .. head' - 1 : i \in tail .. head - 1 /\ i # tail
      BY <1>1, <1>t
    <3>5. \A i \in tail .. head - 1 : i = tail \/ i \in tail' .. head' - 1
      BY <1>1, <1>t
    <3>6. ASSUME NEW i \in tail .. head - 1, i # tail PROVE SlotOf(i) # x /\ SlotOf(i) \in SlotIds
      <4>1. i \in Nat /\ tail =< i /\ i < tail + QueueCap /\ tail < tail + QueueCap
        BY <1>t, <1>q, <3>2
      <4> QED BY <1>t, <1>2, <3>6, <4>1, SlotsApart, SlotOfIn
    <3>7. \A i \in tail' .. head' - 1 : slots'[SlotOf(i)].ready => slots'[SlotOf(i)].fn = i + 1
      BY <1>4, <3>1, <3>4, <3>6 DEF Window
    <3>8. \A s \in SlotIds : slots'[s].ready => \E i \in tail' .. head' - 1 : s = SlotOf(i)
      BY <1>2, <1>5, <3>1, <3>5 DEF Window
    <3>9. \A p \in Threads : poster'[p].at = "placing" =>
            poster'[p].idx \in tail' .. head' - 1 /\ ~slots'[SlotOf(poster'[p].idx)].ready
      <4> SUFFICES ASSUME NEW p \in Threads, poster'[p].at = "placing"
                   PROVE  poster'[p].idx \in tail' .. head' - 1 /\ ~slots'[SlotOf(poster'[p].idx)].ready
        OBVIOUS
      <4>1. poster' = poster /\ poster[p].at = "placing"
        BY <1>1
      <4>2. poster[p].idx \in tail .. head - 1 /\ ~slots[SlotOf(poster[p].idx)].ready
        BY <3>1, <4>1 DEF Window
      <4>3. poster[p].idx # tail
        BY <1>2, <2>1, <4>2
      <4> QED BY <1>4, <3>5, <3>6, <4>1, <4>2, <4>3
    <3>a. tail' =< head' /\ head' =< tail' + QueueCap
      BY <1>1, <1>t, <1>q, <3>2
    <3>b. Len(ran') = tail' /\ \A i \in DOMAIN ran' : ran'[i] = i
      <4>1. n = tail + 1
        BY <3>2 DEF n
      <4> QED BY <1>1, <2>2, <2>3, <3>1, <3>3, <4>1 DEF Window
    <3>c. \A p \in Threads : poster'[p].at # "dropped"
      BY <1>1, <3>1 DEF Window
    <3> QED BY <1>1, <3>7, <3>8, <3>9, <3>a, <3>b, <3>c DEF Window, SlotOf
  <2> QED BY <2>4, <2>6, <2>7 DEF QueueInv
<1> QED BY <1>7, <1>8

LEMMA QueueStep == QueueInv /\ [QueueNext]_queueVars => QueueInv'
<1> SUFFICES ASSUME QueueInv, [QueueNext]_queueVars PROVE QueueInv'
  OBVIOUS
<1>0. QueueTypes
  BY DEF QueueInv
<1>1. CASE StopQueue
  <2>1. /\ poster' = [poster EXCEPT !["stopper"] = [at |-> "placing", idx |-> head]] /\ running_' = FALSE
        /\ poster["stopper"].at = "idle" /\ "stopper" \in Threads
        /\ head' = head + 1 /\ overrun' = (overrun \/ head - tail >= QueueCap)
        /\ UNCHANGED <<tail, slots, consumer, ran, drainedTo>>
    BY <1>0, <1>1 DEF StopQueue, QueueTypes, Threads
  <2> QED BY <2>1, ClaimKeeps
<1>2. CASE \E p \in Posters : Claim(p)
  <2>1. PICK p \in Posters : Claim(p)
    BY <1>2
  <2>2. /\ poster' = [poster EXCEPT ![p] = [at |-> "placing", idx |-> head]]
        /\ poster[p].at = "idle" /\ p \in Threads /\ running_' = running_
        /\ head' = head + 1 /\ overrun' = (overrun \/ head - tail >= QueueCap)
        /\ UNCHANGED <<tail, slots, consumer, ran, drainedTo>>
    BY <2>1 DEF Claim, Threads
  <2>3. p # "stopper" /\ "stopper" \in Threads
    BY PsAssumption DEF Threads
  <2>4. poster'["stopper"] = poster["stopper"]
    BY <1>0, <2>2, <2>3 DEF QueueTypes
  <2>5. running_' \in BOOLEAN /\ (running_' => poster'["stopper"].at = "idle")
    BY <1>0, <2>2, <2>4 DEF QueueTypes
  <2> QED BY <2>2, <2>5, ClaimKeeps
<1>3. CASE \E p \in Posters \cup {"stopper"} : DropOldest(p) \/ Place(p)
  BY <1>3, DropKeeps, PlaceKeeps DEF Threads
<1>4. CASE ConsumerTop
  BY <1>4, TopKeeps
<1>5. CASE ConsumerTakes
  BY <1>5, TakesKeeps
<1>6. CASE UNCHANGED queueVars
  BY <1>6 DEF queueVars, QueueInv, QueueTypes, ClaimsOnce, Window, Active, SlotOf
<1> QED BY <1>1, <1>2, <1>3, <1>4, <1>5, <1>6 DEF QueueNext

LEMMA QueueOk == QueueInv => CallbacksInOrder
<1> SUFFICES ASSUME QueueInv PROVE CallbacksInOrder
  OBVIOUS
<1>1. \A i, j \in DOMAIN ran : i # j => ran[i] # ran[j]
  BY DEF QueueInv, ClaimsOnce
<1>2. ~overrun => (\A i \in DOMAIN ran : ran[i] = i) /\ (consumer = "ended" => Len(ran) = drainedTo)
  BY DEF QueueInv, Window
<1> QED BY <1>1, <1>2 DEF CallbacksInOrder

LEMMA QueueInit == PsInit => QueueInv
<1> SUFFICES ASSUME PsInit PROVE QueueInv
  OBVIOUS
<1>0. QueueCap \in Nat \ {0}
  BY PsAssumption
<1>1. /\ head = 0 /\ tail = 0 /\ slots = [i \in SlotIds |-> EmptySlot]
      /\ poster = [p \in Threads |-> Apart]
      /\ consumer = "top" /\ ran = << >> /\ overrun = FALSE /\ running_ = TRUE /\ drainedTo = 0
  BY DEF PsInit, SlotIds, Threads
<1>2. Apart \in PosterRec /\ Apart.at = "idle"
  BY DEF Apart, PosterRec
<1>3. ran \in Seq(Nat) /\ Len(ran) = 0 /\ DOMAIN ran = {}
  BY <1>1
<1>4. \A s \in SlotIds : slots[s] = EmptySlot /\ ~slots[s].ready
  BY <1>1, SlotFacts
<1>5. \A p \in Threads : poster[p] = Apart /\ ~Active(p) /\ poster[p].at = "idle"
  BY <1>1, <1>2 DEF Active
<1>6. QueueTypes
  <2>1. slots \in [SlotIds -> SlotRec] /\ poster \in [Threads -> PosterRec]
    BY <1>1, <1>2, SlotFacts
  <2>2. poster["stopper"].at = "idle"
    BY <1>5 DEF Threads
  <2> QED BY <1>1, <1>3, <2>1, <2>2 DEF QueueTypes
<1>7. ClaimsOnce
  <2>1. \A s \in SlotIds : slots[s].fn =< head
    BY <1>1, <1>4, SlotFacts
  <2> QED BY <1>3, <1>4, <1>5, <2>1 DEF ClaimsOnce
<1>8. Window
  <2>1. tail .. head - 1 = {}
    BY <1>1
  <2> QED BY <1>0, <1>1, <1>3, <1>4, <1>5, <2>1 DEF Window
<1> QED BY <1>6, <1>7, <1>8 DEF QueueInv

(***************************************************************************)
(* The frames of a ring, and the capturing flag against what the daemon    *)
(* was told.                                                               *)
(***************************************************************************)
StreamRec == [conn : BOOLEAN, flag : BOOLEAN, caller : {"idle", "started", "stopped"},
              ending : {"no", "joining"}, daemonHas : BOOLEAN, lost : BOOLEAN]

FrameTypes ==
    /\ wIdx \in Nat /\ rIdx \in Nat /\ ring \in [0 .. FrameSlots - 1 -> Nat]
    /\ poll \in {"none", "top", "reading"} /\ shown \in Seq(Nat)
    /\ mapped \in BOOLEAN /\ fault \in BOOLEAN
    /\ stream_ \in StreamRec

\* The ring holds the frames between the indices, and all before were shown.
FramesBetween ==
    /\ rIdx =< wIdx /\ wIdx =< rIdx + FrameSlots
    /\ \A i \in rIdx .. wIdx - 1 : ring[i % FrameSlots] = i + 1
    /\ Len(shown) = rIdx /\ \A i \in DOMAIN shown : shown[i] = i
    /\ poll = "reading" => rIdx < wIdx

\* Without the loss of a daemon: no call of the application is under way
\* while there is no connection, and the flag is what the daemon was told.
StreamKept ==
    /\ poll = "reading" => mapped
    /\ stream_.flag => stream_.daemonHas \/ stream_.caller = "stopped"
    /\ ~stream_.conn => stream_.caller = "idle"
    /\ ~stream_.conn /\ stream_.ending = "no" => ~stream_.flag
    /\ stream_.caller = "started" => stream_.daemonHas

FrameInv == FrameTypes /\ (~fault => FramesBetween) /\ (~stream_.lost => StreamKept)

\* What a step leaves alone of the ring keeps the frames.
LEMMA RingKept ==
  ASSUME FrameInv, UNCHANGED <<ring, wIdx, rIdx, shown, fault>>, poll' = poll \/ poll' # "reading"
  PROVE  ~fault' => FramesBetween'
BY DEF FrameInv, FramesBetween

LEMMA WriteKeeps ==
  ASSUME FrameInv, NEW laps \in BOOLEAN, WriteFrame(laps)
  PROVE  FrameInv'
<1>0. FrameTypes /\ (~fault => FramesBetween) /\ (~stream_.lost => StreamKept)
  BY DEF FrameInv
<1>q. FrameSlots \in Nat \ {0}
  BY PsAssumption
<1>t. wIdx \in Nat /\ rIdx \in Nat /\ ring \in [0 .. FrameSlots - 1 -> Nat]
  BY <1>0 DEF FrameTypes
<1> DEFINE x == wIdx % FrameSlots
<1>1. /\ laps = (wIdx - rIdx >= FrameSlots)
      /\ ring' = [ring EXCEPT ![x] = wIdx + 1]
      /\ wIdx' = wIdx + 1
      /\ fault' = (fault \/ laps)
      /\ UNCHANGED <<rIdx, mapped, poll, shown, stream_>>
  BY DEF WriteFrame
<1>2. x \in 0 .. FrameSlots - 1 /\ wIdx % FrameSlots = x
  BY <1>q, <1>t, DivMod
<1> HIDE DEF x
<1>3. /\ ring' \in [0 .. FrameSlots - 1 -> Nat] /\ ring'[x] = wIdx + 1
      /\ \A s \in 0 .. FrameSlots - 1 : s # x => ring'[s] = ring[s]
  BY <1>t, <1>1, <1>2
<1>4. FrameTypes'
  <2>1. wIdx' \in Nat
    BY <1>t, <1>1
  <2>2. fault' \in BOOLEAN
    BY <1>0, <1>1, Zenon DEF FrameTypes
  <2> QED BY <1>0, <1>1, <1>3, <2>1, <2>2, Zenon DEF FrameTypes
<1>5. ASSUME ~fault' PROVE FramesBetween'
  <2>1. ~fault /\ ~laps
    BY <1>1, <1>5, Zenon
  <2>2. FramesBetween
    BY <1>0, <2>1
  <2>3. ~(wIdx - rIdx >= FrameSlots)
    BY <1>1, <2>1
  <2>4. rIdx =< wIdx /\ wIdx < rIdx + FrameSlots
    BY <1>t, <1>q, <2>2, <2>3 DEF FramesBetween
  <2>5. ASSUME NEW i \in rIdx' .. wIdx' - 1 PROVE ring'[i % FrameSlots] = i + 1
    <3>1. CASE i = wIdx
      BY <1>2, <1>3, <3>1
    <3>2. CASE i # wIdx
      <4>1. i \in Nat /\ i < wIdx /\ wIdx - i < FrameSlots /\ i \in rIdx .. wIdx - 1
        BY <1>t, <1>q, <1>1, <2>4, <3>2
      <4>2. i % FrameSlots # x /\ i % FrameSlots \in 0 .. FrameSlots - 1
        BY <1>t, <1>q, <1>2, <4>1, ModNear, DivMod
      <4> QED BY <1>3, <2>2, <4>1, <4>2 DEF FramesBetween
    <3> QED BY <3>1, <3>2
  <2>6. rIdx' =< wIdx' /\ wIdx' =< rIdx' + FrameSlots
    BY <1>t, <1>q, <1>1, <2>4
  <2>7. poll' = "reading" => rIdx' < wIdx'
    BY <1>t, <1>1, <2>4
  <2> QED BY <1>1, <2>2, <2>5, <2>6, <2>7 DEF FramesBetween
<1>6. ~stream_'.lost => StreamKept'
  BY <1>0, <1>1 DEF StreamKept
<1> QED BY <1>4, <1>5, <1>6 DEF FrameInv

LEMMA ReadKeeps ==
  ASSUME FrameInv, ReadFrame
  PROVE  FrameInv'
<1>0. FrameTypes /\ (~fault => FramesBetween) /\ (~stream_.lost => StreamKept)
  BY DEF FrameInv
<1>q. FrameSlots \in Nat \ {0}
  BY PsAssumption
<1>t. /\ wIdx \in Nat /\ rIdx \in Nat /\ ring \in [0 .. FrameSlots - 1 -> Nat] /\ shown \in Seq(Nat)
  BY <1>0 DEF FrameTypes
<1>1. /\ poll = "reading" /\ poll' = "top"
      /\ UNCHANGED <<ring, wIdx, mapped, stream_>>
  BY DEF ReadFrame
<1>2. ~stream_'.lost => StreamKept'
  BY <1>0, <1>1 DEF StreamKept
<1>3. CASE mapped
  <2> DEFINE v == ring[rIdx % FrameSlots]
             n == Len(shown) + 1
  <2>1. shown' = Append(shown, v) /\ rIdx' = rIdx + 1 /\ fault' = fault
    BY <1>3 DEF ReadFrame
  <2>2. v \in Nat
    BY <1>t, <1>q, DivMod
  <2>v. ring[rIdx % FrameSlots] = v
    OBVIOUS
  <2> HIDE DEF v
  <2>3. /\ shown' \in Seq(Nat) /\ Len(shown') = n /\ n \in Nat /\ Len(shown) \in Nat
        /\ DOMAIN shown = 1 .. Len(shown) /\ DOMAIN shown' = 1 .. n
        /\ shown'[n] = v /\ \A i \in DOMAIN shown : shown'[i] = shown[i]
    BY <1>t, <2>1, <2>2
  <2>4. \A i \in DOMAIN shown' : i \in DOMAIN shown \/ i = n
    BY <2>3
  <2>n. n = Len(shown) + 1
    OBVIOUS
  <2> HIDE DEF n
  <2>5. FrameTypes'
    <3>1. rIdx' \in Nat /\ poll' \in {"none", "top", "reading"}
      BY <1>t, <1>1, <2>1
    <3> QED BY <1>0, <1>1, <2>1, <2>3, <3>1, Zenon DEF FrameTypes
  <2>6. ASSUME ~fault' PROVE FramesBetween'
    <3>1. FramesBetween
      BY <1>0, <2>1, <2>6
    <3>2. rIdx < wIdx /\ wIdx =< rIdx + FrameSlots /\ Len(shown) = rIdx
      BY <1>1, <3>1 DEF FramesBetween
    <3>3. v = rIdx + 1 /\ n = rIdx + 1
      BY <1>t, <2>v, <2>n, <3>1, <3>2 DEF FramesBetween
    <3>4. rIdx' =< wIdx' /\ wIdx' =< rIdx' + FrameSlots
      BY <1>t, <1>q, <1>1, <2>1, <3>2
    <3>5. \A i \in rIdx' .. wIdx' - 1 : i \in rIdx .. wIdx - 1
      BY <1>t, <1>1, <2>1
    <3>6. \A i \in rIdx' .. wIdx' - 1 : ring'[i % FrameSlots] = i + 1
      BY <1>1, <3>1, <3>5 DEF FramesBetween
    <3>7. Len(shown') = rIdx' /\ \A i \in DOMAIN shown' : shown'[i] = i
      BY <2>1, <2>3, <2>4, <3>1, <3>3 DEF FramesBetween
    <3> QED BY <1>1, <3>4, <3>6, <3>7 DEF FramesBetween
  <2> QED BY <1>2, <2>5, <2>6 DEF FrameInv
<1>4. CASE ~mapped
  <2>1. fault' = TRUE /\ UNCHANGED <<shown, rIdx>>
    BY <1>4 DEF ReadFrame
  <2>2. FrameTypes'
    BY <1>0, <1>1, <2>1 DEF FrameTypes
  <2> QED BY <1>2, <2>1, <2>2 DEF FrameInv
<1> QED BY <1>3, <1>4

\* The steps that leave the frames alone: the fields of stream_ after each.
LEMMA StreamOpens ==
  ASSUME stream_ \in StreamRec, stream_' = [stream_ EXCEPT !.conn = TRUE, !.daemonHas = FALSE]
  PROVE  /\ stream_' \in StreamRec /\ stream_'.conn = TRUE /\ stream_'.daemonHas = FALSE /\ stream_'.flag = stream_.flag
         /\ stream_'.caller = stream_.caller /\ stream_'.ending = stream_.ending /\ stream_'.lost = stream_.lost
<1> DEFINE a == [stream_ EXCEPT !.conn = TRUE]
<1>1. stream_' = [a EXCEPT !.daemonHas = FALSE]
  OBVIOUS
<1>2. /\ a \in StreamRec /\ a.conn = TRUE /\ a.flag = stream_.flag /\ a.caller = stream_.caller
      /\ a.ending = stream_.ending /\ a.lost = stream_.lost
  BY DEF StreamRec
<1> HIDE DEF a
<1> QED BY <1>1, <1>2 DEF StreamRec

LEMMA StreamAsks ==
  ASSUME stream_ \in StreamRec, NEW on \in BOOLEAN,
         stream_' = [stream_ EXCEPT !.daemonHas = on, !.caller = IF on THEN "started" ELSE "stopped"]
  PROVE  /\ stream_' \in StreamRec /\ stream_'.conn = stream_.conn /\ stream_'.daemonHas = on
         /\ stream_'.caller = (IF on THEN "started" ELSE "stopped")
         /\ stream_'.flag = stream_.flag /\ stream_'.ending = stream_.ending /\ stream_'.lost = stream_.lost
<1> DEFINE a == [stream_ EXCEPT !.daemonHas = on]
           c == IF on THEN "started" ELSE "stopped"
<1>1. stream_' = [a EXCEPT !.caller = c] /\ c \in {"started", "stopped"}
  OBVIOUS
<1>2. /\ a \in StreamRec /\ a.conn = stream_.conn /\ a.flag = stream_.flag /\ a.daemonHas = on
      /\ a.ending = stream_.ending /\ a.lost = stream_.lost
  BY DEF StreamRec
<1> HIDE DEF a
<1>3. /\ stream_' \in StreamRec /\ stream_'.conn = a.conn /\ stream_'.daemonHas = a.daemonHas /\ stream_'.caller = c
      /\ stream_'.flag = a.flag /\ stream_'.ending = a.ending /\ stream_'.lost = a.lost
  <2> HIDE DEF c
  <2> QED BY <1>1, <1>2 DEF StreamRec
<1> QED BY <1>2, <1>3

LEMMA StreamAsked ==
  ASSUME stream_ \in StreamRec,
         stream_' = [stream_ EXCEPT !.flag = (stream_.caller = "started"), !.caller = "idle"]
  PROVE  /\ stream_' \in StreamRec /\ stream_'.conn = stream_.conn /\ stream_'.flag = (stream_.caller = "started")
         /\ stream_'.caller = "idle" /\ stream_'.daemonHas = stream_.daemonHas
         /\ stream_'.ending = stream_.ending /\ stream_'.lost = stream_.lost
<1> DEFINE f == stream_.caller = "started"
           a == [stream_ EXCEPT !.flag = f]
<1>1. stream_' = [a EXCEPT !.caller = "idle"] /\ f \in BOOLEAN
  OBVIOUS
<1> HIDE DEF f
<1>2. /\ a \in StreamRec /\ a.conn = stream_.conn /\ a.flag = f /\ a.daemonHas = stream_.daemonHas
      /\ a.ending = stream_.ending /\ a.lost = stream_.lost
  BY <1>1 DEF StreamRec
<1> HIDE DEF a
<1>3. /\ stream_' \in StreamRec /\ stream_'.conn = a.conn /\ stream_'.flag = a.flag /\ stream_'.caller = "idle"
      /\ stream_'.daemonHas = a.daemonHas /\ stream_'.ending = a.ending /\ stream_'.lost = a.lost
  BY <1>1, <1>2 DEF StreamRec
<1> QED BY <1>2, <1>3 DEF f

LEMMA StreamLoses ==
  ASSUME stream_ \in StreamRec, stream_' = [stream_ EXCEPT !.conn = FALSE, !.flag = FALSE, !.lost = TRUE]
  PROVE  stream_' \in StreamRec /\ stream_'.lost = TRUE
<1> DEFINE a == [stream_ EXCEPT !.conn = FALSE]
           b == [a EXCEPT !.flag = FALSE]
<1>1. stream_' = [b EXCEPT !.lost = TRUE]
  OBVIOUS
<1>2. a \in StreamRec
  BY DEF StreamRec
<1> HIDE DEF a
<1>3. b \in StreamRec
  BY <1>2 DEF StreamRec
<1> HIDE DEF b
<1> QED BY <1>1, <1>3 DEF StreamRec

LEMMA StreamEnding ==
  ASSUME stream_ \in StreamRec, stream_' = [stream_ EXCEPT !.ending = "joining", !.conn = FALSE]
  PROVE  /\ stream_' \in StreamRec /\ stream_'.conn = FALSE /\ stream_'.daemonHas = stream_.daemonHas
         /\ stream_'.flag = stream_.flag /\ stream_'.caller = stream_.caller
         /\ stream_'.ending = "joining" /\ stream_'.lost = stream_.lost
<1> DEFINE a == [stream_ EXCEPT !.ending = "joining"]
<1>1. stream_' = [a EXCEPT !.conn = FALSE]
  OBVIOUS
<1>2. /\ a \in StreamRec /\ a.ending = "joining" /\ a.flag = stream_.flag /\ a.caller = stream_.caller
      /\ a.daemonHas = stream_.daemonHas /\ a.lost = stream_.lost
  BY DEF StreamRec
<1> HIDE DEF a
<1> QED BY <1>1, <1>2 DEF StreamRec

LEMMA StreamEnded ==
  ASSUME stream_ \in StreamRec, stream_' = [stream_ EXCEPT !.ending = "no", !.flag = FALSE]
  PROVE  /\ stream_' \in StreamRec /\ stream_'.conn = stream_.conn /\ stream_'.daemonHas = stream_.daemonHas
         /\ stream_'.flag = FALSE /\ stream_'.caller = stream_.caller
         /\ stream_'.ending = "no" /\ stream_'.lost = stream_.lost
<1> DEFINE a == [stream_ EXCEPT !.ending = "no"]
<1>1. stream_' = [a EXCEPT !.flag = FALSE]
  OBVIOUS
<1>2. /\ a \in StreamRec /\ a.ending = "no" /\ a.conn = stream_.conn /\ a.caller = stream_.caller
      /\ a.daemonHas = stream_.daemonHas /\ a.lost = stream_.lost
  BY DEF StreamRec
<1> HIDE DEF a
<1> QED BY <1>1, <1>2 DEF StreamRec

LEMMA FrameStep == FrameInv /\ [FrameNext]_frameVars => FrameInv'
<1> SUFFICES ASSUME FrameInv, [FrameNext]_frameVars PROVE FrameInv'
  OBVIOUS
<1>0. FrameTypes /\ (~fault => FramesBetween) /\ (~stream_.lost => StreamKept) /\ stream_ \in StreamRec
  BY DEF FrameInv, FrameTypes
<1>1. ASSUME NEW laps \in BOOLEAN, WriteFrame(laps) PROVE FrameInv'
  BY <1>1, WriteKeeps
<1>2. ASSUME NEW ok \in BOOLEAN, OpenRing(ok) PROVE FrameInv'
  <2>1. /\ ~stream_.conn /\ stream_.ending = "no" /\ mapped' = ok /\ poll' = "top"
        /\ stream_' = [stream_ EXCEPT !.conn = TRUE, !.daemonHas = FALSE]
        /\ UNCHANGED <<ring, wIdx, rIdx, shown, fault>>
    BY <1>2 DEF OpenRing
  <2>2. ~fault' => FramesBetween'
    BY <2>1, RingKept
  <2>3. FrameTypes'
    BY <1>0, <2>1, StreamOpens DEF FrameTypes
  <2>4. ~stream_'.lost => StreamKept'
    BY <1>0, <2>1, StreamOpens DEF StreamKept
  <2> QED BY <2>2, <2>3, <2>4 DEF FrameInv
<1>3. ASSUME NEW ok \in BOOLEAN, ReopenRing(ok) PROVE FrameInv'
  <2>1. /\ stream_.lost /\ mapped' = ok
        /\ stream_' = [stream_ EXCEPT !.conn = TRUE, !.daemonHas = FALSE]
        /\ UNCHANGED <<ring, wIdx, rIdx, poll, shown, fault>>
    BY <1>3 DEF ReopenRing
  <2>2. ~fault' => FramesBetween'
    BY <2>1, RingKept
  <2>3. FrameTypes'
    BY <1>0, <2>1, StreamOpens DEF FrameTypes
  <2>4. stream_'.lost
    BY <1>0, <2>1, StreamOpens
  <2> QED BY <2>2, <2>3, <2>4 DEF FrameInv
<1>4. ASSUME LoseRing PROVE FrameInv'
  <2>1. /\ mapped' = FALSE
        /\ stream_' = [stream_ EXCEPT !.conn = FALSE, !.flag = FALSE, !.lost = TRUE]
        /\ UNCHANGED <<ring, wIdx, rIdx, poll, shown, fault>>
    BY <1>4 DEF LoseRing
  <2>2. ~fault' => FramesBetween'
    BY <2>1, RingKept
  <2>3. FrameTypes'
    BY <1>0, <2>1, StreamLoses DEF FrameTypes
  <2>4. stream_'.lost
    BY <1>0, <2>1, StreamLoses
  <2> QED BY <2>2, <2>3, <2>4 DEF FrameInv
<1>5. ASSUME PollFrame PROVE FrameInv'
  <2>1. /\ mapped /\ poll' = "reading" /\ wIdx # rIdx
        /\ UNCHANGED <<ring, wIdx, rIdx, mapped, shown, stream_, fault>>
    BY <1>5 DEF PollFrame
  <2>2. ASSUME ~fault' PROVE FramesBetween'
    <3>1. FramesBetween
      BY <1>0, <2>1, <2>2
    <3>2. rIdx < wIdx
      BY <1>0, <2>1, <3>1 DEF FrameTypes, FramesBetween
    <3> QED BY <2>1, <3>1, <3>2 DEF FramesBetween
  <2>3. FrameTypes'
    BY <1>0, <2>1 DEF FrameTypes
  <2>4. ~stream_'.lost => StreamKept'
    BY <1>0, <2>1 DEF StreamKept
  <2> QED BY <2>2, <2>3, <2>4 DEF FrameInv
<1>6. ASSUME ReadFrame PROVE FrameInv'
  BY <1>6, ReadKeeps
<1>7. ASSUME NEW on \in BOOLEAN, Capture(on) PROVE FrameInv'
  <2>1. /\ stream_.flag # on /\ stream_.conn
        /\ stream_' = [stream_ EXCEPT !.daemonHas = on, !.caller = IF on THEN "started" ELSE "stopped"]
        /\ UNCHANGED <<ring, wIdx, rIdx, mapped, poll, shown, fault>>
    BY <1>7 DEF Capture
  <2>2. ~fault' => FramesBetween'
    BY <2>1, RingKept
  <2>f. /\ stream_' \in StreamRec /\ stream_'.conn = stream_.conn /\ stream_'.daemonHas = on
        /\ stream_'.caller = (IF on THEN "started" ELSE "stopped")
        /\ stream_'.flag = stream_.flag /\ stream_'.ending = stream_.ending /\ stream_'.lost = stream_.lost
    BY <1>0, <2>1, StreamAsks
  <2>3. FrameTypes'
    BY <1>0, <2>1, <2>f DEF FrameTypes
  <2>4. ~stream_'.lost => StreamKept'
    <3>1. CASE on = TRUE
      BY <1>0, <2>1, <2>f, <3>1 DEF StreamKept
    <3>2. CASE on = FALSE
      BY <1>0, <2>1, <2>f, <3>2 DEF StreamKept
    <3> QED BY <3>1, <3>2
  <2> QED BY <2>2, <2>3, <2>4 DEF FrameInv
<1>8. ASSUME Captured PROVE FrameInv'
  <2>1. /\ stream_.caller \in {"started", "stopped"}
        /\ stream_' = [stream_ EXCEPT !.flag = (stream_.caller = "started"), !.caller = "idle"]
        /\ UNCHANGED <<ring, wIdx, rIdx, mapped, poll, shown, fault>>
    BY <1>8 DEF Captured
  <2>2. ~fault' => FramesBetween'
    BY <2>1, RingKept
  <2>f. /\ stream_' \in StreamRec /\ stream_'.conn = stream_.conn /\ stream_'.flag = (stream_.caller = "started")
        /\ stream_'.caller = "idle" /\ stream_'.daemonHas = stream_.daemonHas
        /\ stream_'.ending = stream_.ending /\ stream_'.lost = stream_.lost
    BY <1>0, <2>1, StreamAsked
  <2>3. FrameTypes'
    BY <1>0, <2>1, <2>f DEF FrameTypes
  <2>4. ~stream_'.lost => StreamKept'
    BY <1>0, <2>1, <2>f DEF StreamKept
  <2> QED BY <2>2, <2>3, <2>4 DEF FrameInv
<1>9. ASSUME EndBegins PROVE FrameInv'
  <2>1. /\ stream_.caller = "idle"
        /\ stream_' = [stream_ EXCEPT !.ending = "joining", !.conn = FALSE]
        /\ UNCHANGED <<ring, wIdx, rIdx, mapped, poll, shown, fault>>
    BY <1>9 DEF EndBegins
  <2>2. ~fault' => FramesBetween'
    BY <2>1, RingKept
  <2>3. FrameTypes'
    BY <1>0, <2>1, StreamEnding DEF FrameTypes
  <2>4. ~stream_'.lost => StreamKept'
    BY <1>0, <2>1, StreamEnding DEF StreamKept
  <2> QED BY <2>2, <2>3, <2>4 DEF FrameInv
<1>a. ASSUME PollEnds PROVE FrameInv'
  <2>1. poll' = "none" /\ UNCHANGED <<ring, wIdx, rIdx, mapped, shown, stream_, fault>>
    BY <1>a DEF PollEnds
  <2>2. ~fault' => FramesBetween'
    BY <2>1, RingKept
  <2> QED BY <1>0, <2>1, <2>2 DEF FrameInv, FrameTypes, StreamKept
<1>b. ASSUME EndCompletes PROVE FrameInv'
  <2>1. /\ poll = "none" /\ mapped' = FALSE
        /\ stream_' = [stream_ EXCEPT !.ending = "no", !.flag = FALSE]
        /\ UNCHANGED <<ring, wIdx, rIdx, poll, shown, fault>>
    BY <1>b DEF EndCompletes
  <2>2. ~fault' => FramesBetween'
    BY <2>1, RingKept
  <2>3. FrameTypes'
    BY <1>0, <2>1, StreamEnded DEF FrameTypes
  <2>4. ~stream_'.lost => StreamKept'
    BY <1>0, <2>1, StreamEnded DEF StreamKept
  <2> QED BY <2>2, <2>3, <2>4 DEF FrameInv
<1>c. CASE UNCHANGED frameVars
  BY <1>c DEF frameVars, FrameInv, FrameTypes, FramesBetween, StreamKept
<1> QED BY <1>1, <1>2, <1>3, <1>4, <1>5, <1>6, <1>7, <1>8, <1>9, <1>a, <1>b, <1>c DEF FrameNext

LEMMA FrameInit == PsInit => FrameInv
<1> SUFFICES ASSUME PsInit PROVE FrameInv
  OBVIOUS
<1>0. FrameSlots \in Nat \ {0}
  BY PsAssumption
<1>1. /\ ring = [i \in 0 .. FrameSlots - 1 |-> 0] /\ wIdx = 0 /\ rIdx = 0
      /\ mapped = FALSE /\ poll = "none" /\ shown = << >> /\ fault = FALSE
  BY DEF PsInit
<1>2. stream_ \in StreamRec /\ stream_.flag = FALSE /\ stream_.caller = "idle"
  BY DEF PsInit, StreamRec
<1>3. shown \in Seq(Nat) /\ Len(shown) = 0 /\ DOMAIN shown = {} /\ rIdx .. wIdx - 1 = {}
  BY <1>1
<1>4. FrameTypes
  BY <1>1, <1>2, <1>3 DEF FrameTypes
<1>5. FramesBetween
  BY <1>0, <1>1, <1>3 DEF FramesBetween
<1>6. StreamKept
  BY <1>1, <1>2 DEF StreamKept
<1> QED BY <1>4, <1>5, <1>6 DEF FrameInv

LEMMA FramesOk == FrameInv => FramesInOrder
BY DEF FrameInv, FramesBetween, StreamKept, FramesInOrder

-----------------------------------------------------------------------------
\* What the typed proxies rely on: callbacks run in the order they were
\* claimed, each at most once, and none claimed before stop is left; frames
\* reach the application in order and without a gap; a name of shared memory
\* exists exactly while one region owns it; no lookup keeps its descriptor.
\* For any number of posting threads, slots of the callback queue, frames of
\* the ring, regions and lookups.
THEOREM TypedServicesCorrect == PsSpec => []ServiceSafe
<1> DEFINE Inv == QueueInv /\ FrameInv /\ RegionInv /\ LookInv
<1>1. PsInit => Inv
  <2> SUFFICES ASSUME PsInit PROVE Inv
    OBVIOUS
  <2>1. QueueInv /\ FrameInv
    BY QueueInit, FrameInit
  <2>2. RegionInv
    <3>1. region = [r \in Regions |-> Unmapped] /\ names = {}
      BY DEF PsInit
    <3>2. Unmapped \in RegionRec /\ Unmapped.owner = FALSE
      BY DEF RegionRec, Unmapped
    <3>3. \A r \in Regions : region[r] = Unmapped /\ ~region[r].owner
      BY <3>1, <3>2
    <3>4. RegionsOwned
      BY <3>1, <3>3, NamesAre
    <3> QED BY <3>1, <3>2, <3>3, <3>4 DEF RegionInv
  <2>3. LookInv
    BY DEF PsInit, LookInv, LookupClosed
  <2> QED BY <2>1, <2>2, <2>3
<1>2. Inv /\ [PsNext]_serviceVars => Inv'
  BY AreaSteps, QueueStep, FrameStep, RegionStep, LookStep
<1>3. Inv => ServiceSafe
  BY QueueOk, FramesOk DEF RegionInv, LookInv, ServiceSafe
<1> QED BY <1>1, <1>2, <1>3, PTL DEF PsSpec
=============================================================================
