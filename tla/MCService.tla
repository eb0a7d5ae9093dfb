----------------------------- MODULE MCService ------------------------------
(***************************************************************************)
(* What a service is made of, for TLC.  part is the piece that moves: the  *)
(* processes of the service, one writer and one reader of a ring buffer in *)
(* shared memory, or the configuration.  They share nothing.               *)
(***************************************************************************)
EXTENDS RingBuffer, ServiceProcess, ServiceConfig, TLC

VARIABLE part

Symmetry == Permutations(Pids)

FirstKind == CHOOSE k \in Kinds : TRUE

\* The variables of the parts that do not move have one initial value each.
ConfigRests == svc = FirstKind /\ \A n \in ConfigNames : env[n] = Unset

ServiceInit ==
    /\ part \in {"process", "ring", "config"}
    /\ Init /\ ProcInit /\ ConfigInit
    /\ part # "process" => kind = FirstKind
    /\ part # "config" => ConfigRests

ServiceNext ==
    /\ UNCHANGED part
    /\ \/ part = "process" /\ ProcNext   /\ UNCHANGED <<vars, cfgVars>>
       \/ part = "ring"    /\ Next       /\ UNCHANGED <<procVars, cfgVars>>
       \/ part = "config"  /\ ConfigNext /\ UNCHANGED <<vars, procVars>>

ServiceSpec == ServiceInit /\ [][ServiceNext]_<<vars, procVars, cfgVars, part>>
=============================================================================
