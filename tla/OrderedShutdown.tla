-------------------------- MODULE OrderedShutdown ---------------------------
(***************************************************************************)
(* lifecycle/sm_dependencies.c and lifecycle/sm_graceful_shutdown.c:       *)
(* services are asked to end in the reverse of the order their             *)
(* dependencies give, and are killed when they do not.  The shutdown works *)
(* on copies of the registry, while services leave it and come back.       *)
(***************************************************************************)
EXTENDS Integers, Sequences, FiniteSets, SequencesExt

CONSTANTS Named,            \* the services
          MaxDeps,          \* SM_MAX_DEPS
          MaxDepth,         \* MAX_RECURSION_DEPTH
          MaxInstances      \* bound on the processes of one service

VARIABLES deps,             \* g_deps: service_name and depends_on, in the order of registration
          listed,           \* the registry: name and process, in the order of registration
          alive,            \* the processes that run: <<name, number>>
          down,             \* the shutdown: where it is, whom it still has to signal
          sent              \* history: signals sent, by_order, what the registry held at the start

shutVars == <<deps, listed, alive, down, sent>>

ShutInit ==
    /\ deps = << >> /\ listed = << >> /\ alive = {}
    /\ down = [at |-> "no", todo |-> << >>]
    /\ sent = [term |-> << >>, kill |-> {}, by_order |-> FALSE, first |-> {}]

Lists == {s \in UNION {[1 .. n -> Named] : n \in 0 .. MaxDeps} : IsInjective(s)}

\* sm_deps_register: a name is registered once.
RegisterDeps(name, on) ==
    /\ down.at = "no" /\ \A i \in DOMAIN deps : deps[i].service_name # name
    /\ deps' = Append(deps, [service_name |-> name, depends_on |-> on])
    /\ UNCHANGED <<listed, alive, down, sent>>

\* A process of the service registers with the service manager.
Arrive(name, number) ==
    /\ \A i \in DOMAIN listed : listed[i][1] # name
    /\ \A k \in 1 .. number - 1 : <<name, k>> \notin alive
    /\ <<name, number>> \notin alive \cup sent.first \cup sent.kill
    /\ listed' = Append(listed, <<name, number>>)
    /\ alive' = alive \cup {<<name, number>>}
    /\ UNCHANGED <<deps, down, sent>>

\* It unregisters and ends; it need not when it is asked to.
Depart(p) ==
    /\ p \in Range(listed)
    /\ listed' = SelectSeq(listed, LAMBDA q : q # p)
    /\ alive' = alive \ {p}
    /\ UNCHANGED <<deps, down, sent>>

-----------------------------------------------------------------------------
(* Pure functions of sm_dependencies.c.                                    *)

IndicesOf(name) == {k \in DOMAIN deps : deps[k].service_name = name}

\* What has_circular_visit keeps: the two marks of every entry, its answer.
Visits == [visited : SUBSET DOMAIN deps, rec_stack : SUBSET DOMAIN deps, circular : BOOLEAN]

\* has_circular_visit from entry i, and from the entries it depends on.
has_circular_visit[i \in DOMAIN deps, v \in Visits, depth \in 0 .. MaxDepth + 1] ==
    LET Dependency(w, d) ==
            IF w.circular \/ IndicesOf(d) = {} THEN w
            ELSE LET k == CHOOSE k \in IndicesOf(d) : TRUE
                 IN  IF k \notin w.visited THEN has_circular_visit[k, w, depth + 1]
                     ELSE [w EXCEPT !.circular = k \in w.rec_stack]
        after == FoldLeft(Dependency, [v EXCEPT !.visited = @ \cup {i}, !.rec_stack = @ \cup {i}], deps[i].depends_on)
    IN  IF depth > MaxDepth THEN [v EXCEPT !.circular = TRUE]
        ELSE IF after.circular THEN after
        ELSE [after EXCEPT !.rec_stack = @ \ {i}]

sm_deps_detect_circular ==
    FoldLeft(LAMBDA v, i : IF v.circular \/ i \in v.visited THEN v ELSE has_circular_visit[i, v, 0],
             [visited |-> {}, rec_stack |-> {}, circular |-> FALSE],
             [i \in DOMAIN deps |-> i]).circular

\* Mutant: dependencies are not looked for.
SatisfiedAlways(o, i) == TRUE

\* The condition of sm_deps_get_startup_order for entry i.  It looks for a
\* dependency in the places of the result that have the numbers of earlier
\* entries, so that it may miss one that is there.
Satisfied(o, i) ==
    \A j \in DOMAIN deps[i].depends_on :
        \E k \in 1 .. i - 1 : k \in o.visited /\ k \in DOMAIN o.services /\ o.services[k] = deps[i].depends_on[j]

\* sm_deps_get_startup_order: as many rounds as there are entries.  The
\* order is good when it has all of them.
sm_deps_get_startup_order(limit) ==
    LET n == Len(deps)
        Entry(o, i) == IF i \in o.visited \/ ~Satisfied(o, i) \/ Len(o.services) >= limit THEN o
                       ELSE [services |-> Append(o.services, deps[i].service_name), visited |-> o.visited \cup {i}]
        o == FoldLeft(Entry, [services |-> << >>, visited |-> {}], [k \in 1 .. n * n |-> ((k - 1) % n) + 1])
    IN  [services |-> o.services, complete |-> Len(o.services) = n]

-----------------------------------------------------------------------------
\* sm_graceful_shutdown up to the first signal: the copy of the registry,
\* and whom to signal in which order.
BeginShutdown ==
    LET order == sm_deps_get_startup_order(Len(listed))
        useOrder == order.complete /\ Len(order.services) > 0
        Entries == SelectSeq(Reverse(order.services), LAMBDA s : \E p \in Range(listed) : p[1] = s)
        Process(s) == CHOOSE p \in Range(listed) : p[1] = s
    IN  /\ down.at = "no"
        /\ down' = [at |-> "term", todo |-> IF useOrder THEN [i \in DOMAIN Entries |-> Process(Entries[i])]
                                            ELSE Reverse(listed)]
        /\ sent' = [sent EXCEPT !.by_order = useOrder, !.first = Range(listed)]
        /\ UNCHANGED <<deps, listed, alive>>

SignalTerm ==
    /\ down.at = "term" /\ down.todo # << >>
    /\ down' = [down EXCEPT !.todo = Tail(@)]
    /\ sent' = [sent EXCEPT !.term = Append(@, Head(down.todo))]
    /\ UNCHANGED <<deps, listed, alive>>

\* All have left the registry, or the time is over: status is never set to
\* SERVICE_STOPPED.  The second copy.
WaitForServices ==
    /\ down.at = "term" /\ down.todo = << >>
    /\ down' = [at |-> "kill", todo |-> listed]
    /\ UNCHANGED <<deps, listed, alive, sent>>

SignalKill ==
    /\ down.at = "kill" /\ down.todo # << >>
    /\ down' = [down EXCEPT !.todo = Tail(@)]
    /\ sent' = [sent EXCEPT !.kill = @ \cup {Head(down.todo)}]
    /\ alive' = alive \ {Head(down.todo)}
    /\ UNCHANGED <<deps, listed>>

\* sm_persistence_save, and the end.
EndShutdown ==
    /\ down.at = "kill" /\ down.todo = << >>
    /\ down' = [down EXCEPT !.at = "done"]
    /\ UNCHANGED <<deps, listed, alive, sent>>

ShutNext ==
    \/ \E s \in Named, on \in Lists : RegisterDeps(s, on)
    \/ \E s \in Named, k \in 1 .. MaxInstances : Arrive(s, k)
    \/ \E p \in Named \X (1 .. MaxInstances) : Depart(p)
    \/ BeginShutdown \/ SignalTerm \/ WaitForServices \/ SignalKill \/ EndShutdown

-----------------------------------------------------------------------------
DependsOn == {e \in Named \X Named : \E i \in DOMAIN deps : deps[i].service_name = e[1] /\ e[2] \in Range(deps[i].depends_on)}

\* Chains of n dependencies between registered services.
Chain[n \in 1 .. Cardinality(Named) + MaxDepth + 1] ==
    LET one == {e \in DependsOn : IndicesOf(e[2]) # {}}
    IN  IF n = 1 THEN one
        ELSE {e \in Named \X Named : \E m \in Named : <<e[1], m>> \in one /\ <<m, e[2]>> \in Chain[n - 1]}

Cyclic == \E n \in 1 .. Cardinality(Named) : \E s \in Named : <<s, s>> \in Chain[n]

\* sm_deps_detect_circular finds every cycle, and nothing else but chains
\* that are longer than it follows.
CircularIsExact ==
    /\ Cyclic => sm_deps_detect_circular
    /\ sm_deps_detect_circular => Cyclic \/ Chain[MaxDepth + 1] # {}

\* A service is asked to end before those it depends on, when the order of
\* the dependencies is used at all.
DependentsFirst ==
    sent.by_order => \A i, j \in DOMAIN sent.term :
        i < j => <<sent.term[j][1], sent.term[i][1]>> \notin DependsOn

\* Nobody is killed who was not asked before, except who registered after
\* the first copy or whose dependencies were not declared.
AskedBeforeKilled ==
    \A p \in sent.kill \cap sent.first :
        p \in Range(sent.term) \/ (sent.by_order /\ IndicesOf(p[1]) = {})

\* When the shutdown is over, nobody runs who was registered when it began.
NobodyIsLeft == down.at = "done" => sent.first \cap alive = {}

\* Dependencies and the graceful shutdown are correct.
ShutdownSafe == CircularIsExact /\ DependentsFirst /\ AskedBeforeKilled /\ NobodyIsLeft
=============================================================================
