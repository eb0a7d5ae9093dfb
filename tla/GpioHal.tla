------------------------------ MODULE GpioHal -------------------------------
(***************************************************************************)
(* hal/layers/gpio/gpio_hal.c: a pin of the sysfs GPIO interface, and      *)
(* gpio_service_hal.c, which the GPIO service drives it with.              *)
(*                                                                         *)
(* pin is the device with its private data, sysfs the kernel's side: what  *)
(* /sys/class/gpio shows of the pin.  Writing "out" to the direction pulls *)
(* the pin low; a write to the value of an input pin is refused.  waiter   *)
(* is a thread in gpio_hal_wait_interrupt; edges come at any time.  The    *)
(* pin may be exported already, by a service that was killed; taken        *)
(* (history) is whether a device has taken the export as its own.  toggler *)
(* is a thread in gpio_hal_toggle between its read and its write.          *)
(***************************************************************************)
EXTENDS Integers

VARIABLES pin, sysfs,
          waiter,  \* "no", or "polling" after the dummy read
          edges,   \* history: whether an edge came after the last read
          woken,   \* history: how the last wait ended
          toggler, \* "no", or the level ("low", "high") the toggle has read
          told     \* what the last query answered: its result, its value,
                   \* and (history) whether the kernel agreed with it

pinVars == <<pin, sysfs, waiter, edges, woken, toggler, told>>

NothingTold == [rc |-> "none", value |-> -1, agrees |-> TRUE]

NoPin == [state |-> "absent", value_fd |-> FALSE, exported |-> FALSE, direction |-> "out", initial |-> 0,
          edge |-> FALSE]

PinInit ==
    /\ pin = NoPin
    /\ sysfs \in [exported : BOOLEAN, direction : {"in"}, level : {0, 1}, edge : {FALSE}, pending : {FALSE}, taken : {FALSE}]
    /\ waiter = "no" /\ edges = FALSE /\ woken = "none"
    /\ toggler = "no" /\ told = NothingTold

\* sysfs_write of the direction: "out" starts low.
Directed(k, d) == [k EXCEPT !.direction = d, !.level = IF d = "out" THEN 0 ELSE @]

\* What gpio_open writes to the exported pin: direction, level, edge.
Configured(d, k) ==
    LET l == Directed([k EXCEPT !.exported = TRUE, !.taken = TRUE], d.direction)
    IN  [l EXCEPT !.level = IF d.direction = "out" THEN d.initial ELSE @,
                  !.edge = IF d.edge THEN TRUE ELSE @]

\* gpio_open.  That the pin is exported already, by a service that was
\* killed, is no error.  The value file may not open; the export is then
\* still the device's.
gpio_open(d, k) ==
    {<<[d EXCEPT !.exported = TRUE, !.value_fd = TRUE, !.state = "open"], Configured(d, k)>>,
     <<[d EXCEPT !.exported = TRUE], Configured(d, k)>>}
    \cup (IF k.exported THEN {} ELSE {<<d, k>>})

\* The part gpio_close and gpio_priv_cleanup share: the file, the export.
Unexported(d, k) ==
    <<[d EXCEPT !.value_fd = FALSE, !.exported = FALSE],
      IF d.exported THEN [k EXCEPT !.exported = FALSE, !.edge = FALSE, !.pending = FALSE, !.taken = FALSE] ELSE k>>

\* Mutant: a failed open is forgotten without cleaning up.
OpenFailedForgotten(o) == <<NoPin, o[2]>>

\* gpio_hal_destroy of a device that did not open: gpio_priv_cleanup.
OpenFailed(o) == <<NoPin, Unexported(o[1], o[2])[2]>>

PinBecomes(o) == pin' = o[1] /\ sysfs' = o[2]

\* gpio_hal_default_config: an output, low, without edges.
gpio_hal_default_config == [direction |-> "out", initial |-> 0, edge |-> FALSE]

\* gpio_hal_create: the closed device, or none: a pin number above
\* GPIO_PIN_NUMBER_MAX, or no memory for the device or its private data.
\* Nothing of the kernel's is touched.
gpio_hal_create(cfg) ==
    {NoPin, [NoPin EXCEPT !.state = "closed", !.direction = cfg.direction, !.initial = cfg.initial, !.edge = cfg.edge]}

\* gpio_service_hal_init: the default configuration with the service's
\* direction, level and edge; create, open, or destroy.
GpioServiceInit ==
    /\ pin.state = "absent"
    /\ \E dir \in {"in", "out"}, v \in {0, 1}, e \in BOOLEAN :
         \E d \in gpio_hal_create([gpio_hal_default_config EXCEPT !.direction = dir, !.initial = v, !.edge = e]) :
            IF d = NoPin THEN PinBecomes(<<NoPin, sysfs>>)
            ELSE \E o \in gpio_open(d, sysfs) : PinBecomes(IF o[1].state = "open" THEN o ELSE OpenFailed(o))
    /\ UNCHANGED <<waiter, edges, woken, toggler, told>>

GpioReopen ==
    /\ pin.state = "closed"
    /\ \E o \in gpio_open(pin, sysfs) : PinBecomes(o)
    /\ UNCHANGED <<waiter, edges, woken, toggler, told>>

\* gpio_close.
GpioClose ==
    /\ pin.state # "absent" /\ waiter = "no" /\ toggler = "no"
    /\ LET o == Unexported(pin, sysfs) IN PinBecomes(<<[o[1] EXCEPT !.state = "closed"], o[2]>>)
    /\ UNCHANGED <<waiter, edges, woken, toggler, told>>

gpio_start(d) == [d EXCEPT !.state = "active"]
gpio_stop(d)  == [d EXCEPT !.state = "open"]

\* gpio_service_hal_start and gpio_service_hal_stop.
GpioStart ==
    /\ pin.state = "open"
    /\ pin' = gpio_start(pin)
    /\ UNCHANGED <<sysfs, waiter, edges, woken, toggler, told>>

GpioStop ==
    /\ pin.state \in {"open", "active"}
    /\ pin' = gpio_stop(pin)
    /\ UNCHANGED <<sysfs, waiter, edges, woken, toggler, told>>

\* gpio_service_hal_cleanup: stop, close, and the last unref.
GpioServiceCleanup ==
    /\ pin.state # "absent" /\ waiter = "no" /\ toggler = "no"
    /\ PinBecomes(<<NoPin, Unexported(pin, sysfs)[2]>>)
    /\ UNCHANGED <<waiter, edges, woken, toggler, told>>

-----------------------------------------------------------------------------
\* What the level says to gpio_read: nothing without the file.
Level == IF pin.value_fd THEN sysfs.level ELSE -1

\* A read of the value file takes the edge that is pending on it, from under
\* a thread that waits for it too.
ReadTakesEdge ==
    /\ sysfs' = IF pin.value_fd THEN [sysfs EXCEPT !.pending = FALSE] ELSE sysfs
    /\ edges' = (edges /\ ~pin.value_fd)

\* gpio_read, with gpio_hal_get_value, GPIO_CMD_GET_VALUE and the service's
\* gpio_service_hal_get_value: no state is asked for, only the file.
gpio_read ==
    /\ pin.state # "absent"
    /\ told' = [rc |-> IF pin.value_fd THEN "ok" ELSE "io", value |-> Level, agrees |-> pin.value_fd => sysfs.exported]
    /\ ReadTakesEdge
    /\ UNCHANGED <<pin, waiter, woken, toggler>>

\* What the driver remembers of the direction and the edges is what the
\* kernel does, as far as the pin is this device's.
KernelAgrees == pin.exported => sysfs.direction = pin.direction /\ (pin.edge => sysfs.edge)

\* gpio_get_info: the remembered direction and edge, and the level if there
\* is one to read; success in any case.  The caller's value stays unset then.
gpio_get_info ==
    /\ pin.state # "absent"
    /\ told' = [rc |-> "ok", value |-> Level, agrees |-> KernelAgrees]
    /\ ReadTakesEdge
    /\ UNCHANGED <<pin, waiter, woken, toggler>>

\* gpio_control's queries: GPIO_CMD_GET_DIRECTION and GPIO_CMD_GET_EDGE,
\* answered from what the driver remembers.
ControlQuery ==
    /\ pin.state # "absent"
    /\ told' = [rc |-> "ok", value |-> -1, agrees |-> KernelAgrees]
    /\ UNCHANGED <<pin, sysfs, waiter, edges, woken, toggler>>

\* validate_control_arg: a command GPIO_CMD_SPECS does not have, an argument
\* that is missing or unaligned.  The service's own wait is such a call: its
\* command 0 is none of the driver's.
validate_control_arg ==
    /\ pin.state # "absent"
    /\ told' = [rc |-> "invalid", value |-> -1, agrees |-> TRUE]
    /\ UNCHANGED <<pin, sysfs, waiter, edges, woken, toggler>>

\* gpio_write: the kernel refuses an input.
gpio_write(v) == IF pin.value_fd /\ sysfs.direction = "out" THEN [sysfs EXCEPT !.level = v] ELSE sysfs

\* gpio_hal_set_value, with GPIO_CMD_SET_VALUE and the service's
\* gpio_service_hal_set_value.
SetValue(v) ==
    /\ pin.state # "absent"
    /\ sysfs' = gpio_write(v)
    /\ UNCHANGED <<pin, waiter, edges, woken, toggler, told>>

\* gpio_hal_toggle, not atomic: the level is read; without the file the
\* toggle ends there ...
ToggleRead ==
    /\ pin.value_fd /\ toggler = "no"
    /\ toggler' = IF Level = 1 THEN "high" ELSE "low"
    /\ ReadTakesEdge
    /\ UNCHANGED <<pin, waiter, woken, told>>

\* ... and the other level is written, whatever the pin has become.
ToggleWrite ==
    /\ toggler # "no"
    /\ sysfs' = gpio_write(IF toggler = "high" THEN 0 ELSE 1)
    /\ toggler' = "no"
    /\ UNCHANGED <<pin, waiter, edges, woken, told>>

\* GPIO_CMD_SET_DIRECTION and GPIO_CMD_SET_EDGE; an unexported pin has no
\* files to write to.
SetDirection(d) ==
    /\ pin.state # "absent"
    /\ pin' = [pin EXCEPT !.direction = d]
    /\ sysfs' = IF sysfs.exported THEN Directed(sysfs, d) ELSE sysfs
    /\ UNCHANGED <<waiter, edges, woken, toggler, told>>

SetEdge(e) ==
    /\ pin.state # "absent"
    /\ pin' = [pin EXCEPT !.edge = e]
    /\ sysfs' = IF sysfs.exported THEN [sysfs EXCEPT !.edge = e] ELSE sysfs
    /\ UNCHANGED <<waiter, edges, woken, toggler, told>>

\* Mutant: the wait starts without the dummy read.
WaitWithoutRead ==
    /\ pin.value_fd /\ waiter = "no"
    /\ waiter' = "polling" /\ edges' = FALSE
    /\ UNCHANGED <<pin, sysfs, woken, toggler, told>>

\* gpio_hal_wait_interrupt: the dummy read takes what is pending, ...
WaitBegin ==
    /\ pin.value_fd /\ waiter = "no"
    /\ waiter' = "polling" /\ edges' = FALSE
    /\ sysfs' = [sysfs EXCEPT !.pending = FALSE]
    /\ UNCHANGED <<pin, woken, toggler, told>>

\* ... and poll returns when something is pending, or at the timeout.
WaitEnd ==
    /\ waiter = "polling"
    /\ waiter' = "no"
    /\ woken' = IF sysfs.pending THEN (IF edges THEN "edge" ELSE "stale") ELSE "timeout"
    /\ edges' = FALSE
    /\ UNCHANGED <<pin, sysfs, toggler, told>>

\* The level of an input changes.
Edge ==
    /\ sysfs.direction = "in"
    /\ sysfs' = [sysfs EXCEPT !.level = 1 - @, !.pending = IF sysfs.edge THEN TRUE ELSE @]
    /\ edges' = (edges \/ (waiter = "polling" /\ sysfs.edge))
    /\ UNCHANGED <<pin, waiter, woken, toggler, told>>

PinNext ==
    \/ GpioServiceInit \/ GpioReopen \/ GpioClose \/ GpioStart \/ GpioStop \/ GpioServiceCleanup
    \/ gpio_read \/ gpio_get_info \/ ControlQuery \/ validate_control_arg
    \/ \E v \in {0, 1} : SetValue(v)
    \/ ToggleRead \/ ToggleWrite
    \/ \E d \in {"in", "out"} : SetDirection(d)
    \/ \E e \in BOOLEAN : SetEdge(e)
    \/ WaitBegin \/ WaitEnd \/ Edge

-----------------------------------------------------------------------------
PinTypeOK ==
    /\ pin.state \in {"absent", "closed", "open", "active"}
    /\ sysfs.level \in {0, 1} /\ waiter \in {"no", "polling"}
    /\ woken \in {"none", "edge", "stale", "timeout"}
    /\ toggler \in {"no", "low", "high"} /\ told.value \in {-1, 0, 1}

\* A device that is open has the pin exported and its file open; the driver's
\* idea of the direction and the edge is the kernel's; and a pin this device
\* exported is given back when there is no device any more, even when opening
\* it failed between the export and the file.
PinFollowsDevice ==
    /\ pin.state \in {"open", "active"} => pin.value_fd /\ pin.exported
    /\ pin.exported => sysfs.exported /\ sysfs.direction = pin.direction /\ (pin.edge => sysfs.edge)
    /\ pin.state = "absent" => ~sysfs.taken

\* Every query that succeeded told its caller what the kernel had: a level
\* is read from a pin that is exported, and the direction and the edges the
\* driver answers from memory are the ones in force, after any sequence of
\* opens that failed, closes and changes while the pin was closed.
QueriesTellKernel == told.rc = "ok" => told.agrees

\* A wait that ends with an edge was woken by one that came after it began,
\* never by one before; and an edge during the wait is pending for poll, unless
\* a read of the level took it.
WaitSeesItsEdges ==
    /\ woken # "stale"
    /\ waiter = "polling" => sysfs.pending = edges

\* The GPIO layer is correct: the pin it holds and the edges it waits for.
PinSafe == PinTypeOK /\ PinFollowsDevice /\ QueriesTellKernel /\ WaitSeesItsEdges
=============================================================================
