----------------------------- MODULE SensorHal ------------------------------
(***************************************************************************)
(* hal/layers/sensors/sensor_hal.c: a sensor of the Linux IIO subsystem,   *)
(* read through sysfs attributes or through the kernel's hardware buffer,  *)
(* and sensor_service_hal.c, which the sensor service drives it with.      *)
(*                                                                         *)
(* sensor is the device with its private data; state "absent" stands for a *)
(* NULL device.  iio is the kernel's side.  One thread calls the layer,    *)
(* and it keeps the transitions hal_interface.h documents: a device is     *)
(* opened when it is closed.  Reads change nothing, so they are operators  *)
(* of the state (ReadAxis) and not actions.                                *)
(***************************************************************************)
EXTENDS Integers, FiniteSets

CONSTANTS Poses,   \* what the axes may measure: raw values by axis
          Indices, \* scan indices by axis; -1 is an index that has no file
          Rates

VARIABLES sensor, iio,
          rest     \* history: pose and scale of the last full calibration

sensorVars == <<sensor, iio, rest>>

Axes   == {"x", "y", "z"}
Zero   == [a \in Axes |-> 0]
Scales == {1, 2}                \* 1.0 is the default
NoRest == [pose |-> Zero, scale |-> 0]

\* The kernel gives the channels of one device different scan indices.
ASSUME SensorAssumption ==
    /\ Rates # {} /\ Poses \subseteq [Axes -> Int] /\ Indices \subseteq [Axes -> Int]
    /\ \A i \in Indices, a, b \in Axes : i[a] = i[b] /\ i[a] >= 0 => a = b

\* sensor_hal_default_config and the memset of sensor_priv_t.
NoSensor == [state |-> "absent", three |-> FALSE, enable_buffer |-> FALSE, buffer_fd |-> FALSE,
             layout |-> Zero, scale |-> 1, offset |-> Zero, rate |-> CHOOSE r \in Rates : TRUE]

SensorInit ==
    /\ sensor = NoSensor
    /\ rest = NoRest
    /\ iio \in [index : Indices, writable : BOOLEAN, scale : {0, 2}, enabled : {FALSE},
                rate : {CHOOSE r \in Rates : TRUE}, pose : Poses]

-----------------------------------------------------------------------------
(***************************************************************************)
(* The hardware buffer.                                                    *)
(***************************************************************************)
\* read_sysfs_int of the three *_index files.
HasIndices(k) == \A a \in Axes : k.index[a] >= 0

\* Mutant: slots in the order x, y, z.
LayoutUnsorted(index) == [a \in Axes |-> CASE a = "x" -> 0 [] a = "y" -> 2 [] a = "z" -> 4]

\* compute_iio_scan_layout: a two-byte slot for every axis, by scan index.
compute_iio_scan_layout(index) ==
    [a \in Axes |-> 2 * Cardinality({b \in Axes : index[b] < index[a]})]

\* What the kernel puts at the slots of a scan, lowest index first.
ScanOrder(index) ==
    CHOOSE s \in [1 .. 3 -> Axes] : \A i, j \in 1 .. 3 : i < j => index[s[i]] < index[s[j]]

\* write_sysfs_text: an attribute takes a value when the service may write it.
BufferArmed(k, on) == [k EXCEPT !.enabled = IF k.writable THEN on ELSE @]

\* open_iio_buffer: the layout, the kernel's buffer, the device node.
open_iio_buffer(d, k) ==
    IF ~(d.three /\ HasIndices(k)) THEN {<<d, k>>}
    ELSE LET e == [d EXCEPT !.layout = compute_iio_scan_layout(k.index)]
         IN  {<<[e EXCEPT !.buffer_fd = TRUE], BufferArmed(k, TRUE)>>, <<e, BufferArmed(k, FALSE)>>}

close_iio_buffer(d, k) == <<[d EXCEPT !.buffer_fd = FALSE], BufferArmed(k, FALSE)>>

-----------------------------------------------------------------------------
(***************************************************************************)
(* The vtable.                                                             *)
(***************************************************************************)
\* sensor_open: the scale attribute or 1, the rate, the buffer if wanted.
sensor_open(d, k) ==
    LET e == [d EXCEPT !.scale = IF k.scale = 0 THEN 1 ELSE k.scale, !.state = "open"]
        l == [k EXCEPT !.rate = IF k.writable THEN d.rate ELSE @]
    IN  IF d.enable_buffer THEN open_iio_buffer(e, l) ELSE {<<e, l>>}

\* sensor_close; it disarms the buffer whether or not it was used.
sensor_close(d, k) == close_iio_buffer([d EXCEPT !.state = "closed"], k)

\* sensor_priv_cleanup of the last reference, the device closed before.
sensor_priv_cleanup(d, k) == <<NoSensor, close_iio_buffer(d, k)[2]>>

SensorBecomes(o) == sensor' = o[1] /\ iio' = o[2]

sensor_start(d) == [d EXCEPT !.state = "active"]
sensor_stop(d)  == [d EXCEPT !.state = "open"]

\* What read_sysfs_int finds in an axis's attribute, and its scaled value.
read_sysfs_int(k, a) == k.pose[a]
read_sysfs_axis(d, k, a) == read_sysfs_int(k, a) * d.scale

\* Mutant: in buffer mode the offset is left out.
ReadAxisNoOffset(d, k, a) ==
    IF d.buffer_fd THEN k.pose[ScanOrder(k.index)[d.layout[a] \div 2 + 1]] * d.scale
                   ELSE read_sysfs_axis(d, k, a) + d.offset[a]

\* One axis of what sensor_read returns of the kernel's present values: the
\* axis's slot of a scan, or its attribute.
ReadAxis(d, k, a) ==
    IF d.buffer_fd THEN k.pose[ScanOrder(k.index)[d.layout[a] \div 2 + 1]] * d.scale + d.offset[a]
                   ELSE read_sysfs_axis(d, k, a) + d.offset[a]

\* sensor_service_hal_read_3axis, through sensor_hal_read_3axis.
sensor_service_hal_read_3axis == [a \in Axes |-> ReadAxis(sensor, iio, a)]

\* sensor_hal_create of an admissible iio device id, with what it was
\* configured with.
sensor_hal_create(three, buffered, rate) ==
    [NoSensor EXCEPT !.state = "closed", !.three = three, !.enable_buffer = buffered, !.rate = rate]

\* sensor_service_hal_init: create, and open; opening cannot fail.
SensorServiceInit ==
    /\ sensor.state = "absent"
    /\ \E three \in BOOLEAN, buffered \in BOOLEAN, rate \in Rates :
         \E o \in sensor_open(sensor_hal_create(three, buffered, rate), iio) : SensorBecomes(o)
    /\ UNCHANGED rest

\* sensor_service_hal_start and sensor_start.
SensorStart ==
    /\ sensor.state = "open"
    /\ sensor' = sensor_start(sensor)
    /\ UNCHANGED <<iio, rest>>

\* sensor_service_hal_stop and sensor_stop.
SensorStop ==
    /\ sensor.state \in {"open", "active"}
    /\ sensor' = sensor_stop(sensor)
    /\ UNCHANGED <<iio, rest>>

\* sensor_close, and sensor_open of a closed device.
SensorClose ==
    /\ sensor.state \in {"open", "active"}
    /\ SensorBecomes(sensor_close(sensor, iio))
    /\ UNCHANGED rest

SensorReopen ==
    /\ sensor.state = "closed"
    /\ \E o \in sensor_open(sensor, iio) : SensorBecomes(o)
    /\ UNCHANGED rest

\* Mutant: the device is freed without stopping and closing it.
SensorCleanupForgets ==
    /\ sensor.state # "absent"
    /\ SensorBecomes(<<NoSensor, iio>>)
    /\ rest' = NoRest

\* sensor_service_hal_cleanup: stop, close, and the last unref.
SensorServiceCleanup ==
    /\ sensor.state # "absent"
    /\ LET o == sensor_close(sensor_stop(sensor), iio) IN SensorBecomes(sensor_priv_cleanup(o[1], o[2]))
    /\ rest' = NoRest

-----------------------------------------------------------------------------
(***************************************************************************)
(* sensor_control; the commands that only read change nothing.             *)
(***************************************************************************)
SetRate(r) ==
    /\ sensor.state # "absent"
    /\ sensor' = [sensor EXCEPT !.rate = r]
    /\ iio' = [iio EXCEPT !.rate = IF iio.writable THEN r ELSE @]
    /\ UNCHANGED rest

\* Mutant: the buffer is opened on a closed device, too.
EnableBufferClosed(enable) ==
    /\ sensor.state # "absent"
    /\ LET d == [sensor EXCEPT !.enable_buffer = enable]
       IN  IF enable /\ ~d.buffer_fd THEN \E o \in open_iio_buffer(d, iio) : SensorBecomes(o)
           ELSE IF ~enable /\ d.buffer_fd THEN SensorBecomes(close_iio_buffer(d, iio))
           ELSE SensorBecomes(<<d, iio>>)
    /\ UNCHANGED rest

\* SENSOR_CMD_ENABLE_BUFFER; that the buffer could not be opened is not
\* reported.
EnableBuffer(enable) ==
    /\ sensor.state # "absent"
    /\ LET d == [sensor EXCEPT !.enable_buffer = enable]
       IN  IF enable /\ ~d.buffer_fd /\ d.state # "closed" THEN \E o \in open_iio_buffer(d, iio) : SensorBecomes(o)
           ELSE IF ~enable /\ d.buffer_fd THEN SensorBecomes(close_iio_buffer(d, iio))
           ELSE SensorBecomes(<<d, iio>>)
    /\ UNCHANGED rest

\* SENSOR_CMD_CALIBRATE; an axis that cannot be read counts as zero.
Calibrate(readable) ==
    /\ sensor.state # "absent"
    /\ sensor' = IF ~sensor.three THEN sensor
                 ELSE [sensor EXCEPT !.offset =
                        [a \in Axes |-> IF a \in readable THEN -read_sysfs_axis(sensor, iio, a) ELSE 0]]
    /\ rest' = IF sensor.three /\ readable = Axes THEN [pose |-> iio.pose, scale |-> sensor.scale] ELSE NoRest
    /\ UNCHANGED iio

\* SENSOR_CMD_SET_SCALE refuses zero.
SetScale(s) ==
    /\ sensor.state # "absent" /\ s # 0
    /\ sensor' = [sensor EXCEPT !.scale = s]
    /\ UNCHANGED <<iio, rest>>

SetOffsets(v) ==
    /\ sensor.state # "absent"
    /\ sensor' = [sensor EXCEPT !.offset = [a \in Axes |-> v]]
    /\ rest' = NoRest
    /\ UNCHANGED iio

\* The device is moved.
Moved ==
    /\ \E p \in Poses \ {iio.pose} : iio' = [iio EXCEPT !.pose = p]
    /\ UNCHANGED <<sensor, rest>>

SensorNext ==
    \/ SensorServiceInit \/ SensorStart \/ SensorStop \/ SensorClose \/ SensorReopen
    \/ SensorServiceCleanup \/ Moved
    \/ \E r \in Rates : SetRate(r)
    \/ \E e \in BOOLEAN : EnableBuffer(e)
    \/ \E readable \in {Axes, Axes \ {"y"}} : Calibrate(readable)
    \/ \E s \in Scales : SetScale(s)
    \/ \E v \in {1} : SetOffsets(v)

-----------------------------------------------------------------------------
SensorTypeOK ==
    /\ sensor.state \in {"absent", "closed", "open", "active"}
    /\ sensor.layout \in [Axes -> 0 .. 4] /\ sensor.scale \in Scales /\ sensor.offset \in [Axes -> Int]

\* A closed device holds no descriptor, and the kernel's buffer is armed only
\* for a device that reads from it: after any sequence of opening, closing
\* and switching, also when arming or opening failed half-way.
SensorHoldsNothing ==
    /\ sensor.state \in {"absent", "closed"} => ~sensor.buffer_fd
    /\ iio.writable => iio.enabled = sensor.buffer_fd

\* Every axis is read from its own slot of the kernel's scan, scaled and
\* corrected alike in both modes, and a device that is at rest where it was
\* fully calibrated reads zero as long as nobody set another scale or offset.
SensorReadsRight ==
    sensor.state = "active" /\ sensor.three =>
        \A a \in Axes :
            /\ sensor_service_hal_read_3axis[a] = iio.pose[a] * sensor.scale + sensor.offset[a]
            /\ rest = [pose |-> iio.pose, scale |-> sensor.scale] => sensor_service_hal_read_3axis[a] = 0

\* The sensor layer is correct: what it holds and what it reads.
SensorSafe == SensorTypeOK /\ SensorHoldsNothing /\ SensorReadsRight
=============================================================================
