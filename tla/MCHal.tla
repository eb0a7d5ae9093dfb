------------------------------- MODULE MCHal --------------------------------
(***************************************************************************)
(* The HAL for TLC.  part is the piece of the HAL that moves: the device   *)
(* registry, or one device of one of the four layers, which share nothing. *)
(*                                                                         *)
(* Two devices of the registry have one name, and the names have probe     *)
(* sequences that overlap and wrap around the end of the table.            *)
(***************************************************************************)
EXTENDS HalRegistry, SensorHal, CameraHal, AudioHal, GpioHal, TLC

CONSTANTS dev1, dev2, dev3, name1, name2

VARIABLE part

MCDevName == (dev1 :> name1) @@ (dev2 :> name1) @@ (dev3 :> name2)
MCHash    == (name1 :> 7) @@ (name2 :> 3)
Symmetry  == Permutations(Threads) \cup Permutations({dev1, dev2})

\* Two positions of a sensor, three orders of its channels, and one whose
\* second channel has no index.
Axis(x, y, z) == [x |-> x, y |-> y, z |-> z]
MCPoses   == {Axis(1, 2, 3), Axis(3, 1, 2)}
MCIndices == {Axis(0, 1, 2), Axis(2, 0, 1), Axis(1, 2, 0), Axis(0, -1, 2)}

Parts == {"registry", "sensor", "camera", "audio", "gpio"}

halVars == <<vars, sensorVars, cameraVars, pcmVars, pinVars, part>>

HalInit ==
    /\ part \in Parts
    /\ Init /\ SensorInit /\ CameraInit /\ PcmInit /\ PinInit
    /\ part # "sensor" => iio.index = Axis(0, 1, 2) /\ iio.writable /\ iio.scale = 0 /\ iio.pose = Axis(1, 2, 3)
    /\ part # "gpio" => ~sysfs.exported /\ sysfs.level = 0

HalNext ==
    /\ UNCHANGED part
    /\ \/ part = "registry" /\ Next       /\ UNCHANGED <<sensorVars, cameraVars, pcmVars, pinVars>>
       \/ part = "sensor"   /\ SensorNext /\ UNCHANGED <<vars, cameraVars, pcmVars, pinVars>>
       \/ part = "camera"   /\ CameraNext /\ UNCHANGED <<vars, sensorVars, pcmVars, pinVars>>
       \/ part = "audio"    /\ PcmNext    /\ UNCHANGED <<vars, sensorVars, cameraVars, pinVars>>
       \/ part = "gpio"     /\ PinNext    /\ UNCHANGED <<vars, sensorVars, cameraVars, pcmVars>>

HalSpec == HalInit /\ [][HalNext]_halVars

\* A PCM device's handle, state and frame counts (audio_hal.c) and a line's
\* export, direction and edges (gpio_hal.c) are what the kernel has, after
\* any sequence of operations in which any system call failed.
PcmPinSafe == PcmSafe /\ PinSafe
=============================================================================
