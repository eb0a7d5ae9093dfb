----------------------------- MODULE CameraHal ------------------------------
(***************************************************************************)
(* hal/layers/camera/camera_hal.c: a V4L2 camera whose buffers are mapped  *)
(* into the process and go back and forth between the driver and the       *)
(* application, and camera_service_hal.c, which drives it.                 *)
(*                                                                         *)
(* camera is the device with its private data, v4l2 the driver's side of   *)
(* it: the owner of every buffer (none, user, queued, done).  held is the  *)
(* frames the application has captured and not returned.  One thread calls *)
(* the layer; it opens a closed device, and does not return a frame of a   *)
(* stream that has ended.  The driver works at any time.                   *)
(***************************************************************************)
EXTENDS Integers

CONSTANTS BufferCount, \* config.buffer_count, at least 2
          Formats      \* what resolution, rate and format may be set to

ASSUME CameraAssumption == BufferCount \in Nat /\ Formats # {}

VARIABLES camera, v4l2, held

cameraVars == <<camera, v4l2, held>>

Buffers == 0 .. BufferCount - 1

NoCamera == [state |-> "absent", v4l2_fd |-> FALSE, mapped |-> {}, count |-> 0, streaming |-> FALSE,
             config |-> CHOOSE f \in Formats : TRUE, set |-> FALSE]
NoBuffers == [b \in Buffers |-> "none"]

CameraInit ==
    /\ camera = NoCamera
    /\ v4l2 = [owner |-> NoBuffers, on |-> FALSE, format |-> CHOOSE f \in Formats : TRUE]
    /\ held = {}

-----------------------------------------------------------------------------
\* The calls release_mmap_buffers and close of the descriptor: the driver
\* takes its buffers back and stops.
release_mmap_buffers(c) == [c EXCEPT !.mapped = {}, !.count = 0, !.v4l2_fd = FALSE]
DriverReleased(k) == [k EXCEPT !.owner = NoBuffers, !.on = FALSE]

\* camera_open succeeds: configure_v4l2_format takes over what the driver
\* adjusted, allocate_mmap_buffers maps n buffers.
camera_open(c, f, n) ==
    <<[c EXCEPT !.state = "open", !.v4l2_fd = TRUE, !.mapped = 0 .. n - 1, !.count = n, !.config = f, !.set = FALSE],
      [v4l2 EXCEPT !.owner = [b \in Buffers |-> IF b < n THEN "user" ELSE "none"], !.format = f]>>

\* It fails before the buffers, ...
CameraOpenFails(c) == <<c, v4l2>>

\* Mutant: a half-done allocation is not undone.
AllocationKept(c, f, n, mapped) ==
    <<[c EXCEPT !.config = f, !.set = FALSE, !.count = n, !.mapped = mapped, !.v4l2_fd = TRUE],
      [v4l2 EXCEPT !.format = f]>>

\* ... or while it maps them: what was mapped is released.
AllocationFails(c, f, n, mapped) ==
    <<release_mmap_buffers([c EXCEPT !.config = f, !.set = FALSE, !.count = n, !.mapped = mapped]),
      DriverReleased([v4l2 EXCEPT !.format = f])>>

\* Without memory for the list of buffers nothing is mapped, there is
\* nothing to release, and their number stays behind.
NoBufferList(c, f, n) ==
    <<[c EXCEPT !.config = f, !.set = FALSE, !.count = n], DriverReleased([v4l2 EXCEPT !.format = f])>>

CameraBecomes(o) == camera' = o[1] /\ v4l2' = o[2]

\* camera_hal_create.
camera_hal_create(f) == [NoCamera EXCEPT !.state = "closed", !.config = f]

\* camera_service_hal_init: the path, create, and open, or destroy.
CameraServiceInit ==
    /\ camera.state = "absent"
    /\ \E f \in Formats, g \in Formats, n \in 2 .. BufferCount :
         \/ CameraBecomes(camera_open(camera_hal_create(f), g, n))
         \/ CameraBecomes(<<NoCamera, v4l2>>)
    /\ UNCHANGED held

\* camera_open of a closed device.
CameraReopen ==
    /\ camera.state = "closed"
    /\ \E g \in Formats, n \in 2 .. BufferCount :
         \/ CameraBecomes(camera_open(camera, g, n))
         \/ CameraBecomes(CameraOpenFails(camera))
         \/ CameraBecomes(NoBufferList(camera, g, n))
         \/ \E m \in 0 .. n - 1 : CameraBecomes(AllocationFails(camera, g, n, 0 .. m - 1))
    /\ UNCHANGED held

\* camera_close.
CameraClose ==
    /\ camera.state # "absent"
    /\ camera' = [release_mmap_buffers(camera) EXCEPT !.streaming = FALSE, !.state = "closed"]
    /\ v4l2' = IF camera.v4l2_fd THEN DriverReleased(v4l2) ELSE v4l2
    /\ held' = {}

\* camera_service_hal_cleanup: stop, close whether or not that worked, and
\* the last unref with camera_priv_cleanup.
CameraServiceCleanup ==
    /\ camera.state # "absent"
    /\ camera' = NoCamera
    /\ v4l2' = DriverReleased(v4l2)
    /\ held' = {}

\* The buffers VIDIOC_QBUF of camera_start gets to, in order, before one is
\* refused: the driver takes a buffer once.
FirstBuffers(n) == {b \in Buffers : b < n}

\* camera_start: all buffers are queued and the stream is on, ...
CameraStart ==
    /\ camera.state = "open"
    /\ \A b \in FirstBuffers(camera.count) : v4l2.owner[b] = "user"
    /\ camera' = [camera EXCEPT !.streaming = TRUE, !.state = "active"]
    /\ v4l2' = [v4l2 EXCEPT !.owner = [b \in Buffers |-> IF b < camera.count THEN "queued" ELSE @[b]], !.on = TRUE]
    /\ UNCHANGED held

\* ... or a buffer, or the stream, is refused and the ones before stay queued.
CameraStartFails ==
    /\ camera.state = "open"
    /\ \E n \in 0 .. camera.count :
         /\ \A b \in FirstBuffers(n) : v4l2.owner[b] = "user"
         /\ v4l2' = [v4l2 EXCEPT !.owner = [b \in Buffers |-> IF b < n THEN "queued" ELSE @[b]]]
    /\ UNCHANGED <<camera, held>>

\* camera_stop: VIDIOC_STREAMOFF gives every buffer back.
CameraStop ==
    /\ camera.state \in {"open", "active"}
    /\ camera' = [camera EXCEPT !.streaming = FALSE, !.state = "open"]
    /\ IF camera.streaming
       THEN /\ v4l2' = [v4l2 EXCEPT !.on = FALSE, !.owner = [b \in Buffers |-> IF @[b] = "none" THEN "none" ELSE "user"]]
            /\ held' = {}
       ELSE UNCHANGED <<v4l2, held>>

\* Mutant: a frame is handed out although the driver keeps the buffer.
CapturePeeks ==
    /\ camera.state = "active"
    /\ \E b \in Buffers :
         /\ v4l2.owner[b] = "done"
         /\ held' = held \cup {b}
    /\ UNCHANGED <<camera, v4l2>>

\* camera_hal_capture_frame: VIDIOC_DQBUF of a filled buffer.
Capture ==
    /\ camera.state = "active"
    /\ \E b \in Buffers :
         /\ v4l2.owner[b] = "done"
         /\ v4l2' = [v4l2 EXCEPT !.owner[b] = "user"]
         /\ held' = held \cup {b}
    /\ UNCHANGED camera

\* camera_hal_return_frame: VIDIOC_QBUF.
ReturnFrame ==
    /\ \E b \in held :
         /\ b < camera.count
         /\ v4l2.owner[b] = "user"
         /\ v4l2' = [v4l2 EXCEPT !.owner[b] = "queued"]
         /\ held' = held \ {b}
    /\ UNCHANGED camera

\* camera_control: SET_RESOLUTION, SET_FPS and SET_FORMAT wait for the next open.
SetConfig(f) ==
    /\ camera.state # "absent"
    /\ camera' = [camera EXCEPT !.config = f, !.set = TRUE]
    /\ UNCHANGED <<v4l2, held>>

\* The driver fills a queued buffer.
DriverFills ==
    /\ v4l2.on
    /\ \E b \in Buffers : v4l2.owner[b] = "queued" /\ v4l2' = [v4l2 EXCEPT !.owner[b] = "done"]
    /\ UNCHANGED <<camera, held>>

CameraNext ==
    \/ CameraServiceInit \/ CameraReopen \/ CameraClose \/ CameraServiceCleanup
    \/ CameraStart \/ CameraStartFails \/ CameraStop
    \/ Capture \/ ReturnFrame \/ DriverFills
    \/ \E f \in Formats : SetConfig(f)

-----------------------------------------------------------------------------
CameraTypeOK ==
    /\ camera.state \in {"absent", "closed", "open", "active"}
    /\ camera.mapped \subseteq Buffers /\ camera.config \in Formats
    /\ v4l2.owner \in [Buffers -> {"none", "user", "queued", "done"}]
    /\ held \subseteq Buffers

\* The frame an application holds is mapped and the driver does not write to
\* it; and while the stream runs no buffer is lost between the two: each is
\* with the driver or held by the application.
CameraFramesExclusive ==
    /\ \A b \in held : b \in camera.mapped /\ v4l2.owner[b] = "user"
    /\ camera.state = "active" =>
         \A b \in camera.mapped : v4l2.owner[b] \in {"queued", "done"} \/ b \in held

\* A device that is not open has no descriptor and no mapping, whichever step
\* of opening it failed; an open one works with the format the driver gave it
\* unless another has been set since; it streams when it is active.
CameraHoldsNothing ==
    /\ camera.v4l2_fd = (camera.state \in {"open", "active"})
    /\ ~camera.v4l2_fd => camera.mapped = {} /\ v4l2.owner = NoBuffers
    /\ camera.v4l2_fd => camera.set \/ camera.config = v4l2.format
    /\ (camera.state = "active") = v4l2.on /\ v4l2.on = camera.streaming

\* The camera layer is correct: its frames and its resources.
CameraSafe == CameraTypeOK /\ CameraFramesExclusive /\ CameraHoldsNothing
=============================================================================
