----------------------------- MODULE AudioRing ------------------------------
(***************************************************************************)
(* dev/services/audio_service/audio_service_loop.c: what the audio service *)
(* does with its ring buffer.  When the buffer is full, on_hal_data drops  *)
(* the oldest frame by reading it, and writes again: the service is then   *)
(* both the writer and a reader of the buffer.                             *)
(*                                                                         *)
(* Writer is the service's loop thread.  Reader is a consumer that may     *)
(* attach to the shared memory segment at any time and then reads from it. *)
(***************************************************************************)
EXTENDS RingBuffer

VARIABLES attached, \* whether the consumer has attached
          stage,   \* how far on_hal_data has come: idle, write, drop, rewrite
          frame,   \* its pcm_buf
          window,  \* history: the frames it should have kept, oldest first
          dropped  \* history: whether the buffer has ever been found full

audioVars == <<vars, attached, stage, frame, window, dropped>>

AudioInit ==
    /\ Init
    /\ attached = FALSE
    /\ stage = "idle"
    /\ frame = Torn
    /\ window = <<>>
    /\ dropped = FALSE

\* The last Capacity - 1 elements of s \o <<x>>.
Slide(s, x) ==
    IF Capacity = 1 THEN <<>>
    ELSE Append(IF Len(s) = Capacity - 1 THEN Tail(s) ELSE s, x)

\* A frame has been read from the HAL; on_hal_data writes it.
OnHalData(x) ==
    /\ stage = "idle"
    /\ WriteCall(Writer, x)
    /\ stage'  = "write"
    /\ frame'  = x
    /\ window' = Slide(window, x)
    /\ UNCHANGED <<attached, dropped>>

\* The first write returned RB_ERROR_FULL: read the oldest frame away.
DropOldest ==
    /\ stage = "write" /\ res[Writer] = "full"
    /\ ReadCall(Writer)
    /\ stage' = "drop"
    /\ dropped' = TRUE
    /\ UNCHANGED <<attached, frame, window>>

\* Mutant: the frame that found the buffer full is not written again.
WriteAgainForgotten ==
    /\ stage = "drop" /\ pc[Writer] = "idle"
    /\ stage' = "rewrite"
    /\ UNCHANGED <<vars, attached, frame, window, dropped>>

\* Whatever the read returned, write again.
WriteAgain ==
    /\ stage = "drop"
    /\ WriteCall(Writer, frame)
    /\ stage' = "rewrite"
    /\ UNCHANGED <<attached, frame, window, dropped>>

\* Whatever the second write returned, the handler is done.
HandlerDone ==
    /\ pc[Writer] = "idle"
    /\ \/ stage = "write" /\ res[Writer] = "ok"
       \/ stage = "rewrite"
    /\ stage' = "idle"
    /\ UNCHANGED <<vars, attached, frame, window, dropped>>

ServiceStep ==
    /\ WriteStep(Writer) \/ ReadStep(Writer)
    /\ UNCHANGED <<attached, stage, frame, window, dropped>>

\* ring_buffer_attach maps the segment and leaves its indices alone.
Attach ==
    /\ ~attached
    /\ attached' = TRUE
    /\ UNCHANGED <<vars, stage, frame, window, dropped>>

ConsumerStep ==
    /\ attached
    /\ ReadCall(Reader) \/ ReadStep(Reader)
    /\ UNCHANGED <<attached, stage, frame, window, dropped>>

AudioNext ==
    \/ \E x \in Items : OnHalData(x)
    \/ DropOldest
    \/ WriteAgain
    \/ HandlerDone
    \/ ServiceStep
    \/ Attach
    \/ ConsumerStep

AudioSpec == AudioInit /\ [][AudioNext]_audioVars

-----------------------------------------------------------------------------
\* Until a consumer attaches, the drop-oldest path keeps exactly the most
\* recent Capacity - 1 frames in order: after every on_hal_data the newest
\* frame is in the buffer and only frames older than all the others are gone.
KeepsNewestFrames ==
    ~attached /\ stage = "idle" => Contents = window

\* With a consumer attached, every frame is whole for as long as the buffer
\* has never been full; the service becoming a second reader is the only
\* thing that endangers the consumer.
WholeUntilFirstDrop == ~dropped => NoTornRead

\* What the audio service's use of the ring guarantees: the newest frames are
\* kept, and an attached reader is safe until the first drop.
AudioSafe == KeepsNewestFrames /\ WholeUntilFirstDrop
=============================================================================
