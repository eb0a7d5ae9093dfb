------------------------------ MODULE AudioHal ------------------------------
(***************************************************************************)
(* hal/layers/audio/audio_hal.c: an ALSA stream, and audio_service_hal.c,  *)
(* which the audio service drives it with.                                 *)
(*                                                                         *)
(* audio is the device with its private data.  pcm is the stream of the    *)
(* ALSA library behind pcm_handle: null, setup, prepared, running, or xrun *)
(* once the ring has over- or underrun.  One thread calls the layer and    *)
(* opens only a closed device; an xrun happens at any time.                *)
(***************************************************************************)
EXTENDS Integers

CONSTANTS PcmRates,   \* sample rates
          MaxFrames   \* bound on the frames of one buffer

ASSUME PcmAssumption == PcmRates # {} /\ MaxFrames \in Nat

VARIABLES audio, pcm,
          moved       \* history: outcome of the last read or write, in bytes

pcmVars == <<audio, pcm, moved>>

\* alsa_format_from_hal and audio_hal_bytes_per_frame.
BytesPerSample == [S16_LE |-> 2, S24_LE |-> 3, S32_LE |-> 4, FLOAT |-> 4]
PcmFormats     == DOMAIN BytesPerSample
Channels       == {1, 2}

audio_hal_bytes_per_frame(format, channels) == BytesPerSample[format] * channels

NoAudio == [state |-> "absent", direction |-> "capture", rate |-> CHOOSE r \in PcmRates : TRUE,
            bytes_per_frame |-> 1, volume |-> 100, muted |-> FALSE]
NoMove  == [asked |-> 0, got |-> 0, frame |-> 1, failed |-> FALSE]

PcmInit == audio = NoAudio /\ pcm = "null" /\ moved = NoMove

\* audio_hal_create.
audio_hal_create(direction, format, channels, rate) ==
    [NoAudio EXCEPT !.state = "closed", !.direction = direction, !.rate = rate,
                    !.bytes_per_frame = audio_hal_bytes_per_frame(format, channels)]

\* audio_open succeeds: snd_pcm_open, and configure_alsa_hw_params, which
\* takes over the rate the hardware gave and prepares the stream.
AudioOpened(d, rate) == audio' = [d EXCEPT !.state = "open", !.rate = rate] /\ pcm' = "prepared"

\* Mutant: a stream that could not be configured is not closed.
AudioOpenKeepsHandle(d) == \E rate \in PcmRates : audio' = [d EXCEPT !.rate = rate] /\ pcm' = "setup"

\* It fails: without a stream, or with one that could not be configured and
\* is closed again, with or without the adjusted rate.
AudioOpenFails(d) == \E rate \in PcmRates : audio' = [d EXCEPT !.rate = rate] /\ pcm' = "null"

\* audio_service_hal_init: create, and open, or destroy.
AudioServiceInit ==
    /\ audio.state = "absent"
    /\ \E dir \in {"capture", "playback"}, f \in PcmFormats, c \in Channels, r \in PcmRates, s \in PcmRates :
         \/ AudioOpened(audio_hal_create(dir, f, c, r), s)
         \/ UNCHANGED <<audio, pcm>>
    /\ UNCHANGED moved

AudioReopen ==
    /\ audio.state = "closed"
    /\ (\E s \in PcmRates : AudioOpened(audio, s)) \/ AudioOpenFails(audio)
    /\ UNCHANGED moved

\* audio_close; the zeros secure_clear_capture_buffer writes are refused by a
\* stream that captures.
AudioClose ==
    /\ audio.state # "absent"
    /\ audio' = [audio EXCEPT !.state = "closed"]
    /\ pcm' = "null"
    /\ UNCHANGED moved

audio_start(d) == [d EXCEPT !.state = "active"]
audio_stop(d)  == [d EXCEPT !.state = "open"]

\* audio_service_hal_start.
AudioStart ==
    /\ audio.state = "open"
    /\ audio' = audio_start(audio)
    /\ UNCHANGED <<pcm, moved>>

\* audio_service_hal_stop: drop, prepare.
AudioStop ==
    /\ audio.state \in {"open", "active"}
    /\ audio' = audio_stop(audio)
    /\ pcm' = IF pcm = "null" THEN pcm ELSE "prepared"
    /\ UNCHANGED moved

\* audio_service_hal_cleanup: stop, close, and the last unref.
AudioServiceCleanup ==
    /\ audio.state # "absent"
    /\ audio' = NoAudio
    /\ pcm' = "null"
    /\ UNCHANGED moved

\* snd_pcm_readi and snd_pcm_writei: how many frames a stream that works
\* moves of those asked for.
PcmMoves(frames) == 0 .. frames

\* Mutant: what is returned is frames, as ALSA counts.
TransferFrames(bytes, dir) ==
    /\ audio.state = "active" /\ audio.direction = dir
    /\ pcm \in {"prepared", "running"}
    /\ \E n \in PcmMoves(bytes \div audio.bytes_per_frame) : moved' = [asked |-> bytes, got |-> n, frame |-> audio.bytes_per_frame, failed |-> FALSE]
    /\ pcm' = "running"
    /\ UNCHANGED audio

\* audio_read and audio_write in the right direction; ALSA counts in frames.
Transfer(bytes, dir) ==
    /\ audio.state = "active" /\ audio.direction = dir
    /\ pcm \in {"prepared", "running"}
    /\ \E n \in PcmMoves(bytes \div audio.bytes_per_frame) :
         moved' = [asked |-> bytes, got |-> n * audio.bytes_per_frame,
                   frame |-> audio.bytes_per_frame, failed |-> FALSE]
    /\ pcm' = "running"
    /\ UNCHANGED audio

\* After an xrun (-EPIPE) the stream is prepared again and the call fails;
\* on a stream that has been drained it only fails.
TransferFails(dir) ==
    /\ audio.state = "active" /\ audio.direction = dir
    /\ pcm \in {"xrun", "setup"}
    /\ pcm' = IF pcm = "xrun" THEN "prepared" ELSE pcm
    /\ moved' = [NoMove EXCEPT !.failed = TRUE]
    /\ UNCHANGED audio

\* audio_control.  The commands that only read change nothing.
SetVolume(v) ==
    /\ audio.state # "absent"
    /\ audio' = [audio EXCEPT !.volume = IF v > 100 THEN 100 ELSE v]
    /\ UNCHANGED <<pcm, moved>>

SetMute(m) ==
    /\ audio.state # "absent"
    /\ audio' = [audio EXCEPT !.muted = m]
    /\ UNCHANGED <<pcm, moved>>

Drain ==
    /\ audio.state # "absent" /\ pcm # "null"
    /\ pcm' = "setup"
    /\ UNCHANGED <<audio, moved>>

Recover ==
    /\ audio.state # "absent" /\ pcm # "null"
    /\ pcm' = "prepared"
    /\ UNCHANGED <<audio, moved>>

\* The hardware gets ahead of the process.
Xrun ==
    /\ pcm = "running"
    /\ pcm' = "xrun"
    /\ UNCHANGED <<audio, moved>>

PcmNext ==
    \/ AudioServiceInit \/ AudioReopen \/ AudioClose \/ AudioStart \/ AudioStop \/ AudioServiceCleanup
    \/ \E dir \in {"capture", "playback"} :
         TransferFails(dir) \/ \E b \in 1 .. MaxFrames * 4 : Transfer(b, dir)
    \/ \E v \in {0, 100, 101} : SetVolume(v)
    \/ \E m \in BOOLEAN : SetMute(m)
    \/ Drain \/ Recover \/ Xrun

-----------------------------------------------------------------------------
PcmTypeOK ==
    /\ audio.state \in {"absent", "closed", "open", "active"}
    /\ pcm \in {"null", "setup", "prepared", "running", "xrun"}
    /\ audio.volume \in 0 .. 100 /\ audio.rate \in PcmRates

\* There is a stream behind pcm_handle exactly while the device is open or
\* active, so that no read or write is passed a NULL handle and no failed or
\* closed one leaves a stream behind.
PcmHandleFollowsState == (pcm # "null") = (audio.state \in {"open", "active"})

\* A transfer reports whole frames and no more than the caller's buffer
\* holds; and after one that failed the stream is not left in the xrun it
\* failed on: the next one can succeed, unless the stream was drained.
PcmTransfers ==
    /\ moved.got =< moved.asked /\ moved.got % moved.frame = 0
    /\ moved.failed => pcm # "xrun"

\* The audio layer is correct: its stream, and the bytes it reports.
PcmSafe == PcmTypeOK /\ PcmHandleFollowsState /\ PcmTransfers
=============================================================================
