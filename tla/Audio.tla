-------------------------------- MODULE Audio --------------------------------
(***************************************************************************)
(* pos-ingest's audio source: packets of a container are decoded, mixed down *)
(* and resampled to the engine's rate as they come.  A source sample is its  *)
(* position in the decoded stream; an output sample is the position it is    *)
(* centred on and the source samples its kernel saw.  Positions are counted  *)
(* in grains of a source sample; the code keeps them as an f64, so that an   *)
(* addition is off by any error up to Rounding.                              *)
(***************************************************************************)
EXTENDS Integers, Sequences, FiniteSets, SequencesExt, FiniteSetsExt

CONSTANTS
    Tracks,        \* [rate, channels, codec]: what a container declares; no channels, no track
    RateMin, RateMax, ChannelMax,
    EngineRate,    \* AUDIO_SAMPLE_RATE_HZ
    HalfTaps,      \* RESAMPLE_HALF_TAPS
    Grains,        \* grains in 1/EngineRate of a source sample
    Rounding,      \* bound, in grains, on the error of an f64 addition to a position
    PacketFrames,  \* bound: frames of a packet
    MaxFrames      \* bound: frames of a recording

ASSUME AudioAssumption ==
    /\ {EngineRate, RateMin, Grains} \subseteq Nat \ {0}
    /\ {HalfTaps, RateMax, ChannelMax, MaxFrames, Rounding} \subseteq Nat
    /\ Rounding < Grains
    /\ PacketFrames \subseteq Nat
    /\ \A t \in Tracks : t.rate \in Nat /\ t.channels \in Nat /\ t.codec \in BOOLEAN

VARIABLES
    track,     \* what the container declares
    apc,       \* "open", "decode", "emit", "drain", "ended", or the code of the AudioError
    fed,       \* source samples the decoder produced
    history,   \* source samples the resampler still holds
    position,  \* centre of the next output sample, from history's first
    output     \* output samples so far; produced_samples is how many there are

audioVars == <<track, apc, fed, history, position, output>>

AudioInit ==
    /\ track \in Tracks
    /\ apc = "open"
    /\ fed = 0
    /\ history = <<>>
    /\ position = 0
    /\ output = <<>>

-----------------------------------------------------------------------------
(* map_probe_error, before there is a track to look at.                      *)
ProbeError(error) == IF error = "io" THEN "audio_io_failure" ELSE "audio_unsupported"

(* AudioSource::open: the track, its rate, its channels, then the codec.     *)
Opened ==
    CASE track.channels = 0 -> "audio_no_track"
      [] track.channels > ChannelMax \/ (track.channels > 0 /\ track.rate \notin RateMin..RateMax) -> "audio_format_unusable"
      [] track.channels \in 1..ChannelMax /\ track.rate \in RateMin..RateMax /\ ~track.codec -> "audio_unsupported"
      [] OTHER -> "decode"

Open ==
    /\ apc = "open"
    /\ \/ \E error \in {"unsupported", "io", "malformed"} : apc' = ProbeError(error)
       \/ apc' = Opened
    /\ UNCHANGED <<track, fed, history, position, output>>

(* Resampler::new: a source sample, and the source an output sample advances. *)
Den == EngineRate * Grains
Num == track.rate * Grains
Passthrough == track.rate = EngineRate

(* decode_into on a packet of the track: push_interleaved.                   *)
DecodePacket(frames) ==
    LET mono == [i \in 1..frames |-> fed + i - 1]
    IN /\ apc = "decode"
       /\ fed + frames <= MaxFrames
       /\ fed' = fed + frames
       /\ \/ /\ Passthrough
             /\ output' = output \o [i \in DOMAIN mono |-> [center |-> mono[i] * Den, taps |-> {mono[i]}]]
             /\ UNCHANGED <<apc, history>>
          \/ /\ ~Passthrough
             /\ history' = history \o mono
             /\ apc' = "emit"
             /\ UNCHANGED output
       /\ UNCHANGED <<track, position>>

(* sample_at: the kernel around a centre sees what of it is in the history.  *)
SampleAt(held, center) ==
    LET base == center \div Den
    IN [center |-> held[1] * Den + center,
        taps |-> {held[i + 1] : i \in {j \in (base - HalfTaps + 1)..(base + HalfTaps) : j >= 0 /\ j < Len(held)}}]

(* emit: a sample whose kernel is inside the history is due, or, when the     *)
(* stream ended, one whose centre is.                                        *)
Lookahead == IF apc = "drain" THEN 0 ELSE HalfTaps * Den
SampleDue == position + Lookahead < Len(history) * Den

EmitSample ==
    /\ apc \in {"emit", "drain"}
    /\ SampleDue
    /\ output' = Append(output, SampleAt(history, position))
    /\ \E error \in (-Rounding)..Rounding : position' = position + Num + error
    /\ UNCHANGED <<track, apc, fed, history>>

(* The sum the loop compares is rounded too, up to the length at most: a     *)
(* sample that is only just due may wait for the next packet.                *)
MayStop == position + Lookahead + (IF apc = "drain" THEN 0 ELSE Rounding) >= Len(history) * Den

(* Slip of Kept: the history starts at the next centre.                      *)
KeptFromCenter(next) == next \div Den

(* The history the taps of the next sample can no longer reach is dropped.   *)
Kept(next) == Max({0, next - HalfTaps * Den}) \div Den

(* The end of the loop of emit; flush then clears the history.               *)
EmitEnds ==
    LET drop == Min({Kept(position), Len(history)})
    IN /\ apc \in {"emit", "drain"}
       /\ MayStop
       /\ position' = position - drop * Den
       /\ history' = IF apc = "drain" THEN <<>> ELSE SubSeq(history, drop + 1, Len(history))
       /\ apc' = IF apc = "drain" THEN "ended" ELSE "decode"
       /\ UNCHANGED <<track, fed, output>>

(* The end of the container, orderly or in the middle of a packet: flush.    *)
StreamEnds ==
    /\ apc = "decode"
    /\ apc' = IF Passthrough THEN "ended" ELSE "drain"
    /\ UNCHANGED <<track, fed, history, position, output>>

(* map_stream_error: what is not one bad frame ends the attempt.             *)
StreamError(error) == IF error = "io" THEN "audio_io_failure" ELSE IF error = "unsupported" THEN "audio_unsupported" ELSE "audio_corrupt"

StreamFails ==
    /\ apc = "decode"
    /\ \E error \in {"io", "unsupported", "reset"} : apc' = StreamError(error)
    /\ UNCHANGED <<track, fed, history, position, output>>

AudioNext ==
    \/ Open \/ (\E frames \in PacketFrames : DecodePacket(frames))
    \/ EmitSample \/ EmitEnds \/ StreamEnds \/ StreamFails

AudioSpec == AudioInit /\ [][AudioNext]_audioVars

-----------------------------------------------------------------------------
(* The source samples a kernel reaches, and the error of a step.             *)
Reach(center) ==
    IF Passthrough THEN {center \div Den}
    ELSE ((center \div Den) - HalfTaps + 1)..((center \div Den) + HalfTaps)
Slack == IF Passthrough THEN 0 ELSE Rounding

(* Whatever the packets and the roundings, no kernel misses a source sample  *)
(* that it reaches; the k-th output sample is off the engine's grid by no    *)
(* more than its k - 1 additions are; an ended stream lacks no sample at its *)
(* end, and has none past it; and no more is held than the taps need.        *)
ResampleSound ==
    /\ \A k \in DOMAIN output :
           /\ output[k].taps = Reach(output[k].center) \cap (0..(fed - 1))
           /\ output[k].center \in ((k - 1) * (Num - Slack))..((k - 1) * (Num + Slack))
    /\ apc = "ended" =>
           IF output = <<>> THEN fed = 0
           ELSE Last(output).center < fed * Den /\ fed * Den <= Last(output).center + Num + Slack
    /\ apc \in {"decode", "ended"} => Len(history) <= 2 * HalfTaps + 1
=============================================================================
