---- MODULE AudioStream ----
(***************************************************************************)
(* One streamed piece of music: the download thread of AudioThread feeds   *)
(* an AudioStream block by block, its decode thread decodes each block     *)
(* into the single-producer single-consumer PcmRingBuffer, and the device  *)
(* callback mixes from it.  A block is one unit of undecoded data and one  *)
(* sample.  The audio thread may cancel the stream at any time.  MusicFiles     *)
(* that opusfile cannot open go through miniaudio, which decodes a copy of *)
(* the data made when opusfile gave up.                                    *)
(***************************************************************************)
EXTENDS Integers, Sequences

CONSTANTS
    Blocks,       \* blocks of the file
    RingSize,     \* PcmRingBuffer capacity
    MusicFiles,        \* what may be played: looping, opus, loop_start, loop_end (0 is the end of the file)
    MaxHeard      \* bound on what the device mixes

ASSUME StreamAssumption ==
    /\ Blocks \in Nat /\ RingSize \in Nat \ {0}
    /\ \A f \in MusicFiles : /\ f.looping \in BOOLEAN /\ f.opus \in BOOLEAN
                             /\ f.loop_start \in 0..Blocks /\ f.loop_end \in 0..Blocks

VARIABLES
    file,           \* looping_, loop_start_, loop_end_ and whether opusfile can open it
    raw,            \* raw_data_: blocks fed
    raw_complete,
    raw_read_pos,
    copied,         \* blocks in miniaudio's raw_copy
    stop_requested,
    decoder,        \* the decode thread's step
    block,          \* the block it has decoded
    ring,           \* buf_
    write_head,
    read_head,
    finished,
    channel_active, \* the device channel plays the stream
    mixer,          \* the device callback's step
    heard

asVars == <<file, raw, raw_complete, raw_read_pos, copied, stop_requested, decoder, block, ring, write_head, read_head,
            finished, channel_active, mixer, heard>>

download == <<file, raw, raw_complete>>
decoding == <<raw_read_pos, copied, decoder, block, ring, write_head, finished>>
mixing == <<read_head, channel_active, mixer, heard>>

AsInit ==
    /\ file \in MusicFiles
    /\ raw = 0 /\ raw_complete = FALSE /\ raw_read_pos = 0 /\ copied = 0
    /\ stop_requested = FALSE
    /\ decoder = "none" /\ block = 0
    /\ ring = [i \in 0..RingSize-1 |-> 0] /\ write_head = 0 /\ read_head = 0
    /\ finished = FALSE
    /\ channel_active = TRUE /\ mixer = "idle" /\ heard = <<>>

\* AudioStream::feed: the first block starts the decode thread.
feed ==
    /\ raw < Blocks /\ ~raw_complete /\ ~stop_requested
    /\ raw' = raw + 1
    /\ decoder' = IF decoder = "none" THEN "open" ELSE decoder
    /\ UNCHANGED <<file, raw_complete, raw_read_pos, copied, stop_requested, block, ring, write_head, finished, mixing>>

\* The download ends: with the file, by the cancellation it sees, or because nothing was found, which cancels.
DownloadEnded == raw \in {0, Blocks} \/ stop_requested

mark_complete ==
    /\ ~raw_complete /\ DownloadEnded
    /\ raw_complete' = TRUE
    /\ finished' = (finished \/ decoder = "none")
    /\ stop_requested' = (stop_requested \/ raw = 0)
    /\ UNCHANGED <<file, raw, raw_read_pos, copied, decoder, block, ring, write_head, mixing>>

\* IAudioDevice::stop, from the audio thread.
cancel ==
    /\ ~stop_requested
    /\ stop_requested' = TRUE
    /\ channel_active' = FALSE
    /\ UNCHANGED <<download, decoding, read_head, mixer, heard>>

----
(* decode_thread_func.                                                     *)

\* opusfile reads what it needs of the stream; if it is not Opus, miniaudio gets what has arrived.
OpenDecoder ==
    /\ decoder = "open"
    /\ decoder' = "read"
    /\ copied' = raw
    /\ UNCHANGED <<download, raw_read_pos, stop_requested, block, ring, write_head, finished, mixing>>

Available == IF file.opus THEN raw ELSE copied

\* stream_read waits for data or for the end of the download.
AtEnd_early == raw_read_pos = Available

AtEnd ==
    \/ file.loop_end > 0 /\ raw_read_pos >= file.loop_end
    \/ raw_read_pos = Available /\ (raw_complete \/ ~file.opus)

stream_read ==
    /\ decoder = "read" /\ ~stop_requested
    /\ ~AtEnd /\ raw_read_pos < Available
    /\ raw_read_pos' = raw_read_pos + 1
    /\ block' = raw_read_pos + 1
    /\ decoder' = "write"
    /\ UNCHANGED <<download, copied, stop_requested, ring, write_head, finished, mixing>>

\* The end of a pass: a looping stream seeks to its loop point, which opusfile can do once the size is known.
EndPass ==
    /\ decoder = "read" /\ ~stop_requested /\ AtEnd
    /\ raw_read_pos' = IF file.looping THEN (IF raw_complete \/ ~file.opus THEN file.loop_start ELSE 0) ELSE raw_read_pos
    /\ decoder' = IF file.looping THEN "read" ELSE "done"
    /\ finished' = ~file.looping
    /\ UNCHANGED <<download, copied, stop_requested, block, ring, write_head, mixing>>

StopDecoding ==
    /\ decoder \in {"open", "read", "write"} /\ stop_requested
    /\ decoder' = "done"
    /\ finished' = TRUE
    /\ UNCHANGED <<download, raw_read_pos, copied, stop_requested, block, ring, write_head, mixing>>

\* PcmRingBuffer::write: the sample, then the write head; a full ring is retried.
ring_write ==
    /\ decoder = "write" /\ ~stop_requested
    /\ write_head - read_head < RingSize
    /\ ring' = [ring EXCEPT ![write_head % RingSize] = block]
    /\ decoder' = "publish"
    /\ UNCHANGED <<download, raw_read_pos, copied, stop_requested, block, write_head, finished, mixing>>

ring_publish ==
    /\ decoder = "publish"
    /\ write_head' = write_head + 1
    /\ decoder' = "read"
    /\ UNCHANGED <<download, raw_read_pos, copied, stop_requested, block, ring, finished, mixing>>

----
(* SDLAudioDevice::mix: read what the ring has, then the read head; when    *)
(* it has too little, a stream that is finished gives up its channel.       *)

ring_read ==
    /\ channel_active /\ mixer = "idle" /\ write_head > read_head /\ Len(heard) < MaxHeard
    /\ heard' = Append(heard, ring[read_head % RingSize])
    /\ mixer' = "advance"
    /\ UNCHANGED <<download, decoding, stop_requested, read_head, channel_active>>

ring_advance ==
    /\ mixer = "advance"
    /\ read_head' = read_head + 1
    /\ mixer' = "idle"
    /\ UNCHANGED <<download, decoding, stop_requested, channel_active, heard>>

Underrun ==
    /\ channel_active /\ mixer = "idle" /\ write_head = read_head
    /\ mixer' = "check"
    /\ UNCHANGED <<download, decoding, stop_requested, read_head, channel_active, heard>>

CheckFinished ==
    /\ mixer = "check"
    /\ mixer' = "idle"
    /\ channel_active' = (channel_active /\ ~(finished /\ ~stop_requested))
    /\ UNCHANGED <<download, decoding, stop_requested, read_head, heard>>

AsNext ==
    \/ feed \/ mark_complete \/ cancel
    \/ OpenDecoder \/ stream_read \/ EndPass \/ StopDecoding \/ ring_write \/ ring_publish
    \/ ring_read \/ ring_advance \/ Underrun \/ CheckFinished

AsSpec == AsInit /\ [][AsNext]_asVars

----
(* Properties                                                              *)

FileEnd == IF file.loop_end > 0 THEN file.loop_end ELSE Blocks

\* AudioStream.cpp, feed: "network jitter just causes brief silence rather than a stall": what the device
\* mixes is the file from its first block on, without a gap, a repeat or an overwritten sample, and it
\* starts over only at the end of the file or at its loop end, never at the end of what has arrived.
HeardInOrder ==
    \A i \in DOMAIN heard :
        LET prev == IF i = 1 THEN 0 ELSE heard[i - 1]
        IN  \/ heard[i] = prev + 1
            \/ file.looping /\ prev = FileEnd /\ heard[i] \in {file.loop_start + 1, 1}

====
