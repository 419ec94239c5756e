--------------------------- MODULE EnvelopeReader ---------------------------
(***************************************************************************)
(* EnvelopeReader: the messages of a stream cut out of a body that arrives *)
(* in chunks of any size.  A body is a sequence of frames, each a header   *)
(* of HeaderSize bytes and a payload; of the bytes only the positions of   *)
(* the frames matter, and of a frame only what the reader makes of it.     *)
(***************************************************************************)
EXTENDS Naturals

CONSTANTS
    HeaderSize,  \* bytes of flags and length before a payload: 5
    Bodies       \* the bodies a peer may send

\* "data": a message.  "bad": cannot be decompressed or decoded.  "end",
\* "end_error": an end message, without and with an error.  "flags": invalid
\* flags.  "long": a length past read_max_bytes.
Kinds == {"data", "bad", "end", "end_error", "flags", "long"}

\* Frame k starts at byte start[k]; the peer sends the first `bytes` of them.
IsBody(frames, kind, start, bytes) ==
    /\ frames \in Nat
    /\ kind \in [1..frames -> Kinds]
    /\ start \in [1..(frames + 1) -> Nat]
    /\ start[1] = 0
    /\ \A k \in 1..frames : start[k] + HeaderSize <= start[k + 1]
    /\ bytes \in 0..start[frames + 1]

ASSUME HeaderAssumption == HeaderSize \in Nat \ {0}
ASSUME BodiesAssumption ==
    \A b \in Bodies : IsBody(b.n, b.kinds, b.starts, b.total)

VARIABLES
    n, kinds, starts, total,  \* the body the peer sends
    needsEnd,     \* does the protocol require an end message: a Connect client
    fed,          \* bytes fed so far
    frame,        \* the frame at the head of the buffer
    lengthKnown,  \* _next_message_length is not None
    ended,        \* _ended
    delivered,    \* messages yielded
    pc,           \* "idle": the chunk is used up; "top", "header": in the loop
    verdict       \* how reading the body ended

body == <<n, kinds, starts, total, needsEnd>>
vars == <<body, fed, frame, lengthKnown, ended, delivered, pc, verdict>>

Verdicts == {"ok", "protocol", "internal", "exhausted", "bad", "peer", "abandoned"}

\* len(self._buffer)
Buffered == fed - starts[frame]

InitBody ==
    /\ \E b \in Bodies :
        n = b.n /\ kinds = b.kinds /\ starts = b.starts /\ total = b.total
    /\ needsEnd \in BOOLEAN

Init ==
    /\ InitBody
    /\ fed = 0 /\ frame = 1 /\ lengthKnown = FALSE /\ ended = FALSE
    /\ delivered = 0 /\ pc = "idle" /\ verdict = "none"

\* feed() with the next bytes, possibly none.
Feed ==
    /\ pc = "idle"
    /\ fed' \in fed..total
    /\ pc' = "top"
    /\ UNCHANGED <<body, frame, lengthKnown, ended, delivered, verdict>>

Raise(v) == pc' = "done" /\ verdict' = v

\* `while self._buffer and not self._ended`
LoopEnds ==
    /\ pc = "top" /\ (Buffered = 0 \/ ended)
    /\ pc' = "idle"
    /\ UNCHANGED <<body, fed, frame, lengthKnown, ended, delivered, verdict>>

InLoop == pc = "top" /\ Buffered # 0 /\ ~ended

FrameBuffered == fed >= starts[frame + 1]

WaitForPayload ==
    /\ InLoop /\ lengthKnown /\ ~FrameBuffered
    /\ pc' = "idle"
    /\ UNCHANGED <<body, fed, frame, lengthKnown, ended, delivered, verdict>>

\* Mutant: the generator returns instead of looking for the next frame.
AfterYield_Return == "idle"
AfterYield == "header"

\* The frame leaves the buffer; a message is yielded.
TakeFrame ==
    /\ InLoop /\ lengthKnown /\ FrameBuffered
    /\ frame' = frame + 1
    /\ lengthKnown' = FALSE
    /\ \/ kinds[frame] = "data"
          /\ delivered' = delivered + 1
          /\ pc' = AfterYield
          /\ UNCHANGED <<ended, verdict>>
       \/ kinds[frame] = "end"
          /\ ended' = TRUE
          /\ pc' = "idle"
          /\ UNCHANGED <<delivered, verdict>>
       \/ kinds[frame] = "bad" /\ Raise("bad") /\ UNCHANGED <<ended, delivered>>
       \/ kinds[frame] = "end_error" /\ Raise("peer")
          /\ UNCHANGED <<ended, delivered>>
    /\ UNCHANGED <<body, fed>>

\* The loop goes on to a header, past the message just yielded if any.
AtHeader == pc = "header" \/ (InLoop /\ ~lengthKnown)

WaitForHeader ==
    /\ AtHeader /\ Buffered < HeaderSize
    /\ pc' = "idle"
    /\ UNCHANGED <<body, fed, frame, lengthKnown, ended, delivered, verdict>>

ReadHeader ==
    /\ AtHeader /\ Buffered >= HeaderSize
    /\ \/ kinds[frame] = "flags" /\ Raise("protocol") /\ UNCHANGED lengthKnown
       \/ kinds[frame] = "long" /\ Raise("exhausted") /\ lengthKnown' = TRUE
       \/ kinds[frame] \notin {"flags", "long"}
          /\ lengthKnown' = TRUE
          /\ pc' = "top"
          /\ UNCHANGED verdict
    /\ UNCHANGED <<body, fed, frame, ended, delivered>>

\* The consumer has enough of it, so __exit__ has an exception and checks
\* nothing.
Abandon ==
    /\ pc = "header" \/ pc = "idle"
    /\ Raise("abandoned")
    /\ UNCHANGED <<body, fed, frame, lengthKnown, ended, delivered>>

\* Mutant: bytes left over at the end are not looked at.
CheckEnded_NoLeftover ==
    IF ended THEN "ok"
    ELSE IF lengthKnown THEN "protocol"
    ELSE IF needsEnd THEN "internal" ELSE "ok"
\* _check_ended, then the handle_response_complete of a Connect client.
CheckEnded ==
    IF ended THEN IF Buffered # 0 THEN "internal" ELSE "ok"
    ELSE IF lengthKnown \/ Buffered # 0 THEN "protocol"
    ELSE IF needsEnd THEN "internal" ELSE "ok"

BodyEnds ==
    /\ pc = "idle" /\ fed = total
    /\ Raise(CheckEnded)
    /\ UNCHANGED <<body, fed, frame, lengthKnown, ended, delivered>>

Done == pc = "done" /\ UNCHANGED vars

Next ==
    \/ Feed \/ LoopEnds \/ WaitForPayload \/ TakeFrame \/ WaitForHeader
    \/ ReadHeader \/ Abandon \/ BodyEnds \/ Done

Spec == Init /\ [][Next]_vars

-----------------------------------------------------------------------------
(* What the body says, whatever chunks it came in *)

\* Frame k is there in full and is a message.
Message(k) == kinds[k] = "data" /\ total >= starts[k + 1]

\* k is the first frame that is not a message.
StopsAt(k) ==
    /\ k \in 1..(n + 1)
    /\ \A j \in 1..(k - 1) : Message(j)
    /\ k <= n => ~Message(k)

\* What is wrong, if anything, with a body whose first non-message is frame k.
Judgement(k) ==
    IF total = starts[k] THEN IF needsEnd THEN "internal" ELSE "ok"
    ELSE IF total < starts[k] + HeaderSize THEN "protocol"
    ELSE IF kinds[k] = "flags" THEN "protocol"
    ELSE IF kinds[k] = "long" THEN "exhausted"
    ELSE IF total < starts[k + 1] THEN "protocol"
    ELSE IF kinds[k] = "bad" THEN "bad"
    ELSE IF kinds[k] = "end_error" THEN "peer"
    ELSE IF total > starts[k + 1] THEN "internal" ELSE "ok"

-----------------------------------------------------------------------------
(* Properties *)

\* Every variable has a value of its type; the buffer is what was fed past the
\* frames taken.
TypeOK ==
    /\ IsBody(n, kinds, starts, total)
    /\ fed \in 0..total
    /\ frame \in 1..(n + 1)
    /\ starts[frame] <= fed
    /\ lengthKnown \in BOOLEAN /\ ended \in BOOLEAN
    /\ delivered \in Nat
    /\ pc \in {"idle", "top", "header", "done"}
    /\ verdict \in Verdicts \cup {"none"}

\* The chunks do not matter: reading a body yields exactly the messages before
\* its first flaw or its end, and reports that flaw, for every chunking.
ChunkingIrrelevant ==
    pc = "done" /\ verdict # "abandoned" =>
        StopsAt(delivered + 1) /\ verdict = Judgement(delivered + 1)

\* No message is held back: when the reader asks for the next chunk, every
\* frame that was fed in full has been taken, up to the end message.
PromptDelivery ==
    pc = "idle" /\ ~ended /\ frame <= n => fed < starts[frame + 1]

\* An abandoned reader has only yielded messages the body starts with.
PrefixOnly ==
    \A j \in 1..delivered : j <= n /\ Message(j)

\* At every moment, what was yielded is what the body starts with, and no less
\* than what the chunks have brought in full.
Delivery == PromptDelivery /\ PrefixOnly
=============================================================================
