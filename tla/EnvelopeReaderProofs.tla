------------------------ MODULE EnvelopeReaderProofs ------------------------
(***************************************************************************)
(* EnvelopeReader is correct for every body, every header size and every   *)
(* way to cut the body into chunks.                                        *)
(***************************************************************************)
EXTENDS EnvelopeReader, TLAPS

\* The frame at the head of the buffer follows the messages yielded, and the
\* end message if there was one.
FramesTaken ==
    pc # "done" =>
        /\ frame = delivered + (IF ended THEN 2 ELSE 1)
        /\ ended => kinds[delivered + 1] = "end"

\* A length is only kept for a header in the buffer that was found valid.
LengthRead ==
    pc # "done" /\ lengthKnown =>
        /\ ~ended
        /\ frame <= n
        /\ starts[frame] + HeaderSize <= fed
        /\ kinds[frame] \notin {"flags", "long"}

HeaderNext == pc = "header" => ~ended /\ ~lengthKnown

\* The reader only waits for a header it does not have in full.
HeaderAwaited == pc = "idle" /\ ~ended /\ ~lengthKnown => Buffered < HeaderSize

IInv ==
    /\ TypeOK
    /\ FramesTaken
    /\ LengthRead
    /\ HeaderNext
    /\ HeaderAwaited
    /\ PromptDelivery
    /\ PrefixOnly
    /\ ChunkingIrrelevant

USE HeaderAssumption

LEMMA BodyFacts ==
    ASSUME IsBody(n, kinds, starts, total)
    PROVE  /\ n \in Nat
           /\ starts \in [1..(n + 1) -> Nat]
           /\ starts[1] = 0
           /\ starts[n + 1] \in Nat
           /\ \A k \in 1..n : starts[k] + HeaderSize <= starts[k + 1]
           /\ \A k \in 1..n : starts[k + 1] \in Nat /\ starts[k] \in Nat
           /\ \A k \in 1..n : kinds[k] \in Kinds
           /\ total \in Nat
           /\ total <= starts[n + 1]
  <1>1. n \in Nat /\ starts \in [1..(n + 1) -> Nat]
    BY DEF IsBody
  <1>2. starts[n + 1] \in Nat
    BY <1>1
  <1>3. total \in Nat /\ total <= starts[n + 1]
    BY <1>2 DEF IsBody
  <1>4. \A k \in 1..n : starts[k + 1] \in Nat /\ starts[k] \in Nat
    BY <1>1
  <1> QED
    BY <1>1, <1>2, <1>3, <1>4 DEF IsBody

LEMMA StopsAfterDelivered ==
    ASSUME n \in Nat, delivered \in Nat, delivered <= n, PrefixOnly,
           delivered + 1 <= n => ~Message(delivered + 1)
    PROVE  StopsAt(delivered + 1)
  <1>1. delivered + 1 \in 1..(n + 1)
    OBVIOUS
  <1>2. ASSUME NEW j \in 1..((delivered + 1) - 1) PROVE Message(j)
    BY <1>2 DEF PrefixOnly
  <1> QED
    BY <1>1, <1>2 DEF StopsAt

LEMMA InitInv == Init => IInv
  <1> SUFFICES ASSUME Init PROVE IInv
    OBVIOUS
  <1>1. IsBody(n, kinds, starts, total)
    BY BodiesAssumption DEF Init, InitBody
  <1>a. /\ n \in Nat /\ total \in Nat /\ starts[1] = 0
        /\ \A k \in 1..n : starts[k] + HeaderSize <= starts[k + 1]
        /\ \A k \in 1..n : starts[k + 1] \in Nat
    BY <1>1, BodyFacts
  <1> USE <1>a
  <1>2. TypeOK
    <2>1. fed \in 0..total /\ frame \in 1..(n + 1) /\ starts[frame] <= fed
      BY DEF Init
    <2> QED
      BY <1>1, <2>1 DEF Init, TypeOK
  <1>3. PromptDelivery
    <2>1. SUFFICES ASSUME 1 <= n PROVE fed < starts[2]
      BY DEF Init, PromptDelivery
    <2>2. starts[1] + HeaderSize <= starts[2] /\ starts[2] \in Nat
      BY <2>1
    <2> QED
      BY <2>2 DEF Init
  <1>4. Buffered < HeaderSize
    BY DEF Init, Buffered
  <1> QED
    BY <1>2, <1>3, <1>4 DEF Init, IInv, FramesTaken, LengthRead, HeaderNext,
       HeaderAwaited, PrefixOnly, ChunkingIrrelevant

LEMMA BodyUnchanged ==
    ASSUME [Next]_vars
    PROVE  /\ n' = n /\ kinds' = kinds /\ starts' = starts /\ total' = total
           /\ needsEnd' = needsEnd
  BY DEF Next, vars, body, Feed, LoopEnds, WaitForPayload, TakeFrame, WaitForHeader,
     ReadHeader, Abandon, BodyEnds, Done

LEMMA StepInv == IInv /\ [Next]_vars => IInv'
  <1> SUFFICES ASSUME IInv, [Next]_vars PROVE IInv'
    OBVIOUS
  <1> USE DEF IInv
  <1>b. /\ n' = n /\ kinds' = kinds /\ starts' = starts /\ total' = total
        /\ needsEnd' = needsEnd
    BY BodyUnchanged
  <1>f. IsBody(n, kinds, starts, total)
    BY DEF TypeOK
  <1>g. IsBody(n, kinds, starts, total)'
    BY <1>b, <1>f
  <1>k. n \in Nat /\ total \in Nat
    BY <1>f, BodyFacts
  <1>h. frame <= n =>
          /\ starts[frame] \in Nat /\ starts[frame + 1] \in Nat
          /\ starts[frame] + HeaderSize <= starts[frame + 1]
          /\ kinds[frame] \in Kinds
    BY <1>f, BodyFacts DEF TypeOK
  <1>i. starts[frame] \in Nat /\ Buffered \in Nat
    BY <1>f, BodyFacts DEF TypeOK, Buffered
  <1>j. frame <= n \/ Buffered = 0
    BY <1>f, <1>i, <1>k, BodyFacts DEF TypeOK, Buffered
  <1> USE <1>b, <1>g, <1>h, <1>i, <1>j, <1>k
  <1>1. CASE Feed
    BY <1>1, <1>f, BodyFacts DEF Feed, TypeOK, FramesTaken, LengthRead, HeaderNext,
       HeaderAwaited, PromptDelivery, PrefixOnly, ChunkingIrrelevant, Message
  <1>2. CASE LoopEnds
    BY <1>2 DEF LoopEnds, TypeOK, FramesTaken, LengthRead, HeaderNext, HeaderAwaited,
       PromptDelivery, PrefixOnly, ChunkingIrrelevant, Buffered, Message
  <1>3. CASE WaitForPayload
    BY <1>3 DEF WaitForPayload, InLoop, FrameBuffered, TypeOK, FramesTaken,
       LengthRead, HeaderNext, HeaderAwaited, PromptDelivery, PrefixOnly,
       ChunkingIrrelevant, Message
  <1>4. CASE TakeFrame
    <2>1. /\ pc = "top" /\ ~ended /\ lengthKnown /\ frame <= n
          /\ starts[frame + 1] <= fed /\ frame = delivered + 1
          /\ kinds[frame] \notin {"flags", "long"}
      BY <1>4, <1>i DEF TakeFrame, InLoop, FrameBuffered, LengthRead, FramesTaken, TypeOK
    <2>2. fed' = fed /\ frame' = frame + 1 /\ ~lengthKnown'
      BY <1>4 DEF TakeFrame
    <2>3. \/ /\ kinds[frame] = "data" /\ delivered' = delivered + 1
             /\ pc' = "header" /\ ended' = ended /\ verdict' = verdict
          \/ /\ kinds[frame] = "end" /\ delivered' = delivered
             /\ pc' = "idle" /\ ended' = TRUE /\ verdict' = verdict
          \/ /\ kinds[frame] = "bad" /\ delivered' = delivered
             /\ pc' = "done" /\ ended' = ended /\ verdict' = "bad"
          \/ /\ kinds[frame] = "end_error" /\ delivered' = delivered
             /\ pc' = "done" /\ ended' = ended /\ verdict' = "peer"
      BY <1>4 DEF TakeFrame, Raise, AfterYield
    <2>4. TypeOK'
      <3>1. ended' \in BOOLEAN /\ lengthKnown' \in BOOLEAN
        BY <2>2, <2>3, <1>4 DEF TypeOK, TakeFrame
      <3>2. delivered' \in Nat /\ pc' \in {"idle", "top", "header", "done"}
        BY <2>3 DEF TypeOK
      <3>3. verdict' \in Verdicts \cup {"none"}
        BY <2>3 DEF TypeOK, Verdicts
      <3>4. fed' \in 0..total' /\ frame' \in 1..(n' + 1) /\ starts'[frame'] <= fed'
        BY <2>1, <2>2 DEF TypeOK
      <3> QED
        BY <3>1, <3>2, <3>3, <3>4 DEF TypeOK
    <2>5. FramesTaken' /\ LengthRead' /\ HeaderNext'
      BY <1>4, <2>1, <2>2 DEF TakeFrame, TypeOK, FramesTaken, LengthRead, HeaderNext,
         Raise, AfterYield
    <2>6. HeaderAwaited' /\ PromptDelivery'
      BY <1>4, <2>1 DEF TakeFrame, HeaderAwaited, PromptDelivery, Raise, AfterYield
    <2>7. PrefixOnly'
      BY <2>1, <2>2, <2>3 DEF TypeOK, PrefixOnly, Message
    <2>8. ChunkingIrrelevant'
      <3>1. SUFFICES ASSUME pc' = "done"
                     PROVE  StopsAt(frame) /\ verdict' = Judgement(frame)
                            /\ delivered' + 1 = frame
        BY <1>f DEF ChunkingIrrelevant, StopsAt, Judgement, Message
      <3>2. delivered' = delivered /\ kinds[frame] \in {"bad", "end_error"}
            /\ verdict' = IF kinds[frame] = "bad" THEN "bad" ELSE "peer"
        BY <1>4, <3>1 DEF TakeFrame, Raise, AfterYield
      <3>3. StopsAt(frame)
        BY <2>1, <3>2, StopsAfterDelivered DEF Message, TypeOK
      <3>4. total \in Nat /\ starts[frame + 1] <= total
        BY <2>1, <1>f, BodyFacts DEF TypeOK
      <3>5. verdict' = Judgement(frame)
        BY <2>1, <3>2, <3>4 DEF Judgement
      <3> QED
        BY <2>1, <3>2, <3>3, <3>5
    <2> QED
      BY <2>4, <2>5, <2>6, <2>7, <2>8
  <1>5. CASE WaitForHeader
    <2>1. frame <= n => fed < starts[frame + 1]
      BY <1>5 DEF WaitForHeader, Buffered, TypeOK
    <2> QED
      BY <1>5, <2>1 DEF WaitForHeader, AtHeader, InLoop, TypeOK, FramesTaken,
         LengthRead, HeaderNext, HeaderAwaited, PromptDelivery, PrefixOnly,
         ChunkingIrrelevant, Buffered, Message
  <1>6. CASE ReadHeader
    <2>1. frame <= n
      BY <1>6 DEF ReadHeader, TypeOK
    <2>2. ~ended /\ pc # "done" /\ frame = delivered + 1
      BY <1>6 DEF ReadHeader, AtHeader, InLoop, HeaderNext, FramesTaken, TypeOK
    <2>3. starts[frame] + HeaderSize <= fed
      BY <1>6, <1>i DEF ReadHeader, Buffered, TypeOK
    <2>4. TypeOK' /\ PromptDelivery' /\ PrefixOnly' /\ HeaderAwaited'
      BY <1>6, <2>1 DEF ReadHeader, TypeOK, PromptDelivery, PrefixOnly, HeaderAwaited,
         Raise, Verdicts, Message
    <2>5. FramesTaken' /\ LengthRead' /\ HeaderNext'
      BY <1>6, <2>1, <2>2, <2>3 DEF ReadHeader, TypeOK, FramesTaken, LengthRead,
         HeaderNext, Raise
    <2>6. ChunkingIrrelevant'
      <3>1. SUFFICES ASSUME pc' = "done"
                     PROVE  StopsAt(frame) /\ verdict' = Judgement(frame)
        BY <1>6, <2>2 DEF ReadHeader, ChunkingIrrelevant, StopsAt, Judgement, Message
      <3>2. kinds[frame] \in {"flags", "long"}
            /\ verdict' = IF kinds[frame] = "flags" THEN "protocol" ELSE "exhausted"
        BY <1>6, <3>1 DEF ReadHeader, Raise
      <3>3. StopsAt(frame)
        BY <2>1, <2>2, <3>2, StopsAfterDelivered DEF Message, TypeOK
      <3>4. total \in Nat /\ starts[frame] + HeaderSize <= total
        BY <2>1, <2>3, <1>f, BodyFacts DEF TypeOK
      <3>5. verdict' = Judgement(frame)
        BY <2>1, <3>2, <3>4 DEF Judgement
      <3> QED
        BY <3>3, <3>5
    <2> QED
      BY <2>4, <2>5, <2>6
  <1>7. CASE Abandon
    BY <1>7 DEF Abandon, TypeOK, FramesTaken, LengthRead, HeaderNext, HeaderAwaited,
       PromptDelivery, PrefixOnly, ChunkingIrrelevant, Raise, Verdicts, Message
  <1>8. CASE BodyEnds
    <2>1. /\ TypeOK' /\ PromptDelivery' /\ PrefixOnly' /\ HeaderAwaited'
          /\ FramesTaken' /\ LengthRead' /\ HeaderNext'
      BY <1>8 DEF BodyEnds, CheckEnded, TypeOK, PromptDelivery, PrefixOnly,
         HeaderAwaited, FramesTaken, LengthRead, HeaderNext, Raise, Verdicts, Message
    <2>2. /\ pc = "idle" /\ fed = total /\ delivered' = delivered
          /\ verdict' = CheckEnded
      BY <1>8 DEF BodyEnds, Raise
    <2>3. SUFFICES StopsAt(delivered + 1) /\ CheckEnded = Judgement(delivered + 1)
      BY <2>1, <2>2, <1>f DEF ChunkingIrrelevant, StopsAt, Judgement, Message
    <2>4. CASE ended
      <3>1. frame = delivered + 2 /\ kinds[delivered + 1] = "end" /\ delivered + 1 \in 1..n
        BY <2>2, <2>4 DEF FramesTaken, TypeOK
      <3>2. StopsAt(delivered + 1)
        BY <3>1, StopsAfterDelivered DEF Message, TypeOK
      <3>3. /\ starts[delivered + 1] \in Nat
            /\ starts[delivered + 1] + HeaderSize <= starts[frame]
            /\ starts[frame] <= total /\ total \in Nat
        BY <3>1, <2>2, <1>f, BodyFacts DEF TypeOK
      <3>4. CheckEnded = Judgement(delivered + 1)
        <4>1. (delivered + 1) + 1 = frame
          BY <3>1 DEF TypeOK
        <4>2. Judgement(delivered + 1) = IF total > starts[frame] THEN "internal" ELSE "ok"
          BY <3>1, <3>3, <4>1 DEF Judgement
        <4>3. CheckEnded = IF total # starts[frame] THEN "internal" ELSE "ok"
          BY <2>2, <2>4, <3>3 DEF CheckEnded, Buffered
        <4> QED
          BY <4>2, <4>3, <3>3, <1>i
      <3> QED
        BY <3>2, <3>4
    <2>5. CASE ~ended
      <3>1. frame = delivered + 1 /\ frame \in 1..(n + 1)
        BY <2>2, <2>5 DEF FramesTaken, TypeOK
      <3>2. frame <= n => total < starts[frame + 1]
        BY <2>2, <2>5 DEF PromptDelivery
      <3>3. StopsAt(frame)
        BY <3>1, <3>2, StopsAfterDelivered DEF Message, TypeOK
      <3>4. total \in Nat /\ Buffered = total - starts[frame]
        BY <2>2, <1>f, BodyFacts DEF Buffered
      <3>5. CheckEnded = Judgement(frame)
        <4>1. CASE Buffered = 0
          BY <3>4, <4>1, <2>2, <2>5, <1>i DEF CheckEnded, Judgement, LengthRead, Buffered
        <4>2. CASE Buffered # 0
          <5>1. frame <= n
            BY <4>2, <3>1 DEF TypeOK
          <5>2. CheckEnded = "protocol"
            BY <4>2, <2>5 DEF CheckEnded
          <5>3. total # starts[frame]
            BY <4>2, <3>4
          <5>4. ~lengthKnown => total < starts[frame] + HeaderSize
            BY <3>4, <2>2, <2>5 DEF HeaderAwaited
          <5>5. lengthKnown => kinds[frame] \notin {"flags", "long"}
            BY <2>2 DEF LengthRead
          <5> QED
            BY <5>1, <5>2, <5>3, <5>4, <5>5, <3>2, <3>4 DEF Judgement
        <4> QED
          BY <4>1, <4>2
      <3> QED
        BY <3>1, <3>3, <3>5
    <2> QED
      BY <2>4, <2>5
  <1>9. CASE UNCHANGED vars
    BY <1>9, <1>f DEF vars, TypeOK, FramesTaken, LengthRead, HeaderNext, HeaderAwaited,
       PromptDelivery, PrefixOnly, ChunkingIrrelevant, Buffered, StopsAt, Judgement,
       Message
  <1> QED
    BY <1>1, <1>2, <1>3, <1>4, <1>5, <1>6, <1>7, <1>8, <1>9 DEF Next, Done

\* The variables keep their types, and the buffer never starts past what was
\* fed: EnvelopeReader._read_messages cuts no more than it has.
THEOREM TypeCorrect == Spec => []TypeOK
  BY InitInv, StepInv, PTL DEF Spec, IInv

\* Whatever the chunks of the body, a reader that is not abandoned yields
\* exactly the messages before the first flaw, or the end, and reports it.
THEOREM ChunkingCorrect == Spec => []ChunkingIrrelevant
  BY InitInv, StepInv, PTL DEF Spec, IInv

\* A message whose last byte was fed is yielded before the next chunk is
\* awaited, and also a reader that is abandoned has only yielded messages of the
\* body.
THEOREM DeliveryCorrect == Spec => []Delivery
  BY InitInv, StepInv, PTL DEF Spec, IInv, Delivery
=============================================================================
