---------------------------- MODULE ClientProofs ----------------------------
(* Proofs about the two clients of Clients: a call that succeeds had the whole
   response, the error a consumer gets is one that happened, and what a
   consumer sees is an RPC. Both clients are instances over the same variables,
   so every step is first named by what it does, whichever client takes it;
   then each part of the invariant is shown to survive each kind of step. *)
EXTENDS Clients, FiniteSetTheorems, SequenceTheorems, TLAPS

\* The protocol of the call.
P == call.protocol

\* Where a reading loop is.
LoopPcs == {"top", "read", "feed", "yield", "sleep"}
InLoop == pc \in LoopPcs
\* Where an asynchronous generator can be suspended without a consumer.
Waits == {"post", "enter", "collect", "read"}

\* Where a call no longer reads.
EndPcs == {"close", "ended"}

\* Every place of a call.
Pcs == {"start", "post", "enter", "collect", "dropped"} \cup LoopPcs \cup EndPcs

\* What the servers' messages ended with, None before their end.
Finishes == {None, "ok", "error", "garbled", "nostatus"}

\* The codes a client gives to a response it rejects, and those it is told.
JudgedCodes ==
    {"unknown", "internal", "resource_exhausted", "invalid_argument", "remote"}
Judged == {Error(c) : c \in JudgedCodes} \cup {RemoteError("remote")}

\* What can leave the body of a call.
Excs == {NoError, Timeout, HttpTimeout, Cancelled, Reset, Other, Exit} \cup Judged

\* What the consumer is told.
Outcomes == {Error(c) : c \in Codes} \cup {RemoteError(c) : c \in Codes}
            \cup {Pending, Success, Abandoned}

\* The states of a response's decoder, and what headers and trailers tell.
Readers == [made : BOOLEAN, read : BOOLEAN, ended : BOOLEAN, trailers : Statuses,
            partial : BOOLEAN]
Resps == [headers : Statuses, trailers : Statuses]

\* The types: of the call, of the response, and of what is made of it.
CallOK ==
    /\ client \in {"async", "sync"} /\ call \in Calls /\ now \in Nat
    /\ pc \in Pcs /\ open \in {"none", "open", "read", "closed"}
    /\ cancel \in {"no", "pending", "delivered"} /\ late \in BOOLEAN
    /\ taken \in Nat /\ sent \in Nat
ResponseOK ==
    /\ resp \in Resps /\ reader \in Readers /\ buffer \in Seq(Frames(P))
    /\ reset \in ResetCodes \cup {None} /\ finish \in Finishes
VerdictOK ==
    /\ exc \in Excs /\ outcome \in Outcomes /\ streamError \in Judged \cup {NoError}
TypeOK == CallOK /\ ResponseOK /\ VerdictOK

\* What a place excludes: only an asynchronous client waits or is cancelled,
\* only a unary call posts, nothing is read before a response, and no error is
\* known before the body is left.
PlaceInv ==
    /\ client = "sync" =>
         pc \notin {"top", "sleep", "dropped"} /\ cancel = "no" /\ exc # Cancelled
    /\ client = "async" => ~late /\ streamError = NoError /\ open # "read"
    /\ pc = "post" => call.shape = "unary"
    /\ call.shape = "unary" =>
          pc \in {"start", "post"} \cup EndPcs /\ open = "none" /\ reader = NoReader
    /\ pc \in {"start", "post", "enter", "collect"} =>
          /\ taken = 0 /\ sent = 0 /\ finish = None
          /\ ~reader.partial /\ buffer = <<>> /\ reader = NoReader
    /\ pc \in {"start", "post", "enter"} => open = "none"
    /\ ~(pc \in EndPcs) =>
          /\ exc = NoError /\ streamError = NoError /\ ~late
          /\ reset = None /\ resp.trailers = None
    /\ resp.trailers # None => P = "grpc"

\* While the loop reads: nothing is lost between the frames read, those still
\* buffered and those the consumer has, and the end of the stream is seen once.
LoopInv ==
    InLoop =>
    /\ pc \in {"top", "read"} => buffer = <<>> \/ reader.ended
    /\ ~reader.ended \/ buffer = <<>> =>
          sent = taken + Messages(buffer) + (IF pc = "yield" THEN 1 ELSE 0)
    /\ ~reader.ended => finish = Heard(P, None, buffer, reader.partial)
    /\ pc = "yield" => ~reader.ended

\* What the decoder has noted of the end of the stream is what the server sent.
ReaderInv ==
    /\ InLoop /\ reader.ended => finish # None
    /\ InLoop /\ reader.ended /\ buffer = <<>> /\ ~reader.partial =>
          finish = IF P = "connect" THEN "ok"
                   ELSE IF reader.trailers = None THEN "nostatus"
                       ELSE reader.trailers
    /\ reader.trailers = "error" => finish \in {"error", "garbled"}
    /\ P # "web" => reader.trailers = None
    /\ P = "grpc" => ~reader.ended
    /\ P # "connect" /\ ~reader.read => taken = 0 /\ pc # "yield"  /\ ~reader.ended
    /\ reader.trailers # None => reader.ended /\ reader.read

\* A body left without an error had the whole response.
GoodInv ==
    /\ pc = "close" /\ exc = NoError =>
          /\ finish = "ok" /\ ~reader.partial /\ ~late /\ taken = sent
          /\ call.shape = "unary" => taken = 1
    /\ outcome = Pending /\ call.shape = "single" => taken <= 1
    /\ outcome = Success => pc = "ended" /\ exc = NoError /\ SuccessIsComplete

\* Behind every error is the event it names.
ExcInv == pc \in EndPcs =>
    /\ exc = Timeout => Passed(call.deadline)
    /\ exc = Cancelled => cancel = "delivered"
    /\ exc.code = "remote" => finish \in {"error", "garbled"}
    /\ exc = Reset => reset # None
    /\ late => exc = Timeout /\ open # "open"
    /\ streamError # NoError =>
          exc = streamError \/ (pc = "ended" /\ exc = HttpTimeout)
    /\ client = "sync" /\ open = "open" /\ exc.code \in {"invalid_argument", "remote"} =>
          streamError = exc
    /\ exc = Exit => outcome # Pending
    /\ pc = "close" /\ exc # Exit => outcome = Pending
    /\ exc = Cancelled /\ pc = "ended" => outcome = Error("canceled")

\* The consumer waits exactly while the call goes on.
PendingInv ==
    /\ pc \notin EndPcs \cup {"dropped"} => outcome = Pending
    /\ pc = "dropped" => outcome # Pending
    /\ outcome = Pending => pc # "ended"

\* Where a cancellation can be pending, and what it is once delivered.
CancelInv ==
    /\ cancel = "pending" =>
         /\ pc \in Waits \cup {"sleep", "close", "ended"}
         /\ pc # "ended" => outcome = Pending
    /\ cancel = "delivered" => exc = Cancelled /\ pc \in EndPcs

-----------------------------------------------------------------------------
\* The operators of the model.

\* The frames of each protocol, and those that end its stream.
LEMMA FrameKinds ==
    /\ Frames("connect") = {"message", "bad", "end_ok", "end_error"}
    /\ Frames("web") = {"message", "bad", "end_ok", "end_error", "end_none"}
    /\ Frames("grpc") = {"message", "bad"}
    /\ EndFrames("connect") = {"end_ok", "end_error"}
    /\ EndFrames("web") = {"end_ok", "end_error", "end_none"}
    /\ EndFrames("grpc") = {}
  <1>1. /\ EndFrames("connect") = {"end_ok", "end_error"}
        /\ EndFrames("web") = {"end_ok", "end_error", "end_none"}
        /\ EndFrames("grpc") = {}
    BY Zenon DEF EndFrames
  <1> QED BY <1>1 DEF Frames

\* What each frame says of the status.
LEMMA EndStatusIs ==
    /\ EndStatus("end_ok") = "ok" /\ EndStatus("end_error") = "error"
    /\ EndStatus("end_none") = "none" /\ EndStatus("message") = "none"
    /\ EndStatus("bad") = "none"
  BY Zenon DEF EndStatus, None

\* The error a frame is, with the cases as alternatives.
LEMMA FrameErrorIs ==
    ASSUME NEW p \in Protocols, NEW f \in Frames(p)
    PROVE  FrameError(p, f) = IF f = "bad" THEN Error("invalid_argument")
                              ELSE IF p = "connect" /\ f = "end_error"
                                  THEN RemoteError("remote")
                              ELSE NoError
  BY Zenon DEF FrameError

\* The decoder of a frame is that of its protocol.
LEMMA HandleFrameIs ==
    ASSUME NEW p \in Protocols, NEW r, NEW f
    PROVE  HandleFrame(p, r, f) =
             IF p = "connect" THEN Connect_Handle(r, f)
             ELSE IF p = "grpc" THEN Grpc_Handle(r, f) ELSE Web_Handle(r, f)
  BY Zenon DEF HandleFrame

\* The end of a response is judged by its protocol.
LEMMA CompleteIs ==
    ASSUME NEW p \in Protocols, NEW r, NEW resp0, NEW e
    PROVE  Complete(p, r, resp0, e) =
             IF p = "connect" THEN Connect_Complete(r, e)
             ELSE IF p = "grpc"
                 THEN Grpc_Complete(Status(r, resp0.trailers, resp0.headers), e)
             ELSE Grpc_Complete(Status(r, r.trailers, resp0.headers), e)
  BY Zenon DEF Complete

\* How gRPC and gRPC-Web judge the end of a response.
LEMMA GrpcCompleteIs ==
    ASSUME NEW s, NEW e
    PROVE  Grpc_Complete(s, e) =
             IF s = None THEN OrReset(e, "internal")
             ELSE IF s = "error"
                 THEN RemoteError(IF e # NoError THEN e.code ELSE "remote")
             ELSE NoError
  BY Zenon DEF Grpc_Complete, None

\* Headers are accepted, or rejected with one of two codes.
LEMMA HeaderErrorIs ==
    ASSUME NEW kind
    PROVE  HeaderError(kind) \in {NoError, Error("unknown"), Error("internal")}
  BY Zenon DEF HeaderError

\* A unary response is good, rejected, or the error it tells.
LEMMA UnaryVerdictIs ==
    ASSUME NEW kind \in UnaryKinds
    PROVE  /\ UnaryVerdict(kind) \in Judged \cup {NoError}
           /\ kind = "good" <=> UnaryVerdict(kind) = NoError
           /\ kind \in {"json_error", "http_error"} <=>
                 UnaryVerdict(kind).code = "remote"
  <1>1. /\ HeaderError("good") = NoError /\ HeaderError("foreign") = Error("unknown")
        /\ HeaderError("other_codec") = Error("internal")
        /\ HeaderError("encoding") = Error("internal")
    BY Zenon DEF HeaderError
  <1>2. /\ UnaryVerdict("good") = NoError
        /\ UnaryVerdict("foreign") = Error("unknown")
        /\ UnaryVerdict("other_codec") = Error("internal")
        /\ UnaryVerdict("encoding") = Error("internal")
        /\ UnaryVerdict("too_large") = Error("resource_exhausted")
        /\ UnaryVerdict("malformed") = Error("invalid_argument")
        /\ UnaryVerdict("json_error") = RemoteError("remote")
        /\ UnaryVerdict("http_error") = Error("remote")
    BY <1>1, Zenon DEF UnaryVerdict
  <1> USE <1>2 DEF UnaryKinds, Error, RemoteError, NoError, None
  <1>3. UnaryVerdict(kind) \in Judged \cup {NoError}
    BY DEF Judged, JudgedCodes
  <1>4. kind = "good" <=> UnaryVerdict(kind) = NoError
    OBVIOUS
  <1>5. kind \in {"json_error", "http_error"} <=> UnaryVerdict(kind).code = "remote"
    OBVIOUS
  <1> QED BY <1>3, <1>4, <1>5

\* The error a stream reset is mapped to, code by code.
LEMMA MapResetIs ==
    ASSUME NEW code \in ResetCodes, NEW expired \in BOOLEAN
    PROVE  MapReset(code, expired) =
        IF code = "PROTOCOL_ERROR" THEN Error("internal")
        ELSE IF code = "REFUSED_STREAM" THEN Error("unavailable")
        ELSE IF code = "CANCEL"
            THEN Error(IF expired THEN "deadline_exceeded" ELSE "canceled")
        ELSE IF code = "ENHANCE_YOUR_CALM" THEN Error("resource_exhausted")
        ELSE IF code = "INADEQUATE_SECURITY" THEN Error("permission_denied")
        ELSE NoError
  BY Zenon DEF MapReset

\* What is heard of a list of frames is heard of its first frame, then of the
\* others: a frame that ends the stream must be the last.
LEMMA HeardHead ==
    ASSUME NEW p \in Protocols, NEW s \in Seq(Frames(p)), s # <<>>,
           NEW partial \in BOOLEAN
    PROVE  Heard(p, None, s, partial) =
             IF Head(s) \notin EndFrames(p) THEN Heard(p, None, Tail(s), partial)
             ELSE IF Tail(s) # <<>> \/ partial THEN "garbled"
             ELSE IF EndStatus(Head(s)) = None THEN "nostatus"
                 ELSE EndStatus(Head(s))
  <1>1. PICK n \in Nat : Len(s) = n + 1 /\ Len(Tail(s)) = n
    BY EmptySeq
  <1>2. \A i \in 1..n : Tail(s)[i] = s[i + 1]
    BY <1>1
  <1>3. Head(s) = s[1] /\ (Tail(s) = <<>> <=> n = 0)
    <2>1. Tail(s) \in Seq(Frames(p))
      OBVIOUS
    <2>2. Tail(s) = <<>> <=> Len(Tail(s)) = 0
      BY <2>1, EmptySeq
    <2> QED BY <1>1, <2>2
  <1>4. CASE Head(s) \notin EndFrames(p)
    <2>1. (\E i \in 1..(n + 1) - 1 : s[i] \in EndFrames(p))
          <=> (\E i \in 1..n - 1 : Tail(s)[i] \in EndFrames(p))
      <3>1. ASSUME NEW i \in 1..(n + 1) - 1, s[i] \in EndFrames(p)
            PROVE  \E j \in 1..n - 1 : Tail(s)[j] \in EndFrames(p)
        <4>1. i # 1 /\ i - 1 \in 1..n - 1
          BY <1>1, <1>3, <1>4, <3>1
        <4>2. Tail(s)[i - 1] = s[i]
          BY <1>1, <1>2, <4>1
        <4> QED BY <3>1, <4>1, <4>2
      <3>2. ASSUME NEW j \in 1..n - 1, Tail(s)[j] \in EndFrames(p)
            PROVE  \E i \in 1..(n + 1) - 1 : s[i] \in EndFrames(p)
        <4>1. j + 1 \in 1..(n + 1) - 1 /\ s[j + 1] = Tail(s)[j]
          BY <1>1, <1>2
        <4> QED BY <3>2, <4>1
      <3> QED BY <3>1, <3>2
    <2>2. CASE n = 0
      <3>1. Heard(p, None, s, partial) = None
        BY <1>1, <1>3, <1>4, <2>2 DEF Heard
      <3>2. Heard(p, None, Tail(s), partial) = None
        <4>1. Len(Tail(s)) = 0 /\ ~\E i \in 1..0 - 1 : Tail(s)[i] \in EndFrames(p)
          BY <1>1, <2>2
        <4> QED BY <4>1 DEF Heard
      <3> QED BY <1>4, <3>1, <3>2
    <2>3. CASE n # 0
      <3>1. s[n + 1] = Tail(s)[n]
        BY <1>1, <1>2, <2>3
      <3> QED BY <1>1, <1>3, <1>4, <2>1, <2>3, <3>1 DEF Heard
    <2> QED BY <2>2, <2>3
  <1>5. CASE Head(s) \in EndFrames(p)
    <2>1. CASE n = 0
      BY <1>1, <1>3, <1>5, <2>1 DEF Heard
    <2>2. CASE n # 0
      <3>1. \E i \in 1..(n + 1) - 1 : s[i] \in EndFrames(p)
        BY <1>1, <1>3, <1>5, <2>2
      <3> QED BY <1>1, <1>3, <1>5, <2>2, <3>1 DEF Heard
    <2> QED BY <2>1, <2>2
  <1> QED BY <1>4, <1>5

\* The messages of a list are that of its first frame and those of the others.
LEMMA MessagesHead ==
    ASSUME NEW S, NEW s \in Seq(S), s # <<>>
    PROVE  Messages(s) = Messages(Tail(s)) + (IF Head(s) = "message" THEN 1 ELSE 0)
  <1> DEFINE M(t) == {i \in DOMAIN t : t[i] = "message"}
             N == {i \in 2..Len(s) : s[i] = "message"}
             f == [i \in M(Tail(s)) |-> i + 1]
  <1>1. PICK n \in Nat : Len(s) = n + 1 /\ Len(Tail(s)) = n
    BY EmptySeq
  <1>2. /\ DOMAIN s = 1..n + 1 /\ DOMAIN Tail(s) = 1..n
        /\ \A i \in 1..n : Tail(s)[i] = s[i + 1]
    BY <1>1
  <1>3. IsFiniteSet(M(Tail(s))) /\ IsFiniteSet(N)
    BY <1>1, <1>2, FS_Interval, FS_Subset
  <1>4. f \in Bijection(M(Tail(s)), N)
    <2>1. f \in Injection(M(Tail(s)), N)
      BY <1>1, <1>2 DEF Injection, IsInjective
    <2>2. f \in Surjection(M(Tail(s)), N)
      <3> SUFFICES ASSUME NEW j \in N PROVE \E i \in M(Tail(s)) : f[i] = j
        BY <2>1 DEF Surjection, Injection
      <3>1. j - 1 \in M(Tail(s)) /\ f[j - 1] = j
        BY <1>1, <1>2
      <3> QED BY <3>1
    <2> QED BY <2>1, <2>2 DEF Bijection
  <1>5. Cardinality(M(Tail(s))) = Cardinality(N)
    BY <1>3, <1>4, FS_Bijection DEF ExistsBijection
  <1>6. CASE Head(s) = "message"
    <2>1. M(s) = N \cup {1} /\ 1 \notin N
      BY <1>1, <1>2, <1>6
    <2>2. Cardinality(M(s)) = Cardinality(N) + 1
      BY <1>3, <2>1, FS_AddElement
    <2> QED BY <1>5, <1>6, <2>2 DEF Messages
  <1>7. CASE Head(s) # "message"
    <2>1. M(s) = N
      <3>1. s[1] # "message" /\ 2..n + 1 = (1..n + 1) \ {1}
        BY <1>1, <1>7
      <3> QED BY <1>1, <1>2, <3>1
    <2>2. Cardinality(N) \in Nat
      BY <1>3, FS_CardinalityType
    <2>3. Messages(s) = Cardinality(N) /\ Messages(Tail(s)) = Cardinality(N)
      BY <1>5, <2>1, Zenon DEF Messages
    <2> HIDE DEF N
    <2> QED BY <1>7, <2>2, <2>3
  <1> QED BY <1>6, <1>7

\* The number of messages of a list is a number, 0 of none.
LEMMA MessagesTyped ==
    ASSUME NEW S, NEW s \in Seq(S)
    PROVE  Messages(s) \in Nat /\ (s = <<>> => Messages(s) = 0)
  <1> DEFINE M == {i \in DOMAIN s : s[i] = "message"}
  <1>1. IsFiniteSet(M)
    <2>1. Len(s) \in Nat /\ DOMAIN s = 1..Len(s) /\ 0 \in Int
      OBVIOUS
    <2>2. IsFiniteSet(1..Len(s))
      BY <2>1, FS_Interval
    <2> QED BY <2>1, <2>2, FS_Subset
  <1>2. s = <<>> => M = {}
    OBVIOUS
  <1> QED BY <1>1, <1>2, FS_CardinalityType, FS_EmptySet DEF Messages

\* What a client concludes when the body ends: a truncated response, or one
\* with something after its end, is never accepted.
LEMMA AtEndIs ==
    ASSUME NEW p \in Protocols, NEW r \in Readers, NEW left, NEW rs \in Resps
    PROVE  LET v == AtEnd(p, r, left, rs)
               s == IF p = "grpc" THEN Status(r, rs.trailers, rs.headers)
                    ELSE Status(r, r.trailers, rs.headers)
           IN  /\ v \in {NoError, Error("internal"), RemoteError("remote")}
               /\ v # Error("internal") =>
                    ~r.partial /\ (r.ended => left = <<>>)
               /\ v = NoError => IF p = "connect" THEN r.ended ELSE s = "ok"
               /\ v.code = "remote" => p # "connect" /\ s = "error"
  <1> DEFINE s == IF p = "grpc" THEN Status(r, rs.trailers, rs.headers)
                  ELSE Status(r, r.trailers, rs.headers)
  <1>1. s \in Statuses
    BY DEF Status, Readers, Resps, Statuses
  <1>2. Complete(p, r, rs, NoError) =
          IF p = "connect" THEN IF r.ended THEN NoError ELSE Error("internal")
          ELSE IF s = "none" THEN Error("internal")
          ELSE IF s = "error" THEN RemoteError("remote") ELSE NoError
    BY CompleteIs, GrpcCompleteIs DEF Connect_Complete, OrReset, None, Protocols
  <1>3. CASE r.partial \/ (r.ended /\ left # <<>>)
    BY <1>3 DEF AtEnd, CheckEnded, Error, NoError, None
  <1>4. CASE ~(r.partial \/ (r.ended /\ left # <<>>))
    <2>1. AtEnd(p, r, left, rs) = Complete(p, r, rs, NoError)
      BY <1>4 DEF AtEnd, CheckEnded
    <2> QED BY <1>1, <1>2, <1>4, <2>1
        DEF Statuses, None, Error, RemoteError, NoError
  <1> QED BY <1>3, <1>4

\* What a client concludes from a reset: the code of the reset, with the
\* details of a status only when the server had sent one.
LEMMA AfterResetIs ==
    ASSUME NEW p \in Protocols, NEW r \in Readers, NEW rs \in Resps,
           NEW code \in ResetCodes, NEW expired \in BOOLEAN
    PROVE  LET v == AfterReset(p, r, rs, MapReset(code, expired))
           IN  /\ \E c \in LocalCodes : v \in {Error(c), RemoteError(c)}
               /\ v.code = "deadline_exceeded" => expired
               /\ v.code = "canceled" => code = "CANCEL"
               /\ v.details => /\ p # "connect"
                               /\ "error" \in {rs.headers, IF p = "web"
                                     THEN r.trailers ELSE rs.trailers}
  <1> DEFINE m == MapReset(code, expired)
             s == IF p = "grpc" THEN Status(r, rs.trailers, rs.headers)
                  ELSE Status(r, r.trailers, rs.headers)
             v == AfterReset(p, r, rs, m)
  <1>1. /\ m = NoError \/ \E c \in LocalCodes : m = Error(c)
        /\ m.code = "deadline_exceeded" => expired
        /\ m.code = "canceled" => code = "CANCEL"
        /\ m.details = FALSE
    BY MapResetIs DEF ResetCodes, LocalCodes, Error, NoError, None
  <1>2. CASE m = NoError
    <2>1. v = Error("unavailable")
      BY <1>2 DEF AfterReset
    <2> QED BY <2>1 DEF LocalCodes, Error
  <1>3. CASE m # NoError
    <2>1. Complete(p, r, rs, m) =
            IF p = "connect" THEN NoError
            ELSE IF s = "none" THEN m
            ELSE IF s = "error" THEN RemoteError(m.code) ELSE NoError
      BY <1>3, CompleteIs, GrpcCompleteIs DEF Connect_Complete, OrReset, None,
         Protocols
    <2>2. v = m \/ (v = RemoteError(m.code) /\ p # "connect" /\ s = "error")
      BY <1>3, <2>1 DEF AfterReset
    <2>3. s = "error" =>
            "error" \in {rs.headers, IF p = "web" THEN r.trailers
                ELSE rs.trailers} \/ p = "connect"
      BY DEF Status, Protocols, None
    <2>4. RemoteError(m.code).code = m.code
      BY DEF RemoteError
    <2> HIDE DEF m, s, v
    <2>5. \E c \in LocalCodes : m = Error(c) /\ m.code = c
      BY <1>1, <1>3 DEF Error
    <2> QED BY <1>1, <2>2, <2>3, <2>4, <2>5 DEF v, m
  <1> QED BY <1>2, <1>3

\* How the outcome of a stream follows from what left its body.
Mapping(e, other) ==
    IF e \in {Timeout, HttpTimeout} THEN Error("deadline_exceeded")
    ELSE IF e = Cancelled THEN Error("canceled")
    ELSE IF e = Reset
         THEN AfterReset(P, reader, resp, MapReset(reset, Passed(call.deadline)))
    ELSE IF e = Other THEN other
    ELSE IF e = NoError /\ call.shape = "single" /\ taken = 0
         THEN Error("unimplemented") ELSE e

\* The exceptions are not each other.
LEMMA Distinct ==
    /\ Timeout # Cancelled /\ Timeout # Reset /\ Timeout # Other /\ Timeout # NoError
    /\ Cancelled # Reset /\ Cancelled # Other /\ Cancelled # NoError
    /\ Reset # Other /\ Reset # NoError /\ Other # NoError
    /\ HttpTimeout \notin {Timeout, Cancelled, Reset, Other, NoError}
  BY DEF Timeout, HttpTimeout, Cancelled, Reset, Other, NoError, Error, None

\* The error of a frame is one of the judged ones.
LEMMA FrameErrorOK ==
    ASSUME NEW p \in Protocols, NEW f \in Frames(p)
    PROVE  LET e == FrameError(p, f)
           IN  /\ e \in Judged \cup {NoError}
               /\ e.code \in {"none", "invalid_argument", "remote"}
               /\ e = NoError <=> f # "bad" /\ ~(p = "connect" /\ f = "end_error")
               /\ e.code = "remote" <=> p = "connect" /\ f = "end_error"
  <1> DEFINE e == FrameError(p, f)
  <1>1. e = IF f = "bad" THEN Error("invalid_argument")
            ELSE IF p = "connect" /\ f = "end_error" THEN RemoteError("remote")
            ELSE NoError
    BY FrameErrorIs
  <1>2. /\ Error("invalid_argument") \in Judged /\ RemoteError("remote") \in Judged
        /\ Error("invalid_argument") # NoError /\ RemoteError("remote") # NoError
        /\ Error("invalid_argument").code = "invalid_argument"
        /\ RemoteError("remote").code = "remote" /\ NoError.code = "none"
    BY DEF Judged, JudgedCodes, Error, RemoteError, NoError, None
  <1> QED BY <1>1, <1>2

\* What handling a frame notes.
LEMMA HandleFrameOK ==
    ASSUME NEW p \in Protocols, NEW r \in Readers, NEW f \in Frames(p)
    PROVE  /\ HandleFrame(p, r, f) \in Readers
           /\ HandleFrame(p, r, f) =
              [made |-> r.made, partial |-> r.partial,
               ended |-> IF p = "grpc" THEN r.ended ELSE f # "message",
               read |-> IF p = "connect" THEN r.read ELSE TRUE,
               trailers |-> IF p = "web" THEN EndStatus(f) ELSE r.trailers]
  <1>1. EndStatus(f) \in Statuses
    BY EndStatusIs, FrameKinds DEF Protocols, Statuses, None
  <1>2. (f # "message") \in BOOLEAN
    OBVIOUS
  <1> USE <1>1, <1>2, HandleFrameIs DEF Readers, Protocols
  <1>3. CASE p = "connect"
    <2>1. HandleFrame(p, r, f) = Connect_Handle(r, f)
      BY <1>3
    <2> QED BY <1>3, <2>1 DEF Connect_Handle
  <1>4. CASE p = "grpc"
    <2>1. HandleFrame(p, r, f) = Grpc_Handle(r, f)
      BY <1>4
    <2> QED BY <1>4, <2>1 DEF Grpc_Handle
  <1>5. CASE p = "web"
    <2>1. HandleFrame(p, r, f) = Web_Handle(r, f)
      BY <1>5
    <2> QED BY <1>5, <2>1 DEF Web_Handle, Grpc_Handle
  <1> QED BY <1>3, <1>4, <1>5

\* What is heard is one of the finishes; a finish already heard can only be spoilt.
LEMMA HeardOK ==
    ASSUME NEW p \in Protocols, NEW f \in Finishes, NEW s \in Seq(Frames(p)),
           NEW partial \in BOOLEAN
    PROVE  /\ Heard(p, f, s, partial) \in Finishes
           /\ f # None => Heard(p, f, s, partial) \in {f, "garbled"}
           /\ s = <<>> /\ ~partial => Heard(p, f, s, partial) = f
  <1>1. Len(s) \in Nat /\ (Len(s) # 0 => s[Len(s)] \in Frames(p)) /\
        (s = <<>> => Len(s) = 0)
    OBVIOUS
  <1>2. Len(s) # 0 => EndStatus(s[Len(s)]) \in Statuses
    BY <1>1, EndStatusIs, FrameKinds DEF Protocols, Statuses, None
  <1> QED BY <1>1, <1>2 DEF Heard, Finishes, Statuses, None

\* A chunk is a list of frames.
LEMMA ChunksOK ==
    ASSUME NEW p, NEW n \in Nat, NEW c \in Chunks(p, n)
    PROVE  c \in Seq(Frames(p))
  <1>1. PICK k \in 0..n : c \in [1..k -> Frames(p)]
    BY DEF Chunks
  <1> QED BY <1>1

\* The codes and details of the exceptions.
LEMMA ExcKinds ==
    /\ \A e \in Judged :
          /\ e \notin {NoError, Timeout, HttpTimeout, Cancelled, Reset, Other, Exit,
                       Pending}
          /\ e.code \in JudgedCodes /\ (e.details => e.code = "remote")
                         /\ e \in Outcomes
    /\ Exit \notin {NoError, Timeout, HttpTimeout, Cancelled, Reset, Other, Pending}
    /\ HttpTimeout.code = "HttpTimeoutError"
    /\ NoError.code = "none" /\ Timeout.code = "TimeoutError"
    /\ Cancelled.code = "CancelledError" /\ Reset.code = "StreamError"
    /\ Other.code = "Exception" /\ Exit.code = "GeneratorExit"
    /\ \A c : Error(c).code = c /\ ~Error(c).details /\ RemoteError(c).code = c
    /\ Pending.code = "pending" /\ Abandoned.code = "abandoned"
    /\ ~NoError.details /\ ~Pending.details /\ ~Abandoned.details
  BY Distinct DEF Judged, JudgedCodes, Error, RemoteError, NoError, Timeout,
     HttpTimeout, Cancelled, Reset,
     Other, Exit, Pending, Abandoned, None, Outcomes, Codes, LocalCodes

-----------------------------------------------------------------------------
\* The two instances share their operators with this module.

\* The constants of the asynchronous instance are those of this module.
LEMMA AsyncValues ==
    /\ \A c : Async!Error(c) = Error(c)
    /\ Async!HttpTimeout = HttpTimeout
    /\ Async!None = None /\ Async!NoError = NoError /\ Async!Pending = Pending
    /\ Async!Abandoned = Abandoned /\ Async!Timeout = Timeout
    /\ Async!Cancelled = Cancelled /\ Async!Reset = Reset
    /\ Async!Other = Other /\ Async!Exit = Exit /\ Async!Calls = Calls
    /\ Async!ResetCodes = ResetCodes /\ Async!NewReader = NewReader
    /\ Async!NoReader = NoReader /\ Async!Statuses = Statuses
    /\ Async!HeaderKinds = HeaderKinds /\ Async!UnaryKinds = UnaryKinds
  BY DEF Async!Error, Error, Async!HttpTimeout, HttpTimeout,
     Async!None, None, Async!NoError, NoError,
     Async!Pending, Pending, Async!Abandoned, Abandoned, Async!Timeout, Timeout,
     Async!Cancelled, Cancelled, Async!Reset, Reset, Async!Other, Other,
     Async!Exit, Exit, Async!Calls, Calls, Async!ResetCodes, ResetCodes,
     Async!NewReader, NewReader, Async!NoReader, NoReader, Async!Statuses,
     Statuses, Async!HeaderKinds, HeaderKinds, Async!UnaryKinds, UnaryKinds,
     Async!Protocols, Protocols

\* The judgements of the asynchronous instance are those of this module.
LEMMA AsyncJudges ==
    /\ \A k : Async!HeaderError(k) = HeaderError(k)
    /\ \A k : Async!UnaryVerdict(k) = UnaryVerdict(k)
    /\ \A p, f : Async!FrameError(p, f) = FrameError(p, f)
    /\ \A p, r, f : Async!HandleFrame(p, r, f) = HandleFrame(p, r, f)
    /\ \A r, t, h : Async!Status(r, t, h) = Status(r, t, h)
    /\ \A r, e : Async!Connect_Complete(r, e) = Connect_Complete(r, e)
    /\ \A s, e : Async!Grpc_Complete(s, e) = Grpc_Complete(s, e)
    /\ \A p, r, s, m : Async!Complete(p, r, s, m) = Complete(p, r, s, m)
    /\ \A p, r, l, s : Async!AtEnd(p, r, l, s) = AtEnd(p, r, l, s)
    /\ \A c, e : Async!MapReset(c, e) = MapReset(c, e)
    /\ \A p, r, s, m : Async!AfterReset(p, r, s, m) = AfterReset(p, r, s, m)
    /\ \A p, n : Async!Chunks(p, n) = Chunks(p, n)
    /\ \A p : Async!Trailers(p) = Trailers(p)
    /\ \A s : Async!Messages(s) = Messages(s)
    /\ \A r, s, x : Async!Follows(r, s, x) = Follows(r, s, x)
    /\ \A p, f, s, x : Async!Heard(p, f, s, x) = Heard(p, f, s, x)
    /\ \A p, f, s, r : Async!Finish(p, f, s, r) = Finish(p, f, s, r)
  <1>1. \A k : Async!HeaderError(k) = HeaderError(k)
    BY Zenon DEF Async!HeaderError, HeaderError, Async!Error, Error,
       Async!NoError, NoError, Async!None, None
  <1>2. \A k : Async!UnaryVerdict(k) = UnaryVerdict(k)
    BY Zenon DEF Async!UnaryVerdict, UnaryVerdict, Async!HeaderError,
       HeaderError, Async!Error, Error, Async!RemoteError, RemoteError,
       Async!NoError, NoError, Async!None, None
  <1>3. \A p, f : Async!FrameError(p, f) = FrameError(p, f)
    BY Zenon DEF Async!FrameError, FrameError, Async!Error, Error,
       Async!RemoteError, RemoteError, Async!NoError, NoError, Async!None, None
  <1>4. \A p, r, f : Async!HandleFrame(p, r, f) = HandleFrame(p, r, f)
    BY Zenon DEF Async!HandleFrame, HandleFrame, Async!Connect_Handle,
       Connect_Handle, Async!Grpc_Handle, Grpc_Handle, Async!Web_Handle,
       Web_Handle, Async!EndStatus, EndStatus, Async!None, None
  <1>5. \A r, t, h : Async!Status(r, t, h) = Status(r, t, h)
    BY Zenon DEF Async!Status, Status, Async!None, None
  <1>6. \A r, e : Async!Connect_Complete(r, e) = Connect_Complete(r, e)
    BY Zenon DEF Async!Connect_Complete, Connect_Complete, Async!Error, Error,
       Async!NoError, NoError, Async!None, None
  <1>7. \A s, e : Async!Grpc_Complete(s, e) = Grpc_Complete(s, e)
    BY Zenon DEF Async!Grpc_Complete, Grpc_Complete, Async!OrReset, OrReset,
       Async!Error, Error, Async!RemoteError, RemoteError, Async!NoError,
       NoError, Async!None, None
  <1>8. \A p, r, s, m : Async!Complete(p, r, s, m) = Complete(p, r, s, m)
    BY <1>5, <1>6, <1>7, Zenon DEF Async!Complete, Complete
  <1>9. \A p, r, l, s : Async!AtEnd(p, r, l, s) = AtEnd(p, r, l, s)
    BY <1>8 DEF Async!AtEnd, AtEnd, Async!CheckEnded, CheckEnded, Async!Error,
       Error, Async!NoError, NoError, Async!None, None
  <1>10. \A c, e : Async!MapReset(c, e) = MapReset(c, e)
    BY Zenon DEF Async!MapReset, MapReset, Async!Error, Error, Async!NoError,
       NoError, Async!None, None
  <1>11. \A p, r, s, m : Async!AfterReset(p, r, s, m) = AfterReset(p, r, s, m)
    BY <1>8 DEF Async!AfterReset, AfterReset, Async!Error, Error, Async!NoError,
       NoError, Async!None, None
  <1>12. \A p, n : Async!Chunks(p, n) = Chunks(p, n)
    BY Zenon DEF Async!Chunks, Chunks, Async!Frames, Frames, Async!EndFrames,
       EndFrames
  <1>13. \A p : Async!Trailers(p) = Trailers(p)
    BY Zenon DEF Async!Trailers, Trailers, Async!Statuses, Statuses, Async!None,
       None
  <1>14. \A s : Async!Messages(s) = Messages(s)
    BY DEF Async!Messages, Messages, Async!Cardinality, Cardinality
  <1>15. \A r, s, x : Async!Follows(r, s, x) = Follows(r, s, x)
    BY Zenon DEF Async!Follows, Follows
  <1>16. \A p, f, s, x : Async!Heard(p, f, s, x) = Heard(p, f, s, x)
    BY Zenon DEF Async!Heard, Heard, Async!EndFrames, EndFrames,
       Async!EndStatus, EndStatus, Async!None, None
  <1>17. \A p, f, s, r : Async!Finish(p, f, s, r) = Finish(p, f, s, r)
    BY Zenon DEF Async!Finish, Finish, Async!None, None
  <1> QED BY <1>1, <1>2, <1>3, <1>4, <1>5, <1>6, <1>7, <1>8, <1>9, <1>10, <1>11,
     <1>12, <1>13, <1>14, <1>15, <1>16, <1>17

\* The same for the synchronous instance.
LEMMA SyncValues ==
    /\ \A c : Sync!Error(c) = Error(c)
    /\ Sync!HttpTimeout = HttpTimeout
    /\ Sync!None = None /\ Sync!NoError = NoError /\ Sync!Pending = Pending
    /\ Sync!Abandoned = Abandoned /\ Sync!Timeout = Timeout
    /\ Sync!Cancelled = Cancelled /\ Sync!Reset = Reset /\ Sync!Other = Other
    /\ Sync!Exit = Exit /\ Sync!Calls = Calls /\ Sync!ResetCodes = ResetCodes
    /\ Sync!NewReader = NewReader /\ Sync!NoReader = NoReader
    /\ Sync!Statuses = Statuses /\ Sync!HeaderKinds = HeaderKinds
    /\ Sync!UnaryKinds = UnaryKinds
  BY DEF Sync!Error, Error, Sync!HttpTimeout, HttpTimeout,
     Sync!None, None, Sync!NoError, NoError,
     Sync!Pending, Pending, Sync!Abandoned, Abandoned, Sync!Timeout, Timeout,
     Sync!Cancelled, Cancelled, Sync!Reset, Reset, Sync!Other, Other, Sync!Exit,
     Exit, Sync!Calls, Calls, Sync!ResetCodes, ResetCodes, Sync!NewReader,
     NewReader, Sync!NoReader, NoReader, Sync!Statuses, Statuses,
     Sync!HeaderKinds, HeaderKinds, Sync!UnaryKinds, UnaryKinds, Sync!Protocols,
     Protocols

\* The same for the judgements of the synchronous instance.
LEMMA SyncJudges ==
    /\ \A k : Sync!HeaderError(k) = HeaderError(k)
    /\ \A k : Sync!UnaryVerdict(k) = UnaryVerdict(k)
    /\ \A p, f : Sync!FrameError(p, f) = FrameError(p, f)
    /\ \A p, r, f : Sync!HandleFrame(p, r, f) = HandleFrame(p, r, f)
    /\ \A r, t, h : Sync!Status(r, t, h) = Status(r, t, h)
    /\ \A r, e : Sync!Connect_Complete(r, e) = Connect_Complete(r, e)
    /\ \A s, e : Sync!Grpc_Complete(s, e) = Grpc_Complete(s, e)
    /\ \A p, r, s, m : Sync!Complete(p, r, s, m) = Complete(p, r, s, m)
    /\ \A p, r, l, s : Sync!AtEnd(p, r, l, s) = AtEnd(p, r, l, s)
    /\ \A c, e : Sync!MapReset(c, e) = MapReset(c, e)
    /\ \A p, r, s, m : Sync!AfterReset(p, r, s, m) = AfterReset(p, r, s, m)
    /\ \A p, n : Sync!Chunks(p, n) = Chunks(p, n)
    /\ \A p : Sync!Trailers(p) = Trailers(p)
    /\ \A s : Sync!Messages(s) = Messages(s)
    /\ \A r, s, x : Sync!Follows(r, s, x) = Follows(r, s, x)
    /\ \A p, f, s, x : Sync!Heard(p, f, s, x) = Heard(p, f, s, x)
    /\ \A p, f, s, r : Sync!Finish(p, f, s, r) = Finish(p, f, s, r)
  <1>1. \A k : Sync!HeaderError(k) = HeaderError(k)
    BY Zenon DEF Sync!HeaderError, HeaderError, Sync!Error, Error, Sync!NoError,
       NoError, Sync!None, None
  <1>2. \A k : Sync!UnaryVerdict(k) = UnaryVerdict(k)
    BY Zenon DEF Sync!UnaryVerdict, UnaryVerdict, Sync!HeaderError, HeaderError,
       Sync!Error, Error, Sync!RemoteError, RemoteError, Sync!NoError, NoError,
       Sync!None, None
  <1>3. \A p, f : Sync!FrameError(p, f) = FrameError(p, f)
    BY Zenon DEF Sync!FrameError, FrameError, Sync!Error, Error,
       Sync!RemoteError, RemoteError, Sync!NoError, NoError, Sync!None, None
  <1>4. \A p, r, f : Sync!HandleFrame(p, r, f) = HandleFrame(p, r, f)
    BY Zenon DEF Sync!HandleFrame, HandleFrame, Sync!Connect_Handle,
       Connect_Handle, Sync!Grpc_Handle, Grpc_Handle, Sync!Web_Handle,
       Web_Handle, Sync!EndStatus, EndStatus, Sync!None, None
  <1>5. \A r, t, h : Sync!Status(r, t, h) = Status(r, t, h)
    BY Zenon DEF Sync!Status, Status, Sync!None, None
  <1>6. \A r, e : Sync!Connect_Complete(r, e) = Connect_Complete(r, e)
    BY Zenon DEF Sync!Connect_Complete, Connect_Complete, Sync!Error, Error,
       Sync!NoError, NoError, Sync!None, None
  <1>7. \A s, e : Sync!Grpc_Complete(s, e) = Grpc_Complete(s, e)
    BY Zenon DEF Sync!Grpc_Complete, Grpc_Complete, Sync!OrReset, OrReset,
       Sync!Error, Error, Sync!RemoteError, RemoteError, Sync!NoError, NoError,
       Sync!None, None
  <1>8. \A p, r, s, m : Sync!Complete(p, r, s, m) = Complete(p, r, s, m)
    BY <1>5, <1>6, <1>7, Zenon DEF Sync!Complete, Complete
  <1>9. \A p, r, l, s : Sync!AtEnd(p, r, l, s) = AtEnd(p, r, l, s)
    BY <1>8 DEF Sync!AtEnd, AtEnd, Sync!CheckEnded, CheckEnded, Sync!Error,
       Error, Sync!NoError, NoError, Sync!None, None
  <1>10. \A c, e : Sync!MapReset(c, e) = MapReset(c, e)
    BY Zenon DEF Sync!MapReset, MapReset, Sync!Error, Error, Sync!NoError,
       NoError, Sync!None, None
  <1>11. \A p, r, s, m : Sync!AfterReset(p, r, s, m) = AfterReset(p, r, s, m)
    BY <1>8 DEF Sync!AfterReset, AfterReset, Sync!Error, Error, Sync!NoError,
       NoError, Sync!None, None
  <1>12. \A p, n : Sync!Chunks(p, n) = Chunks(p, n)
    BY Zenon DEF Sync!Chunks, Chunks, Sync!Frames, Frames, Sync!EndFrames,
       EndFrames
  <1>13. \A p : Sync!Trailers(p) = Trailers(p)
    BY Zenon DEF Sync!Trailers, Trailers, Sync!Statuses, Statuses, Sync!None,
       None
  <1>14. \A s : Sync!Messages(s) = Messages(s)
    BY DEF Sync!Messages, Messages, Sync!Cardinality, Cardinality
  <1>15. \A r, s, x : Sync!Follows(r, s, x) = Follows(r, s, x)
    BY Zenon DEF Sync!Follows, Follows
  <1>16. \A p, f, s, x : Sync!Heard(p, f, s, x) = Heard(p, f, s, x)
    BY Zenon DEF Sync!Heard, Heard, Sync!EndFrames, EndFrames, Sync!EndStatus,
       EndStatus, Sync!None, None
  <1>17. \A p, f, s, r : Sync!Finish(p, f, s, r) = Finish(p, f, s, r)
    BY Zenon DEF Sync!Finish, Finish, Sync!None, None
  <1> QED BY <1>1, <1>2, <1>3, <1>4, <1>5, <1>6, <1>7, <1>8, <1>9, <1>10, <1>11,
     <1>12, <1>13, <1>14, <1>15, <1>16, <1>17

\* How the asynchronous client maps what left the body.
LEMMA AsyncMaps ==
    ASSUME NEW e
    PROVE  Async!Mapped(e) = Mapping(e, Error("unavailable"))
  <1>1. Async!Mapped(e) =
          CASE e \in {Timeout, HttpTimeout} -> Error("deadline_exceeded")
            [] e = Cancelled -> Error("canceled")
            [] e = Reset ->
                 AfterReset(P, reader, resp, MapReset(reset, Passed(call.deadline)))
            [] e = Other -> Error("unavailable")
            [] e = NoError /\
                (call.shape = "single" /\ taken = 0) -> Error("unimplemented")
            [] OTHER -> e
    <2>1. /\ Async!Error("deadline_exceeded") = Error("deadline_exceeded")
          /\ Async!Error("canceled") = Error("canceled")
          /\ Async!Error("unavailable") = Error("unavailable")
          /\ Async!Error("unimplemented") = Error("unimplemented")
          /\ Async!HttpTimeout = HttpTimeout
          /\ Async!Timeout = Timeout /\ Async!Cancelled = Cancelled
          /\ Async!Reset = Reset /\ Async!Other = Other /\ Async!NoError = NoError
      BY AsyncValues
    <2>2. Async!AfterReset(call.protocol, reader, resp,
                           Async!MapReset(reset, Async!Passed(call.deadline)))
          = AfterReset(P, reader, resp, MapReset(reset, Passed(call.deadline)))
      BY AsyncJudges, Zenon DEF Async!Passed, P, Passed
    <2> QED BY <2>1, <2>2, Zenon DEF Async!Mapped, Async!Protocol, Async!NoMessage
  <1> USE Distinct, <1>1 DEF Mapping
  <1>2. CASE e = Timeout
    BY <1>2, Zenon
  <1>8. CASE e = HttpTimeout
    BY <1>8, Zenon
  <1>3. CASE e = Cancelled
    BY <1>3, Zenon
  <1>4. CASE e = Reset
    BY <1>4, Zenon
  <1>5. CASE e = Other
    BY <1>5, Zenon
  <1>6. CASE e = NoError
    BY <1>6, Zenon
  <1>7. CASE e \notin {Timeout, HttpTimeout, Cancelled, Reset, Other, NoError}
    BY <1>7, Zenon
  <1> QED BY <1>2, <1>3, <1>4, <1>5, <1>6, <1>7, <1>8

\* How the synchronous client does: a failure of the transport is an error the
\* decoder raised, when there is one.
LEMMA SyncMaps ==
    ASSUME NEW e, e # Cancelled
    PROVE  Sync!Mapped(e) = Mapping(e, IF streamError # NoError THEN streamError
               ELSE Error("unavailable"))
  <1>1. Sync!Mapped(e) =
          CASE e \in {Timeout, HttpTimeout} -> Error("deadline_exceeded")
            [] e = Reset ->
                 AfterReset(P, reader, resp, MapReset(reset, Passed(call.deadline)))
            [] e = Other -> IF streamError # NoError THEN streamError
                ELSE Error("unavailable")
            [] e = NoError /\
                (call.shape = "single" /\ taken = 0) -> Error("unimplemented")
            [] OTHER -> e
    <2>1. /\ Sync!Error("deadline_exceeded") = Error("deadline_exceeded")
          /\ Sync!Error("canceled") = Error("canceled")
          /\ Sync!Error("unavailable") = Error("unavailable")
          /\ Sync!Error("unimplemented") = Error("unimplemented")
          /\ Sync!HttpTimeout = HttpTimeout
          /\ Sync!Timeout = Timeout /\ Sync!Cancelled = Cancelled
          /\ Sync!Reset = Reset /\ Sync!Other = Other /\ Sync!NoError = NoError
      BY SyncValues
    <2>2. Sync!AfterReset(call.protocol, reader, resp,
                           Sync!MapReset(reset, Sync!Passed(call.deadline)))
          = AfterReset(P, reader, resp, MapReset(reset, Passed(call.deadline)))
      BY SyncJudges, Zenon DEF Sync!Passed, P, Passed
    <2> QED BY <2>1, <2>2, Zenon DEF Sync!Mapped, Sync!Protocol, Sync!NoMessage
  <1> USE Distinct, <1>1 DEF Mapping
  <1>2. CASE e = Timeout
    BY <1>2, Zenon
  <1>8. CASE e = HttpTimeout
    BY <1>8, Zenon
  <1>4. CASE e = Reset
    BY <1>4, Zenon
  <1>5. CASE e = Other
    BY <1>5, Zenon
  <1>6. CASE e = NoError
    BY <1>6, Zenon
  <1>7. CASE e \notin {Timeout, HttpTimeout, Cancelled, Reset, Other, NoError}
    BY <1>7, Zenon
  <1> QED BY <1>2, <1>4, <1>5, <1>6, <1>7, <1>8

-----------------------------------------------------------------------------
\* What each kind of step does.

\* The actions of the two clients by what they do: steps that move the call
\* alone, the consumer taking, a failure, a response judged from its headers, a
\* chunk read, a frame decoded, the end of the body, the outcome.
Plainly ==
    \/ AsAsync /\ (Async!Start \/ Async!EnterRefused \/ Async!CheckDeadline
                    \/ Async!Awake \/ Async!Finalize \/ Async!Tick
                    \/ Async!CallerCancels)
    \/ AsSync /\ (Sync!Start \/ Sync!EnterRefused \/ Sync!Tick)
Taking ==
    \/ AsAsync /\ (Async!Take \/ Async!TakeSecond \/ Async!StopEarly)
    \/ AsSync /\ (Sync!Take \/ Sync!StopEarly)
Failing ==
    \/ AsAsync /\ (Async!Fails \/ Async!TimedOut \/ Async!Interrupt
                    \/ Async!StreamReset)
    \/ AsSync /\ (Sync!Fails \/ Sync!StreamReset)
Judging ==
    \/ AsAsync /\ (Async!Post \/ Async!Collect \/ Async!EnterResponds)
    \/ AsSync /\ (Sync!Post \/ Sync!Collect \/ Sync!EnterResponds)
Reading ==
    \/ AsAsync /\ Async!Read
    \/ AsSync /\ Sync!Read
Decoding ==
    \/ AsAsync /\ Async!Decode
    \/ AsSync /\ Sync!Decode
AtEof ==
    \/ AsAsync /\ Async!Eof
    \/ AsSync /\ Sync!Eof
Closing ==
    \/ AsAsync /\ Async!Close
    \/ AsSync /\ Sync!Close

\* Every step is one of these.
LEMMA NextIs ==
    ASSUME [Next]_vars
    PROVE  \/ Plainly \/ Taking \/ Failing \/ Judging
           \/ Reading \/ Decoding \/ AtEof \/ Closing \/ UNCHANGED vars
  BY DEF Next, AsAsync, AsSync, Async!Next, Sync!Next, Async!Done, Sync!Done, vars,
    Async!vars, Sync!vars, Async!serverVars, Sync!serverVars, Sync!callVars,
    Sync!responseVars,
    Plainly, Taking, Failing, Judging, Reading, Decoding, AtEof, Closing

\* A chunk arrives.
LEMMA ReadIs ==
    ASSUME Reading
    PROVE  /\ pc = "read" /\ pc' = "feed"
           /\ client = "async" => cancel # "pending"
           /\ UNCHANGED <<client, call, now, open, resp, exc, cancel, taken, outcome,
                          reset, streamError, late>>
           /\ \E frames \in Chunks(P, MaxChunk), partial \in BOOLEAN :
                /\ Follows(reader, frames, partial)
                /\ buffer' = buffer \o frames
                /\ reader' = [reader EXCEPT !.partial = partial]
                /\ sent' = sent + Messages(frames)
                /\ finish' = Heard(P, finish, frames, partial)
  BY AsyncValues, SyncValues, AsyncJudges, SyncJudges DEF P,
     Reading, AsAsync, AsSync, Async!Read, Sync!Read, Async!serverVars,
        Sync!serverVars, Sync!callVars, Sync!responseVars, Async!Raise,
        Sync!Raise, Async!Protocol, Sync!Protocol, Async!Resumed

\* The reader has no more frames, or the next is an error, or the reader is told.
LEMMA DecodeIs ==
    ASSUME Decoding
    PROVE  /\ pc = "feed"
           /\ UNCHANGED <<client, call, now, open, resp, cancel, taken, outcome,
                 sent, finish, reset, late>>
           /\ \/ /\ buffer = <<>> \/ reader.ended
                 /\ pc' = IF client = "async" THEN "top" ELSE "read"
                 /\ UNCHANGED <<buffer, reader, exc, streamError>>
              \/ /\ buffer # <<>> /\ ~reader.ended /\ buffer' = Tail(buffer)
                 /\ FrameError(P, Head(buffer)) # NoError
                 /\ exc' = FrameError(P, Head(buffer)) /\ pc' = "close"
                 /\ streamError' = IF client = "async" THEN streamError ELSE exc'
                 /\ UNCHANGED reader
              \/ /\ buffer # <<>> /\ ~reader.ended /\ buffer' = Tail(buffer)
                 /\ FrameError(P, Head(buffer)) = NoError
                 /\ reader' = HandleFrame(P, reader, Head(buffer))
                 /\ pc' = IF reader'.ended THEN "feed" ELSE "yield"
                 /\ UNCHANGED <<exc, streamError>>
  BY AsyncValues, SyncValues, AsyncJudges, SyncJudges DEF P,
     Decoding, AsAsync, AsSync, Async!Decode, Sync!Decode, Async!serverVars,
        Sync!serverVars, Sync!callVars, Sync!responseVars, Async!Raise,
        Sync!Raise, Async!Protocol, Sync!Protocol, Sync!Keep

\* The body ends, in time or not.
LEMMA EofIs ==
    ASSUME AtEof
    PROVE  /\ pc = "read" /\ pc' = "close"
           /\ client = "async" => cancel # "pending"
           /\ UNCHANGED <<client, call, now, cancel, taken, outcome, sent, reset,
                 buffer, reader, streamError>>
           /\ open' = IF client = "async" THEN open ELSE "read"
           /\ late' = IF client = "async" THEN late ELSE Passed(call.deadline)
           /\ \E trailers \in Trailers(P) :
                /\ resp' = [resp EXCEPT !.trailers = trailers]
                /\ finish' = Finish(P, finish, sent, resp')
                /\ exc' = IF client = "sync" /\ Passed(call.deadline) THEN Timeout
                          ELSE AtEnd(P, reader, buffer, resp')
  BY AsyncValues, SyncValues, AsyncJudges, SyncJudges DEF P, Passed,
     AtEof, AsAsync, AsSync, Async!Eof, Sync!Eof, Async!serverVars,
        Sync!serverVars, Sync!callVars, Sync!responseVars, Async!Raise,
        Sync!Raise, Async!Protocol, Sync!Protocol, Async!Resumed, Sync!LateEnd,
        Sync!Passed

\* What is reported of an error that has no name.
Unnamed == IF streamError # NoError THEN streamError ELSE Error("unavailable")

\* The response is closed, and the call's error reported once.
LEMMA CloseIs ==
    ASSUME PlaceInv, Closing
    PROVE  /\ pc = "close" /\ pc' = "ended"
           /\ UNCHANGED <<client, call, now, resp, buffer, reader, cancel,
                 taken, sent, finish, reset, streamError, late>>
           /\ open' \in {open, "closed"} /\ (open = "none" => open' = "none")
           /\ exc' = exc \/ (client = "sync" /\ open = "open" /\ exc' = HttpTimeout)
           /\ outcome # Pending => outcome' = outcome
           /\ outcome = Pending =>
                \/ exc' = exc /\ outcome' = Mapping(exc, Unnamed)
                \/ /\ client = "sync" /\ open = "open"
                   /\ exc' = exc /\ outcome' = Unnamed
                \/ /\ client = "sync" /\ open = "open"
                   /\ exc' = HttpTimeout /\ outcome' = Mapping(HttpTimeout, Unnamed)
  <1>1. CASE client = "async" /\ AsAsync /\ Async!Close
    <2>1. Async!Mapped(exc) = Mapping(exc, Unnamed)
      BY <1>1, AsyncMaps DEF Unnamed, PlaceInv
    <2> QED BY <1>1, <2>1, AsyncValues DEF
        Closing, AsAsync, AsSync, Async!Close, Sync!Close, Async!serverVars,
           Sync!serverVars, Sync!callVars, Sync!responseVars, Async!Report,
           Sync!Report, Async!Raise, Sync!Raise
  <1>2. CASE client = "sync" /\ AsSync /\ Sync!Close
    <2>1. Sync!Mapped(exc) = Mapping(exc, Unnamed)
      BY <1>2, SyncMaps DEF Unnamed, PlaceInv
    <2>2. Sync!Mapped(Other) = Unnamed
      BY SyncMaps, Distinct DEF Unnamed, Mapping
    <2>3. Sync!Mapped(HttpTimeout) = Mapping(HttpTimeout, Unnamed)
      BY SyncMaps, Distinct DEF Unnamed
    <2> QED BY <1>2, <2>1, <2>2, <2>3, SyncValues DEF
        Closing, AsAsync, AsSync, Async!Close, Sync!Close, Async!serverVars,
           Sync!serverVars, Sync!callVars, Sync!responseVars, Async!Report,
           Sync!Report, Async!Raise, Sync!Raise
  <1> QED BY <1>1, <1>2 DEF Closing, AsAsync, AsSync

\* Steps that tell nothing of the response.
LEMMA PlainlyIs ==
    ASSUME Plainly
    PROVE  /\ UNCHANGED <<client, call, resp, buffer, reader, taken, sent, finish,
                 reset, streamError, late>>
           /\ \/ /\ pc = "start" /\ UNCHANGED <<now, open, exc, cancel>>
                 /\ \/ /\ Passed(call.deadline) /\ pc' = "ended"
                       /\ outcome' = IF outcome = Pending
                             THEN Error("deadline_exceeded")
                                     ELSE outcome
                    \/ /\ pc' = IF call.shape = "unary" THEN "post" ELSE "enter"
                       /\ UNCHANGED outcome
              \/ /\ pc = "enter" /\ pc' = "collect" /\ open' = "open"
                 /\ client = "async" => cancel # "pending"
                 /\ UNCHANGED <<now, exc, cancel, outcome>>
              \/ /\ client = "async" /\ pc = "top"
                 /\ UNCHANGED <<now, open, cancel, outcome>>
                 /\ \/ Passed(call.deadline) /\ exc' = Timeout /\ pc' = "close"
                    \/ pc' = "read" /\ UNCHANGED exc
              \/ /\ client = "async" /\ pc = "sleep" /\ pc' = "feed"
                 /\ cancel # "pending"
                 /\ UNCHANGED <<now, open, exc, cancel, outcome>>
              \/ /\ client = "async" /\ pc = "dropped" /\ pc' = "close"
                 /\ exc' = Exit
                 /\ UNCHANGED <<now, open, cancel, outcome>>
              \/ now' = now + 1 /\ UNCHANGED <<pc, open, exc, cancel, outcome>>
              \/ /\ client = "async" /\ cancel = "no" /\ cancel' = "pending"
                 /\ outcome = Pending /\ pc \in Waits \cup {"sleep", "close"}
                 /\ UNCHANGED <<now, pc, open, exc, outcome>>
  BY AsyncValues, SyncValues DEF Waits, Passed,
     Plainly, AsAsync, AsSync, Async!Start, Async!EnterRefused, Async!CheckDeadline,
        Async!Awake, Async!Finalize, Async!Tick, Async!CallerCancels, Sync!Start,
        Sync!EnterRefused, Sync!Tick, Async!serverVars, Sync!serverVars,
        Sync!callVars, Sync!responseVars, Async!Report, Sync!Report, Async!Raise,
        Sync!Raise, Async!Resumed, Async!Passed, Sync!Passed, Async!LateAtTop,
        Async!Suspended, Async!Waiting

\* The consumer takes a message, or stops.
LEMMA TakingIs ==
    ASSUME Taking
    PROVE  /\ pc = "yield"
           /\ UNCHANGED <<client, call, now, open, resp, buffer, reader, cancel,
                 sent, finish, reset, streamError, late>>
           /\ \/ /\ ~(call.shape = "single" /\ taken > 0) /\ taken' = taken + 1
                 /\ pc' = IF client = "async" THEN "sleep" ELSE "feed"
                 /\ UNCHANGED <<outcome, exc>>
              \/ /\ \/ /\ call.shape = "single" /\ taken > 0 /\ taken' = taken + 1
                       /\ outcome' = IF outcome = Pending THEN Error("unimplemented")
                                     ELSE outcome
                    \/ /\ call.shape = "stream" /\ UNCHANGED taken
                       /\ outcome' = IF outcome = Pending THEN Abandoned ELSE outcome
                 /\ \/ client = "async" /\ pc' = "dropped" /\ UNCHANGED exc
                    \/ pc' = "close" /\ exc' = Exit
  BY AsyncValues, SyncValues DEF
     Taking, AsAsync, AsSync, Async!Take, Async!TakeSecond, Async!StopEarly,
        Sync!Take, Sync!StopEarly, Async!serverVars, Sync!serverVars, Sync!callVars,
        Sync!responseVars, Async!Report, Sync!Report, Async!Raise, Sync!Raise,
        Async!Second

\* A wait fails: for another reason, its timeout, a reset or a cancellation.
LEMMA FailingIs ==
    ASSUME Failing
    PROVE  /\ pc' = "close"
           /\ UNCHANGED <<client, call, now, buffer, reader, taken, outcome, sent,
                 finish, streamError, late>>
           /\ \/ /\ pc \in Waits /\ (client = "async" => cancel # "pending")
                 /\ UNCHANGED <<open, cancel>>
                 /\ \/ exc' \in {Other, HttpTimeout} /\ UNCHANGED <<resp, reset>>
                    \/ /\ Passed(call.deadline) /\ exc' = Timeout
                       /\ UNCHANGED <<resp, reset>>
                    \/ /\ pc # "post" /\ exc' = Reset /\ reset' \in ResetCodes
                       /\ \E trailers \in Trailers(P) :
                            resp' = [resp EXCEPT !.trailers = trailers]
              \/ /\ client = "async" /\ pc \in Waits \cup {"sleep", "close"}
                 /\ cancel = "pending" /\ cancel' = "delivered" /\ exc' = Cancelled
                 /\ open' = IF open = "open" /\ pc = "close" THEN "closed" ELSE open
                 /\ UNCHANGED <<resp, reset>>
  BY AsyncValues, SyncValues, AsyncJudges, SyncJudges DEF Waits, Passed, P,
     Failing, AsAsync, AsSync, Async!Fails, Async!TimedOut, Async!Interrupt,
        Async!StreamReset, Sync!Fails, Sync!StreamReset, Async!serverVars,
        Sync!serverVars, Sync!callVars, Sync!responseVars, Async!Raise, Sync!Raise,
        Async!Protocol, Sync!Protocol, Async!Waiting, Sync!Waiting, Async!Suspended,
        Async!Passed, Sync!Passed

\* A response is judged: one of a unary call, headers, or an error's body.
LEMMA JudgingIs ==
    ASSUME Judging
    PROVE  /\ UNCHANGED <<client, call, now, buffer, cancel, outcome, reset,
                 streamError, late>>
           /\ client = "async" => cancel # "pending"
           /\ \/ /\ pc = "post" /\ pc' = "close" /\ UNCHANGED <<open, resp, reader>>
                 /\ \E kind \in UnaryKinds :
                      /\ exc' = UnaryVerdict(kind)
                      /\ taken' = IF UnaryVerdict(kind) = NoError THEN 1 ELSE 0
                      /\ sent' = taken'
                      /\ finish' = IF kind = "good" THEN "ok" ELSE "error"
              \/ /\ pc = "enter" /\ open' = "open"
                 /\ UNCHANGED <<taken, sent, finish>>
                 /\ \E kind \in HeaderKinds, status \in Statuses :
                      /\ resp' = [resp EXCEPT !.headers = status]
                      /\ \/ /\ pc' = IF client = "async" THEN "top" ELSE "read"
                            /\ reader' = NewReader /\ UNCHANGED exc
                         \/ /\ HeaderError(kind) # NoError
                            /\ exc' = HeaderError(kind)
                            /\ pc' = "close" /\ UNCHANGED reader
              \/ /\ pc = "collect" /\ pc' = "close"
                 /\ exc' \in {UnaryVerdict("json_error"), UnaryVerdict("http_error")}
                 /\ finish' = "error" /\ UNCHANGED <<resp, reader, taken, sent>>
                 /\ open' = IF client = "async" THEN open ELSE "read"
  BY AsyncValues, SyncValues, AsyncJudges, SyncJudges DEF
     Judging, AsAsync, AsSync, Async!Post, Async!Collect, Async!EnterResponds,
        Sync!Post, Sync!Collect, Sync!EnterResponds, Async!serverVars,
        Sync!serverVars, Sync!callVars, Sync!responseVars, Async!Raise, Sync!Raise,
        Async!Resumed

-----------------------------------------------------------------------------
\* Types.

\* Where a call is stays typed.
LEMMA CallStep == TypeOK /\ PlaceInv /\ [Next]_vars => CallOK'
  <1> SUFFICES ASSUME TypeOK, PlaceInv, [Next]_vars PROVE CallOK'
    OBVIOUS
  <1> USE DEF TypeOK, CallOK, Pcs, EndPcs, LoopPcs, Waits
  <1>1. CASE Plainly
    BY <1>1, PlainlyIs
  <1>2. CASE Taking
    BY <1>2, TakingIs
  <1>3. CASE Failing
    BY <1>3, FailingIs
  <1>4. CASE Judging
    BY <1>4, JudgingIs
  <1>5. CASE Reading
    <2>1. PICK frames \in Chunks(P, MaxChunk) : sent' = sent + Messages(frames)
      BY <1>5, ReadIs
    <2>2. Messages(frames) \in Nat
      BY ChunksOK, MessagesTyped, ClientAssumption
    <2> QED BY <1>5, <2>1, <2>2, ReadIs
  <1>6. CASE Decoding
    BY <1>6, DecodeIs
  <1>7. CASE AtEof
    BY <1>7, EofIs
    DEF Passed
  <1>8. CASE Closing
    BY <1>8, CloseIs
  <1>9. CASE UNCHANGED vars
    BY <1>9 DEF vars
  <1> QED BY <1>1, <1>2, <1>3, <1>4, <1>5, <1>6, <1>7, <1>8, <1>9, NextIs

\* What arrives is typed.
LEMMA Arrivals ==
    /\ NewReader \in Readers /\ NoReader \in Readers
    /\ \A p : Trailers(p) \subseteq Statuses
    /\ Statuses \subseteq Finishes /\ None \in Finishes
    /\ {"ok", "error"} \subseteq Finishes
  BY DEF NewReader, NoReader, Readers, Trailers, Statuses, Finishes, None

\* What was heard of the response stays typed.
LEMMA ResponseStep == TypeOK /\ PlaceInv /\ [Next]_vars => ResponseOK'
  <1> SUFFICES ASSUME TypeOK, PlaceInv, [Next]_vars PROVE ResponseOK'
    OBVIOUS
  <1> USE DEF TypeOK, CallOK, ResponseOK, P, Calls, Protocols, Resps
  <1>1. CASE Plainly
    BY <1>1, PlainlyIs, Arrivals
  <1>2. CASE Taking
    BY <1>2, TakingIs, Arrivals
  <1>3. CASE Failing
    BY <1>3, FailingIs, Arrivals
  <1>4. CASE Judging
    BY <1>4, JudgingIs, Arrivals
  <1>5. CASE Reading
    <2>1. PICK frames \in Chunks(P, MaxChunk), partial \in BOOLEAN :
             /\ buffer' = buffer \o frames
             /\ reader' = [reader EXCEPT !.partial = partial]
             /\ finish' = Heard(P, finish, frames, partial)
             /\ UNCHANGED <<call, resp, reset>>
      BY <1>5, ReadIs
    <2>2. frames \in Seq(Frames(P)) /\ P \in Protocols
      BY ChunksOK, ClientAssumption
    <2>3. finish' \in Finishes
      BY <2>1, <2>2, HeardOK
    <2>4. reader' \in Readers
      BY <2>1 DEF Readers
    <2>5. buffer' \in Seq(Frames(P'))
      BY <2>1, <2>2
    <2> QED BY <2>1, <2>3, <2>4, <2>5
  <1>6. CASE Decoding
    <2>1. P \in Protocols /\ (buffer # <<>> => Head(buffer) \in Frames(P))
      OBVIOUS
    <2>2. buffer # <<>> => HandleFrame(P, reader, Head(buffer)) \in Readers
      BY <2>1, HandleFrameOK
    <2>3. reader' \in Readers
      BY <1>6, <2>2, DecodeIs
    <2>4. buffer # <<>> => Tail(buffer) \in Seq(Frames(P))
      OBVIOUS
    <2>5. buffer' \in Seq(Frames(P)) /\ call' = call
      BY <1>6, <2>4, DecodeIs
    <2> QED BY <1>6, <2>3, <2>5, DecodeIs
  <1>7. CASE AtEof
    <2>1. PICK trailers \in Trailers(P) :
             /\ resp' = [resp EXCEPT !.trailers = trailers]
             /\ finish' = Finish(P, finish, sent, resp')
             /\ UNCHANGED <<call, buffer, reader, reset>>
      BY <1>7, EofIs
    <2>2. resp' \in Resps
      BY <2>1, Arrivals
    <2>3. finish' \in Finishes
      BY <2>1, <2>2, Arrivals DEF Finish
    <2> QED BY <2>1, <2>2, <2>3
  <1>8. CASE Closing
    BY <1>8, CloseIs, Arrivals
  <1>9. CASE UNCHANGED vars
    BY <1>9 DEF vars
  <1> QED BY <1>1, <1>2, <1>3, <1>4, <1>5, <1>6, <1>7, <1>8, <1>9, NextIs

\* What is judged an error.
LEMMA JudgedKinds ==
    {Error("unknown"), Error("internal"), RemoteError("remote")} \subseteq Judged
  BY DEF Judged, JudgedCodes

\* The outcomes, by what they tell.
LEMMA OutcomeKinds ==
    /\ \A c \in Codes : /\ Error(c) \in Outcomes \ {Pending, Success, Abandoned}
                        /\ RemoteError(c)
                              \in Outcomes \ {Pending, Success, Abandoned}
    /\ {Pending, Success, Abandoned} \subseteq Outcomes /\ Success = NoError
    /\ Success \notin {Pending, Abandoned} /\ Pending # Abandoned
    /\ LocalCodes \subseteq Codes /\ JudgedCodes \subseteq Codes
    /\ {"deadline_exceeded", "canceled", "unavailable", "unimplemented"}
          \subseteq LocalCodes
    /\ "remote" \notin LocalCodes
  BY DEF Outcomes, Codes, LocalCodes, JudgedCodes, Pending, Success, Abandoned,
     Error, RemoteError, NoError, None

\* An exception that is judged is a ConnectError already.
LEMMA JudgedOK ==
    ASSUME NEW e \in Judged
    PROVE  /\ e \in Outcomes \ {Pending, Success, Abandoned}
           /\ e.code \in JudgedCodes /\ (e.details => e.code = "remote")
           /\ e.code \notin {"deadline_exceeded", "canceled"}
  BY DEF Judged, JudgedCodes, Outcomes, Codes, LocalCodes, Pending, Success,
     Abandoned, Error, RemoteError, NoError, None

\* What a closed response's error is mapped to.
LEMMA MappingIs ==
    ASSUME TypeOK, ReaderInv, ExcInv, pc = "close", exc # Exit,
           NEW e \in {exc, Other, HttpTimeout},
           e = exc \/ (client = "sync" /\ open = "open")
    PROVE  LET v == Mapping(e, Unnamed)
           IN  /\ v \in Outcomes \ {Pending, Abandoned}
               /\ v = Success =>
                     exc = NoError /\ ~(call.shape = "single" /\ taken = 0)
               /\ v.code = "deadline_exceeded" =>
                     Passed(call.deadline) \/ e = HttpTimeout
               /\ v.code = "canceled" => cancel = "delivered" \/ reset = "CANCEL"
               /\ v.code = "remote" => finish \in {"error", "garbled"}
               /\ v.details => \/ finish \in {"error", "garbled"}
                               \/ "error" \in {resp.headers, resp.trailers}
               /\ exc = Timeout /\ open # "open" => v = Error("deadline_exceeded")
               /\ e = Cancelled => v = Error("canceled")
               /\ client = "sync" /\ exc.code \in {"invalid_argument", "remote"} =>
                     v = exc \/ e = HttpTimeout
  <1> DEFINE v == Mapping(e, Unnamed)
  <1> USE ExcKinds, OutcomeKinds, Distinct
  <1>1. CASE e = Other
    <2>1. v = Unnamed
      BY <1>1 DEF Mapping
    <2>2. CASE streamError = NoError
      <3>1. v = Error("unavailable")
        BY <2>1, <2>2 DEF Unnamed
      <3>2. exc # Timeout \/ open = "open"
        BY <1>1
      <3>3. client = "sync" /\ exc.code \in {"invalid_argument", "remote"} => FALSE
        BY <1>1, <2>2 DEF ExcInv, EndPcs
      <3> QED BY <1>1, <3>1, <3>2, <3>3
    <2>3. CASE streamError # NoError
      <3>1. exc = streamError /\ exc \in Judged /\ v = exc
        BY <2>1, <2>3 DEF Unnamed, ExcInv, EndPcs, TypeOK, VerdictOK
      <3>2. v.code = "remote" => finish \in {"error", "garbled"}
        BY <3>1 DEF ExcInv, EndPcs
      <3>3. v \in Outcomes \ {Pending, Success, Abandoned} /\
            v \notin {Timeout, Cancelled}
        BY <3>1, JudgedOK
      <3>4. v.code \notin {"deadline_exceeded", "canceled"} /\
            (v.details => v.code = "remote")
        BY <3>1, JudgedOK
      <3> QED BY <1>1, <3>1, <3>2, <3>3, <3>4
    <2> QED BY <2>2, <2>3
  <1>3. CASE e = HttpTimeout
    <2>1. v = Error("deadline_exceeded")
      BY <1>3 DEF Mapping
    <2> QED BY <1>3, <2>1
  <1>2. CASE e \notin {Other, HttpTimeout}
    <2>1. e = exc
      BY <1>2
    <2>2. CASE exc = Timeout
      BY <2>1, <2>2 DEF Mapping, ExcInv, EndPcs
    <2>3. CASE exc = Cancelled
      BY <2>1, <2>3 DEF Mapping, ExcInv, EndPcs
    <2>4. CASE exc = Reset
      <3>1. reset \in ResetCodes /\ P \in Protocols
        BY <2>4 DEF ExcInv, EndPcs, TypeOK, CallOK, ResponseOK, P, Calls
      <3>2. Passed(call.deadline) \in BOOLEAN
        BY DEF Passed
      <3>3. v = AfterReset(P, reader, resp, MapReset(reset, Passed(call.deadline)))
        BY <2>1, <2>4 DEF Mapping
      <3>4. /\ \E c \in LocalCodes : v \in {Error(c), RemoteError(c)}
            /\ v.code = "deadline_exceeded" => Passed(call.deadline)
            /\ v.code = "canceled" => reset = "CANCEL"
            /\ v.details =>
                 "error" \in {resp.headers, IF P = "web" THEN reader.trailers
                     ELSE resp.trailers}
        BY <3>1, <3>2, <3>3, AfterResetIs DEF TypeOK, ResponseOK
      <3>5. v.details => \/ finish \in {"error", "garbled"}
                         \/ "error" \in {resp.headers, resp.trailers}
        BY <3>4 DEF ReaderInv
      <3>6. PICK c \in LocalCodes : v \in {Error(c), RemoteError(c)}
        BY <3>4
      <3>7. v.code = c /\ v \in Outcomes \ {Pending, Success, Abandoned}
        BY <3>6
      <3>8. v.code # "remote"
        BY <3>7
      <3> QED BY <2>1, <2>4, <3>4, <3>5, <3>7, <3>8
    <2>5. CASE exc = NoError
      BY <2>1, <2>5 DEF Mapping
    <2>6. CASE exc \in Judged
      <3>1. v = exc /\ exc \notin {Timeout, Cancelled, NoError}
        BY <2>1, <2>6 DEF Mapping
      <3>2. v.code = "remote" => finish \in {"error", "garbled"}
        BY <3>1 DEF ExcInv, EndPcs
      <3>3. v \in Outcomes \ {Pending, Success, Abandoned}
        BY <2>6, <3>1, JudgedOK
      <3>4. v.code \notin {"deadline_exceeded", "canceled"} /\
            (v.details => v.code = "remote")
        BY <2>6, <3>1, JudgedOK
      <3> QED BY <2>1, <3>1, <3>2, <3>3, <3>4
    <2> QED BY <1>2, <2>1, <2>2, <2>3, <2>4, <2>5, <2>6 DEF TypeOK, VerdictOK, Excs
  <1> QED BY <1>1, <1>2, <1>3

\* What is raised and reported stays typed.
LEMMA VerdictStep ==
    TypeOK /\ PlaceInv /\ ReaderInv /\ CancelInv /\ ExcInv /\ [Next]_vars
    => VerdictOK'
  <1> SUFFICES ASSUME TypeOK, PlaceInv, ReaderInv, CancelInv, ExcInv, [Next]_vars
               PROVE VerdictOK'
    OBVIOUS
  <1> USE DEF TypeOK, CallOK, ResponseOK, VerdictOK, Excs
  <1>1. CASE Plainly
    BY <1>1, PlainlyIs, OutcomeKinds
  <1>2. CASE Taking
    BY <1>2, TakingIs, OutcomeKinds
  <1>3. CASE Failing
    BY <1>3, FailingIs, OutcomeKinds
  <1>4. CASE Judging
    <2>1. \A kind \in UnaryKinds : UnaryVerdict(kind) \in Judged \cup {NoError}
      BY UnaryVerdictIs
    <2>2. \A kind : HeaderError(kind) \in Judged \cup {NoError}
      BY HeaderErrorIs, JudgedKinds
    <2>3. {"json_error", "http_error"} \subseteq UnaryKinds
      BY DEF UnaryKinds
    <2> QED BY <1>4, <2>1, <2>2, <2>3, JudgingIs
  <1>5. CASE Reading
    BY <1>5, ReadIs, OutcomeKinds
  <1>6. CASE Decoding
    <2>1. P \in Protocols /\ (buffer # <<>> => Head(buffer) \in Frames(P))
      BY DEF P, Calls
    <2>2. buffer # <<>> => FrameError(P, Head(buffer)) \in Judged \cup {NoError}
      BY <2>1, FrameErrorOK
    <2> QED BY <1>6, <2>2, DecodeIs
  <1>7. CASE AtEof
    <2>1. resp' \in Resps
      BY ResponseStep DEF ResponseOK
    <2>2. P \in Protocols
      BY DEF P, Calls
    <2>3. AtEnd(P, reader, buffer, resp')
          \in {NoError, Error("internal"), RemoteError("remote")}
      BY <2>1, <2>2, AtEndIs
    <2> QED BY <1>7, <2>3, JudgedKinds, EofIs
  <1>8. CASE Closing
    <2>1. outcome = Pending => exc # Exit
      BY <1>8, CloseIs DEF ExcInv, EndPcs
    <2>2. Unnamed = Mapping(Other, Unnamed)
      BY Distinct DEF Mapping
    <2>3. exc # Exit =>
            /\ Mapping(exc, Unnamed) \in Outcomes
            /\ client = "sync" /\ open = "open" =>
                  /\ Mapping(Other, Unnamed) \in Outcomes
                  /\ Mapping(HttpTimeout, Unnamed) \in Outcomes
      BY <1>8, CloseIs, MappingIs
    <2> QED BY <1>8, <2>1, <2>2, <2>3, CloseIs
  <1>9. CASE UNCHANGED vars
    BY <1>9 DEF vars
  <1> QED BY <1>1, <1>2, <1>3, <1>4, <1>5, <1>6, <1>7, <1>8, <1>9, NextIs

-----------------------------------------------------------------------------
\* Places, the pending outcome and cancellation.

\* What is judged is none of the exceptions the client handles itself.
LEMMA JudgedApart ==
    /\ \A kind \in UnaryKinds : UnaryVerdict(kind)
          \notin {Timeout, HttpTimeout, Cancelled, Reset, Other, Exit}
    /\ \A kind : HeaderError(kind)
          \notin {Timeout, HttpTimeout, Cancelled, Reset, Other, Exit}
    /\ {"json_error", "http_error"} \subseteq UnaryKinds
  <1>1. \A kind \in UnaryKinds : UnaryVerdict(kind) \in Judged \cup {NoError}
    BY UnaryVerdictIs
  <1>2. \A kind : HeaderError(kind) \in Judged \cup {NoError}
    BY HeaderErrorIs, JudgedKinds
  <1> QED BY <1>1, <1>2, ExcKinds, Distinct DEF UnaryKinds

\* The next frame that the reader decodes, and what becomes of it.
LEMMA NextFrame ==
    ASSUME TypeOK, buffer # <<>>
    PROVE  /\ P \in Protocols /\ Head(buffer) \in Frames(P)
           /\ FrameError(P, Head(buffer)) \in Judged \cup {NoError}
           /\ FrameError(P, Head(buffer)).code
                 \in {"none", "invalid_argument", "remote"}
           /\ FrameError(P, Head(buffer)) = NoError <=>
                Head(buffer) # "bad" /\
                    ~(P = "connect" /\ Head(buffer) = "end_error")
           /\ FrameError(P, Head(buffer)).code = "remote" <=>
                P = "connect" /\ Head(buffer) = "end_error"
           /\ HandleFrame(P, reader, Head(buffer)) \in Readers
           /\ HandleFrame(P, reader, Head(buffer)) =
                [made |-> reader.made, partial |-> reader.partial,
                 ended |-> IF P = "grpc" THEN reader.ended
                     ELSE Head(buffer) # "message",
                 read |-> IF P = "connect" THEN reader.read ELSE TRUE,
                 trailers |-> IF P = "web" THEN EndStatus(Head(buffer))
                     ELSE reader.trailers]
  <1>1. P \in Protocols /\ Head(buffer) \in Frames(P) /\ reader \in Readers
    BY DEF TypeOK, CallOK, ResponseOK, P, Calls
  <1>2. /\ FrameError(P, Head(buffer)) \in Judged \cup {NoError}
        /\ FrameError(P, Head(buffer)).code
              \in {"none", "invalid_argument", "remote"}
        /\ FrameError(P, Head(buffer)) = NoError <=>
             Head(buffer) # "bad" /\ ~(P = "connect" /\ Head(buffer) = "end_error")
        /\ FrameError(P, Head(buffer)).code = "remote" <=>
             P = "connect" /\ Head(buffer) = "end_error"
    BY <1>1, FrameErrorOK
  <1> QED BY <1>1, <1>2, HandleFrameOK

\* What belongs to each place of the code, and to each client.
LEMMA PlaceStep == TypeOK /\ PlaceInv /\ [Next]_vars => PlaceInv'
  <1> SUFFICES ASSUME TypeOK, PlaceInv, [Next]_vars PROVE PlaceInv'
    OBVIOUS
  <1> USE DEF TypeOK, CallOK, ResponseOK, VerdictOK, PlaceInv, P, Calls,
     Protocols, LoopPcs, EndPcs, Pcs, Waits, InLoop
  <1>1. CASE Plainly
    BY <1>1, PlainlyIs, Distinct, ExcKinds, JudgedApart
  <1>2. CASE Taking
    BY <1>2, TakingIs, Distinct, ExcKinds, JudgedApart
  <1>3. CASE Failing
    BY <1>3, FailingIs, Distinct, ExcKinds, JudgedApart
    DEF Trailers, Resps
  <1>4. CASE Judging
    BY <1>4, JudgingIs, Distinct, ExcKinds, JudgedApart, Arrivals
    DEF Resps
  <1>5. CASE Reading
    BY <1>5, ReadIs, Distinct, ExcKinds, JudgedApart
  <1>6. CASE Decoding
    <2>1. buffer # <<>> =>
            /\ FrameError(P, Head(buffer)) \in Judged \cup {NoError}
            /\ HandleFrame(P, reader, Head(buffer)).partial = reader.partial
      BY NextFrame
    <2> QED BY <1>6, <2>1, DecodeIs, Distinct, ExcKinds
  <1>7. CASE AtEof
    <2>1. resp' \in Resps
      BY <1>7, ResponseStep DEF Closing
    <2>2. AtEnd(P, reader, buffer, resp')
          \in {NoError, Error("internal"), RemoteError("remote")}
      BY <2>1, AtEndIs
    <2>3. AtEnd(P, reader, buffer, resp') # Cancelled
      BY <2>2, JudgedKinds, Distinct, ExcKinds
    <2>4. resp'.trailers # None => P = "grpc"
      BY <1>7, EofIs DEF Trailers, Resps
    <2>5. client = "async" => ~late'
      BY <1>7, EofIs
    <2> QED BY <1>7, <2>3, <2>4, <2>5, EofIs, Distinct
  <1>8. CASE Closing
    BY <1>8, CloseIs, Distinct, ExcKinds, JudgedApart
  <1>9. CASE UNCHANGED vars
    BY <1>9 DEF vars
  <1> QED BY <1>1, <1>2, <1>3, <1>4, <1>5, <1>6, <1>7, <1>8, <1>9, NextIs

\* A call has no outcome before its end, unless its consumer has left.
LEMMA PendingStep ==
    TypeOK /\ PlaceInv /\ ReaderInv /\ ExcInv /\ PendingInv /\ CancelInv /\
        [Next]_vars
    => PendingInv'
  <1> SUFFICES ASSUME TypeOK, PlaceInv, ReaderInv, ExcInv, PendingInv, CancelInv,
               [Next]_vars PROVE PendingInv'
    OBVIOUS
  <1> USE DEF TypeOK, PlaceInv, PendingInv, CancelInv, EndPcs, LoopPcs, Waits
  <1>1. CASE Plainly
    BY <1>1, PlainlyIs, OutcomeKinds
  <1>2. CASE Taking
    BY <1>2, TakingIs, OutcomeKinds
  <1>3. CASE Failing
    BY <1>3, FailingIs, OutcomeKinds
  <1>4. CASE Judging
    BY <1>4, JudgingIs, OutcomeKinds
  <1>5. CASE Reading
    BY <1>5, ReadIs, OutcomeKinds
  <1>6. CASE Decoding
    BY <1>6, DecodeIs, OutcomeKinds
  <1>7. CASE AtEof
    BY <1>7, EofIs, OutcomeKinds
  <1>8. CASE Closing
    <2>1. outcome = Pending => exc # Exit
      BY <1>8, CloseIs DEF ExcInv
    <2>2. Unnamed = Mapping(Other, Unnamed)
      BY Distinct DEF Mapping
    <2>3. exc # Exit =>
            /\ Mapping(exc, Unnamed) # Pending
            /\ client = "sync" /\ open = "open" =>
                  Pending \notin {Mapping(Other, Unnamed),
                                  Mapping(HttpTimeout, Unnamed)}
      BY <1>8, CloseIs, MappingIs
    <2> QED BY <1>8, <2>1, <2>2, <2>3, CloseIs
  <1>9. CASE UNCHANGED vars
    BY <1>9 DEF vars
  <1> QED BY <1>1, <1>2, <1>3, <1>4, <1>5, <1>6, <1>7, <1>8, <1>9, NextIs

\* A cancellation finds a call that waits, and ends it.
LEMMA CancelStep ==
    TypeOK /\ PlaceInv /\ PendingInv /\ CancelInv /\ [Next]_vars
    => CancelInv'
  <1> SUFFICES ASSUME TypeOK, PlaceInv, PendingInv, CancelInv, [Next]_vars
               PROVE CancelInv'
    OBVIOUS
  <1> USE DEF TypeOK, CallOK, PlaceInv, PendingInv, CancelInv, EndPcs, LoopPcs,
     Waits
  <1>1. CASE Plainly
    BY <1>1, PlainlyIs, OutcomeKinds
  <1>2. CASE Taking
    BY <1>2, TakingIs, OutcomeKinds
  <1>3. CASE Failing
    BY <1>3, FailingIs, OutcomeKinds
  <1>4. CASE Judging
    BY <1>4, JudgingIs, OutcomeKinds
  <1>5. CASE Reading
    BY <1>5, ReadIs, OutcomeKinds
  <1>6. CASE Decoding
    BY <1>6, DecodeIs, OutcomeKinds
  <1>7. CASE AtEof
    BY <1>7, EofIs, OutcomeKinds
  <1>8. CASE Closing
    BY <1>8, CloseIs, OutcomeKinds
  <1>9. CASE UNCHANGED vars
    BY <1>9 DEF vars
  <1> QED BY <1>1, <1>2, <1>3, <1>4, <1>5, <1>6, <1>7, <1>8, <1>9, NextIs

-----------------------------------------------------------------------------
\* The reading loop.

\* A response of which nothing was heard has not ended.
LEMMA HeardNothing ==
    ASSUME NEW p, NEW partial \in BOOLEAN
    PROVE  Heard(p, None, <<>>, partial) = None
  <1>1. Len(<<>>) = 0 /\ ~\E i \in 1..0 - 1 : <<>>[i] \in EndFrames(p)
    OBVIOUS
  <1> QED BY <1>1 DEF Heard

\* And it has no message.
LEMMA MessagesNone == Messages(<<>>) = 0
  BY MessagesTyped, EmptySeq

\* Nothing is left of two parts only if both are empty.
LEMMA NothingLeft ==
    ASSUME NEW S, NEW s \in Seq(S), NEW t \in Seq(S)
    PROVE  /\ s \o t = <<>> => s = <<>> /\ t = <<>>
           /\ s = <<>> => s \o t = t
  <1>1. s \o t = <<>> => Len(s) + Len(t) = 0
    OBVIOUS
  <1>2. Len(s) \in Nat /\ Len(t) \in Nat /\ (Len(s) = 0 => s = <<>>) /\
        (Len(t) = 0 => t = <<>>)
    BY EmptySeq
  <1> QED BY <1>1, <1>2

\* A tail is typed as the sequence is.
LEMMA TailTyped ==
    ASSUME NEW S, NEW s \in Seq(S), s # <<>>
    PROVE  Tail(s) \in Seq(S) /\ Head(s) \in S
  OBVIOUS

\* What a chunk adds to what the client has heard.
LEMMA ReadTells ==
    ASSUME TypeOK, PlaceInv, LoopInv, ReaderInv, Reading
    PROVE  /\ InLoop /\ reader'.ended = reader.ended /\ reader'.read = reader.read
           /\ reader'.trailers = reader.trailers /\ reader'.partial \in BOOLEAN
           /\ ~reader.ended =>
                /\ finish' = Heard(P, None, buffer', reader'.partial)
                /\ sent' = taken + Messages(buffer')
           /\ reader.ended =>
                /\ finish' \in {finish, "garbled"}
                /\ buffer' = <<>> => buffer = <<>> /\ sent' = taken
                /\ buffer' = <<>> /\ ~reader'.partial =>
                      finish' = finish /\ ~reader.partial
  <1>1. PICK frames \in Chunks(P, MaxChunk), partial \in BOOLEAN :
           /\ Follows(reader, frames, partial)
           /\ buffer' = buffer \o frames
           /\ reader' = [reader EXCEPT !.partial = partial]
           /\ sent' = sent + Messages(frames)
           /\ finish' = Heard(P, finish, frames, partial)
    BY ReadIs
  <1>2. pc = "read" /\ InLoop
    BY ReadIs DEF InLoop, LoopPcs
  <1>3. /\ P \in Protocols /\ frames \in Seq(Frames(P)) /\ buffer \in Seq(Frames(P))
        /\ sent \in Nat /\ taken \in Nat /\ finish \in Finishes
    BY ChunksOK, ClientAssumption DEF TypeOK, CallOK, ResponseOK, P, Calls
  <1>4. /\ reader'.ended = reader.ended /\ reader'.read = reader.read
        /\ reader'.trailers = reader.trailers /\ reader'.partial = partial
        /\ reader.partial \in BOOLEAN /\ reader.ended \in BOOLEAN
    BY <1>1 DEF TypeOK, ResponseOK, Readers
  <1>5. Messages(<<>>) = 0 /\ Messages(frames) \in Nat
    BY <1>3, MessagesNone, MessagesTyped
  <1>6. CASE ~reader.ended
    <2>1. buffer = <<>>
      BY <1>2, <1>6 DEF LoopInv
    <2>2. buffer' = frames
      BY <1>1, <1>3, <2>1, NothingLeft
    <2>3. finish = None
      BY <1>2, <1>4, <1>6, <2>1, HeardNothing DEF LoopInv
    <2>4. sent = taken
      BY <1>2, <1>3, <1>5, <1>6, <2>1 DEF LoopInv
    <2> QED BY <1>1, <1>2, <1>3, <1>4, <1>5, <1>6, <2>2, <2>3, <2>4
  <1>7. CASE reader.ended
    <2>1. finish # None
      BY <1>2, <1>7 DEF ReaderInv
    <2>2. finish' \in {finish, "garbled"}
      BY <1>1, <1>3, <2>1, HeardOK
    <2>3. buffer' = <<>> => buffer = <<>> /\ frames = <<>>
      BY <1>1, <1>3, NothingLeft
    <2>4. buffer' = <<>> => sent' = taken
      <3>1. buffer = <<>> => sent = taken
        BY <1>2, <1>3, <1>5 DEF LoopInv
      <3> QED BY <1>1, <1>3, <1>5, <2>3, <3>1
    <2>5. frames = <<>> /\ ~partial => finish' = finish
      BY <1>1, <1>3, HeardOK
    <2>6. frames = <<>> /\ ~partial => ~reader.partial
      BY <1>1 DEF Follows
    <2> QED BY <1>1, <1>2, <1>4, <1>7, <2>2, <2>3, <2>4, <2>5, <2>6
  <1> QED BY <1>6, <1>7

\* The readers of gRPC note that they were told.
LEMMA NextRead ==
    ASSUME TypeOK, buffer # <<>>, P # "connect",
           reader' = HandleFrame(P, reader, Head(buffer))
    PROVE  reader'.read
  <1>1. reader' = [made |-> reader.made, partial |-> reader.partial,
                   ended |-> IF P = "grpc" THEN reader.ended
                       ELSE Head(buffer) # "message",
                   read |-> IF P = "connect" THEN reader.read ELSE TRUE,
                   trailers |-> IF P = "web" THEN EndStatus(Head(buffer))
                                ELSE reader.trailers]
    BY NextFrame
  <1> QED BY <1>1

\* What a frame that is no error tells the reader.
LEMMA DecodeTells ==
    ASSUME TypeOK, PlaceInv, LoopInv, ReaderInv, pc = "feed",
           buffer # <<>>, ~reader.ended,
           FrameError(P, Head(buffer)) = NoError,
           reader' = HandleFrame(P, reader, Head(buffer))
    PROVE  /\ reader'.ended <=> Head(buffer) # "message"
           /\ (P # "connect" => reader'.read)
           /\ (P = "connect" => reader'.read = reader.read)
           /\ reader'.partial = reader.partial
           /\ ~reader'.ended =>
                /\ finish = Heard(P, None, Tail(buffer), reader.partial)
                /\ sent = taken + Messages(Tail(buffer)) + 1
                /\ reader'.trailers = reader.trailers
           /\ reader'.ended =>
                /\ sent = taken + Messages(Tail(buffer)) /\ finish # None
                /\ P # "grpc"
                /\ reader'.trailers = IF P = "web" THEN EndStatus(Head(buffer))
                      ELSE None
                /\ reader'.trailers = "error" => finish \in {"error", "garbled"}
                /\ Tail(buffer) = <<>> /\ ~reader.partial =>
                     finish = IF P = "connect" THEN "ok"
                              ELSE IF reader'.trailers = None THEN "nostatus"
                              ELSE reader'.trailers
  <1> DEFINE f == Head(buffer)
  <1>1. InLoop /\ buffer \in Seq(Frames(P)) /\ sent \in Nat /\ taken \in Nat
        /\ reader.partial \in BOOLEAN /\ reader.ended = FALSE
        /\ reader.read \in BOOLEAN
    BY DEF InLoop, LoopPcs, TypeOK, CallOK, ResponseOK, Readers
  <1>2. /\ P \in Protocols /\ f \in Frames(P) /\ f # "bad"
        /\ ~(P = "connect" /\ f = "end_error")
    BY NextFrame
  <1>3. /\ reader'.ended = IF P = "grpc" THEN FALSE ELSE f # "message"
        /\ (P # "connect" => reader'.read)
        /\ (P = "connect" => reader'.read = reader.read)
        /\ reader'.partial = reader.partial
        /\ reader'.trailers = IF P = "web" THEN EndStatus(f) ELSE reader.trailers
    <2>1. reader' = [made |-> reader.made, partial |-> reader.partial,
                     ended |-> IF P = "grpc" THEN reader.ended ELSE f # "message",
                     read |-> IF P = "connect" THEN reader.read ELSE TRUE,
                     trailers |-> IF P = "web" THEN EndStatus(f)
                         ELSE reader.trailers]
      BY NextFrame
    <2>2. reader'.ended = IF P = "grpc" THEN reader.ended ELSE f # "message"
      BY <2>1
    <2>3. (P # "connect" => reader'.read) /\
          (P = "connect" => reader'.read = reader.read)
      <3>1. P = "connect" => reader'.read = reader.read
        BY <1>1, <2>1
      <3>2. P # "connect" => reader'.read
        BY NextRead
      <3> QED BY <3>1, <3>2
    <2>4. reader'.partial = reader.partial
      BY <2>1
    <2>5. reader'.trailers = IF P = "web" THEN EndStatus(f) ELSE reader.trailers
      BY <2>1
    <2> QED BY <1>1, <2>2, <2>3, <2>4, <2>5
  <1>4. /\ sent = taken + Messages(Tail(buffer)) + (IF f = "message" THEN 1 ELSE 0)
        /\ Messages(Tail(buffer)) \in Nat
    <2>1. sent = taken + Messages(buffer)
      BY <1>1, MessagesTyped DEF LoopInv
    <2>2. Tail(buffer) \in Seq(Frames(P))
      BY <1>1
    <2>3. Messages(buffer) = Messages(Tail(buffer)) + (IF f = "message"
                                                   THEN 1 ELSE 0)
      BY <1>1, MessagesHead
    <2>4. Messages(Tail(buffer)) \in Nat
      BY <2>2, MessagesTyped
    <2> QED BY <1>1, <2>1, <2>3, <2>4
  <1>5. finish = IF f \notin EndFrames(P)
        THEN Heard(P, None, Tail(buffer), reader.partial)
                 ELSE IF Tail(buffer) # <<>> \/ reader.partial THEN "garbled"
                 ELSE IF EndStatus(f) = None THEN "nostatus" ELSE EndStatus(f)
    BY <1>1, <1>2, HeardHead DEF LoopInv
  <1>6. /\ f \in EndFrames(P) <=> f # "message"
        /\ P = "grpc" => f = "message"
        /\ P = "connect" /\ f # "message" => f = "end_ok"
        /\ EndStatus(f) \in {"ok", "error", "none"} /\ EndStatus("end_ok") = "ok"
        /\ f = "message" => EndStatus(f) = "none"
    BY <1>2, FrameKinds, EndStatusIs DEF Protocols
  <1>7. reader.trailers = None
    BY <1>1 DEF ReaderInv
  <1> HIDE DEF f
  <1>8. CASE f = "message"
    <2>1. reader'.ended = FALSE
      BY <1>3, <1>8
    <2>2. reader'.trailers = reader.trailers
      BY <1>3, <1>6, <1>7, <1>8 DEF None
    <2> QED BY <1>1, <1>3, <1>4, <1>5, <1>6, <1>8, <2>1, <2>2 DEF f
  <1>9. CASE f # "message"
    <2>1. reader'.ended = TRUE /\ P # "grpc"
      BY <1>3, <1>6, <1>9
    <2>2. finish # None
      BY <1>5, <1>6, <1>9 DEF None
    <2>3. reader'.trailers = IF P = "web" THEN EndStatus(f) ELSE None
      BY <1>3, <1>7
    <2>4. reader'.trailers = "error" => finish \in {"error", "garbled"}
      BY <1>5, <1>6, <1>9, <2>3 DEF None
    <2>5. Tail(buffer) = <<>> /\ ~reader.partial =>
            finish = IF P = "connect" THEN "ok"
                     ELSE IF reader'.trailers = None THEN "nostatus"
                     ELSE reader'.trailers
      BY <1>2, <1>5, <1>6, <1>9, <2>1, <2>3 DEF None, Protocols
    <2>6. sent = taken + Messages(Tail(buffer))
      BY <1>1, <1>4, <1>9
    <2> QED BY <1>3, <1>9, <2>1, <2>2, <2>3, <2>4, <2>5, <2>6 DEF f
  <1> QED BY <1>8, <1>9

\* The loop's books: what arrived is taken, decoded or still to be decoded.
LEMMA LoopStep ==
    TypeOK /\ PlaceInv /\ LoopInv /\ ReaderInv /\ [Next]_vars
    => LoopInv'
  <1> SUFFICES ASSUME TypeOK, PlaceInv, LoopInv, ReaderInv, [Next]_vars
               PROVE LoopInv'
    OBVIOUS
  <1> USE DEF InLoop, LoopPcs, LoopInv, PlaceInv, TypeOK, CallOK, P
  <1>1. CASE Plainly
    BY <1>1, PlainlyIs
  <1>2. CASE Taking
    <2>1. buffer \in Seq(Frames(P))
      BY DEF ResponseOK
    <2>2. Messages(buffer) \in Nat
      BY <2>1, MessagesTyped
    <2> QED BY <1>2, <2>2, TakingIs
  <1>3. CASE Failing
    BY <1>3, FailingIs
  <1>4. CASE Judging
    <2>1. InLoop' => /\ pc = "enter" /\ reader' = NewReader /\ buffer' = <<>>
                     /\ UNCHANGED <<call, taken, sent, finish>> /\ pc' # "yield"
      BY <1>4, JudgingIs
    <2>2. ~NewReader.partial /\ Messages(<<>>) = 0 /\ ~NewReader.ended
      BY MessagesNone DEF NewReader
    <2>3. Heard(P, None, <<>>, FALSE) = None
      BY HeardNothing
    <2>4. NewReader.partial = FALSE
      BY DEF NewReader
    <2>5. InLoop' => sent' = taken' + 0 + 0 /\ finish' = None
      BY <2>1
    <2> QED BY <2>1, <2>2, <2>3, <2>4, <2>5
  <1>5. CASE Reading
    <2>1. UNCHANGED <<call, taken>> /\ pc' = "feed"
      BY <1>5, ReadIs
    <2>2. /\ reader'.ended = reader.ended /\ Messages(<<>>) = 0
          /\ ~reader.ended => /\ finish' = Heard(P, None, buffer', reader'.partial)
                              /\ sent' = taken + Messages(buffer')
          /\ reader.ended /\ buffer' = <<>> => sent' = taken
      BY <1>5, ReadTells, MessagesNone
    <2>3. ~reader'.ended \/ buffer' = <<>> => sent' = taken' + Messages(buffer')
      BY <2>1, <2>2
    <2>4. buffer' \in Seq(Frames(call'.protocol)) /\ taken \in Nat
      BY ResponseStep DEF ResponseOK
    <2>5. Messages(buffer') \in Nat
      BY <2>4, MessagesTyped
    <2>6. ~reader'.ended \/ buffer' = <<>> => sent' = taken' + Messages(buffer') + 0
      BY <2>1, <2>3, <2>4, <2>5
    <2> QED BY <2>1, <2>2, <2>6
  <1>6. CASE Decoding
    <2>1. CASE buffer = <<>> \/ reader.ended
      BY <1>6, <2>1, DecodeIs
    <2>2. CASE buffer # <<>> /\ ~reader.ended
      <3>1. Messages(Tail(buffer)) \in Nat
        BY <2>2, TailTyped, MessagesTyped DEF ResponseOK
      <3>2. CASE FrameError(P, Head(buffer)) # NoError
        BY <1>6, <2>2, <3>2, DecodeIs
      <3>3. CASE FrameError(P, Head(buffer)) = NoError
        <4>1. /\ pc = "feed" /\ UNCHANGED <<call, taken, sent, finish>>
              /\ buffer' = Tail(buffer)
              /\ reader' = HandleFrame(P, reader, Head(buffer))
              /\ pc' = IF reader'.ended THEN "feed" ELSE "yield"
          BY <1>6, <2>2, <3>3, DecodeIs
        <4>2. /\ reader'.partial = reader.partial
              /\ ~reader'.ended =>
                   /\ finish = Heard(P, None, Tail(buffer), reader.partial)
                   /\ sent = taken + Messages(Tail(buffer)) + 1
              /\ reader'.ended => sent = taken + Messages(Tail(buffer))
          BY <2>2, <3>3, <4>1, DecodeTells
        <4>3. CASE reader'.ended
          BY <3>1, <4>1, <4>2, <4>3
        <4>4. CASE ~reader'.ended
          BY <3>1, <4>1, <4>2, <4>4
        <4> QED BY <4>3, <4>4
      <3> QED BY <3>2, <3>3
    <2> QED BY <2>1, <2>2
  <1>7. CASE AtEof
    BY <1>7, EofIs
  <1>8. CASE Closing
    BY <1>8, CloseIs
  <1>9. CASE UNCHANGED vars
    BY <1>9 DEF vars
  <1> QED BY <1>1, <1>2, <1>3, <1>4, <1>5, <1>6, <1>7, <1>8, <1>9, NextIs

\* What the reader has noted is what the response said.
LEMMA ReaderStep ==
    TypeOK /\ PlaceInv /\ LoopInv /\ ReaderInv /\ [Next]_vars
    => ReaderInv'
  <1> SUFFICES ASSUME TypeOK, PlaceInv, LoopInv, ReaderInv, [Next]_vars
               PROVE ReaderInv'
    OBVIOUS
  <1> USE DEF InLoop, LoopPcs, EndPcs, ReaderInv, PlaceInv, TypeOK, CallOK, P,
     Calls
  <1>1. CASE Plainly
    BY <1>1, PlainlyIs
  <1>2. CASE Taking
    BY <1>2, TakingIs
  <1>3. CASE Failing
    BY <1>3, FailingIs
  <1>4. CASE Judging
    <2>1. /\ NewReader.trailers = None /\ ~NewReader.ended /\ ~NewReader.read
          /\ NoReader.trailers = None /\ ~NoReader.ended /\ ~NoReader.read
      BY DEF NewReader, NoReader
    <2>2. CASE pc = "post"
      <3>1. reader = NoReader /\ P = "connect"
        BY <2>2
      <3>2. reader' = reader /\ P' = P /\ pc' = "close"
        BY <1>4, <2>2, JudgingIs
      <3> QED BY <2>1, <3>1, <3>2 DEF None
    <2>3. CASE pc = "enter"
      <3>1. /\ UNCHANGED <<call, taken, finish>> /\ taken = 0
            /\ pc' \in {"top", "read", "close"}
            /\ reader' \in {reader, NewReader} /\ reader = NoReader
        BY <1>4, <2>3, JudgingIs
      <3> QED BY <2>1, <3>1 DEF None
    <2>4. CASE pc = "collect"
      <3>1. UNCHANGED <<call, taken, reader>> /\ taken = 0 /\ reader = NoReader /\
            pc' = "close"
        BY <1>4, <2>4, JudgingIs
      <3> QED BY <2>1, <3>1 DEF None
    <2> QED BY <1>4, <2>2, <2>3, <2>4, JudgingIs
  <1>5. CASE Reading
    <2>1. /\ reader'.ended = reader.ended /\ reader'.read = reader.read
          /\ reader'.trailers = reader.trailers
          /\ reader.ended =>
               /\ finish' \in {finish, "garbled"}
               /\ buffer' = <<>> => buffer = <<>>
               /\ buffer' = <<>> /\ ~reader'.partial =>
                     finish' = finish /\ ~reader.partial
      BY <1>5, ReadTells
    <2>2. /\ UNCHANGED <<call, taken>> /\ pc = "read" /\ pc' = "feed"
      BY <1>5, ReadIs
    <2>3. "garbled" # None
      BY DEF None
    <2> QED BY <2>1, <2>2, <2>3 DEF None
  <1>6. CASE Decoding
    <2>1. CASE buffer = <<>> \/ reader.ended
      BY <1>6, <2>1, DecodeIs
    <2>2. CASE buffer # <<>> /\ ~reader.ended
      <3>2. CASE FrameError(P, Head(buffer)) # NoError
        BY <1>6, <2>2, <3>2, DecodeIs
      <3>3. CASE FrameError(P, Head(buffer)) = NoError
        <4>1. /\ pc = "feed" /\ UNCHANGED <<call, taken, sent, finish>>
              /\ buffer' = Tail(buffer)
              /\ reader' = HandleFrame(P, reader, Head(buffer))
              /\ pc' = IF reader'.ended THEN "feed" ELSE "yield"
          BY <1>6, <2>2, <3>3, DecodeIs
        <4>2. /\ reader'.partial = reader.partial
              /\ (P # "connect" => reader'.read)
              /\ (P = "connect" => reader'.read = reader.read)
              /\ ~reader'.ended => reader'.trailers = reader.trailers
              /\ reader'.ended =>
                   /\ finish # None /\ P # "grpc"
                   /\ reader'.trailers = IF P = "web" THEN EndStatus(Head(buffer))
                         ELSE None
                   /\ reader'.trailers = "error" => finish \in {"error", "garbled"}
                   /\ Tail(buffer) = <<>> /\ ~reader.partial =>
                        finish = IF P = "connect" THEN "ok"
                                 ELSE IF reader'.trailers = None THEN "nostatus"
                                 ELSE reader'.trailers
          BY <2>2, <3>3, <4>1, DecodeTells
        <4>3. CASE reader'.ended
          BY <4>1, <4>2, <4>3
        <4>4. CASE ~reader'.ended
          BY <2>2, <4>1, <4>2, <4>4
        <4> QED BY <4>3, <4>4
      <3> QED BY <3>2, <3>3
    <2> QED BY <2>1, <2>2
  <1>7. CASE AtEof
    <2>1. PICK trailers \in Trailers(P) :
             /\ resp' = [resp EXCEPT !.trailers = trailers]
             /\ finish' = Finish(P, finish, sent, resp')
             /\ UNCHANGED <<call, taken, reader, buffer>>
             /\ pc = "read" /\ pc' = "close"
      BY <1>7, EofIs
    <2>2. resp' \in Resps
      BY <1>7, ResponseStep DEF ResponseOK
    <2>3. P = "web" => resp'.trailers = None
      BY <2>1, <2>2 DEF Trailers, Resps
    <2>4. P = "web" /\ finish # None => finish' = finish
      BY <2>1, <2>3 DEF Finish
    <2> QED BY <2>1, <2>4 DEF None
  <1>8. CASE Closing
    BY <1>8, CloseIs
  <1>9. CASE UNCHANGED vars
    BY <1>9 DEF vars
  <1> QED BY <1>1, <1>2, <1>3, <1>4, <1>5, <1>6, <1>7, <1>8, <1>9, NextIs

-----------------------------------------------------------------------------
\* The end of the response, and its errors.

\* The response is typed when its body has ended.
LEMMA EofTyped == TypeOK /\ AtEof => resp' \in Resps
  BY EofIs, Arrivals DEF TypeOK, ResponseOK, Resps

\* What the body's end tells the client.
LEMMA EofTells ==
    ASSUME TypeOK, PlaceInv, LoopInv, ReaderInv, AtEof
    PROVE  /\ call.shape # "unary"
           /\ exc' \in {NoError, Error("internal"), RemoteError("remote"), Timeout}
           /\ exc' = Timeout => Passed(call.deadline)
           /\ late' => exc' = Timeout
           /\ exc' = NoError =>
                 finish' = "ok" /\ ~reader.partial /\ ~late' /\ taken = sent
           /\ exc'.code = "remote" => finish' \in {"error", "garbled"}
  <1> DEFINE s == IF P = "grpc" THEN Status(reader, resp'.trailers, resp'.headers)
                  ELSE Status(reader, reader.trailers, resp'.headers)
             v == AtEnd(P, reader, buffer, resp')
  <1>1. PICK trailers \in Trailers(P) :
           /\ resp' = [resp EXCEPT !.trailers = trailers]
           /\ finish' = Finish(P, finish, sent, resp')
           /\ exc' = IF client = "sync" /\ Passed(call.deadline) THEN Timeout ELSE v
    BY EofIs
  <1>2. pc = "read" /\ InLoop /\
        late' = (IF client = "async" THEN late ELSE Passed(call.deadline))
    BY EofIs DEF InLoop, LoopPcs
  <1>3. resp' \in Resps
    BY EofTyped
  <1>4. /\ P \in Protocols /\ reader \in Readers /\ client \in {"async", "sync"}
        /\ sent \in Nat /\ taken \in Nat /\ finish \in Finishes
        /\ buffer \in Seq(Frames(P)) /\ resp \in Resps
    BY DEF TypeOK, CallOK, ResponseOK, P, Calls
  <1>5. call.shape # "unary" /\ ~late
    BY <1>2 DEF PlaceInv, EndPcs
  <1>6. resp'.trailers \in Statuses /\ (P # "grpc" => resp'.trailers = None)
    BY <1>1, <1>3, <1>4 DEF Trailers, Resps
  <1>7. /\ v \in {NoError, Error("internal"), RemoteError("remote")}
        /\ v # Error("internal") =>
              ~reader.partial /\ (reader.ended => buffer = <<>>)
        /\ v = NoError => IF P = "connect" THEN reader.ended ELSE s = "ok"
        /\ v.code = "remote" => P # "connect" /\ s = "error"
    BY <1>3, <1>4, AtEndIs
  <1>8. NoError # Error("internal") /\ Error("internal").code # "remote"
    BY DEF NoError, Error, None
  <1>9. v = NoError \/ v.code = "remote" =>
          /\ ~reader.partial /\ buffer = <<>> /\ taken = sent
    <2> SUFFICES ASSUME v = NoError \/ v.code = "remote"
                 PROVE  ~reader.partial /\ buffer = <<>> /\ taken = sent
      OBVIOUS
    <2>1. ~reader.partial /\ (reader.ended => buffer = <<>>)
      BY <1>7, <1>8
    <2>2. buffer = <<>>
      BY <1>2, <2>1 DEF LoopInv
    <2> QED BY <1>2, <1>4, <2>1, <2>2, MessagesNone DEF LoopInv
  <1>10. (v = NoError \/ v.code = "remote") /\ ~reader.ended =>
           finish = None
    BY <1>2, <1>4, <1>9, HeardNothing DEF LoopInv, Readers
  <1>11. (v = NoError \/ v.code = "remote") /\ reader.ended =>
           finish = IF P = "connect" THEN "ok"
                    ELSE IF reader.trailers = None THEN "nostatus" ELSE reader.trailers
    BY <1>2, <1>9 DEF ReaderInv
  <1>12. v = NoError => finish' = "ok"
    <2> SUFFICES ASSUME v = NoError PROVE finish' = "ok"
      OBVIOUS
    <2>1. CASE P = "connect"
      BY <1>1, <1>6, <1>7, <1>11, <2>1 DEF Finish, None
    <2>2. CASE P = "grpc"
      BY <1>1, <1>2, <1>4, <1>7, <1>9, <1>10, <2>2 DEF Finish, None, Status,
         ReaderInv
    <2>3. CASE P = "web"
      BY <1>1, <1>2, <1>4, <1>6, <1>7, <1>9, <1>10, <1>11, <2>3
      DEF Finish, None, Status, ReaderInv
    <2> QED BY <1>4, <2>1, <2>2, <2>3 DEF Protocols
  <1>13. v.code = "remote" => finish' = "error"
    <2> SUFFICES ASSUME v.code = "remote" PROVE finish' = "error"
      OBVIOUS
    <2>2. CASE P = "grpc"
      BY <1>1, <1>2, <1>4, <1>7, <1>9, <1>10, <2>2 DEF Finish, None, Status,
         ReaderInv
    <2>3. CASE P = "web"
      BY <1>1, <1>2, <1>4, <1>6, <1>7, <1>9, <1>10, <1>11, <2>3
      DEF Finish, None, Status, ReaderInv
    <2> QED BY <1>4, <1>7, <2>2, <2>3 DEF Protocols
  <1> HIDE DEF s, v
  <1>14. Timeout.code # "remote" /\ Timeout # NoError
    BY ExcKinds, Distinct
  <1>15. Timeout \notin {NoError, Error("internal"), RemoteError("remote")}
    BY JudgedKinds, ExcKinds, Distinct
  <1> QED BY <1>1, <1>2, <1>4, <1>5, <1>7, <1>9, <1>12, <1>13, <1>14, <1>15

\* What a closed response's call reports.
LEMMA CloseTells ==
    ASSUME TypeOK, PlaceInv, ReaderInv, ExcInv, Closing
    PROVE  /\ outcome # Pending => outcome' = outcome
           /\ outcome = Pending =>
                /\ exc # Exit
                /\ \E e \in {exc, Other, HttpTimeout} :
                     /\ e = exc \/ (client = "sync" /\ open = "open")
                     /\ outcome' = Mapping(e, Unnamed)
                /\ outcome' \in Outcomes \ {Pending, Abandoned}
                /\ outcome' = Success =>
                     exc = NoError /\ ~(call.shape = "single" /\ taken = 0)
                /\ outcome'.code = "deadline_exceeded" =>
                      Passed(call.deadline) \/ exc' = HttpTimeout
                /\ outcome'.code = "canceled" =>
                      cancel = "delivered" \/ reset = "CANCEL"
                /\ outcome'.code = "remote" => finish \in {"error", "garbled"}
                /\ outcome'.details => \/ finish \in {"error", "garbled"}
                                       \/ "error" \in {resp.headers, resp.trailers}
                /\ exc = Timeout /\ open # "open" =>
                      outcome' = Error("deadline_exceeded")
                /\ exc = Cancelled => outcome' = Error("canceled")
                /\ client = "sync" /\ exc'.code \in {"invalid_argument", "remote"} =>
                     outcome' = exc'
  <1>1. pc = "close"
    BY CloseIs
  <1>2. Unnamed = Mapping(Other, Unnamed)
    BY Distinct DEF Mapping
  <1>3. outcome = Pending => exc # Exit
    BY <1>1 DEF ExcInv, EndPcs
  <1>4. outcome = Pending =>
          \E e \in {exc, Other, HttpTimeout} :
             /\ e = exc \/ (client = "sync" /\ open = "open")
             /\ exc' = IF e = HttpTimeout THEN e ELSE exc
             /\ outcome' = Mapping(e, Unnamed)
    BY <1>2, CloseIs, Distinct
  <1>5. exc = Cancelled => client # "sync"
    BY DEF PlaceInv
  <1>6. ASSUME outcome = Pending,
               NEW e \in {exc, Other, HttpTimeout},
               e = exc \/ (client = "sync" /\ open = "open"),
               exc' = IF e = HttpTimeout THEN e ELSE exc,
               outcome' = Mapping(e, Unnamed)
        PROVE  /\ outcome' \in Outcomes \ {Pending, Abandoned}
               /\ outcome' = Success =>
                    exc = NoError /\ ~(call.shape = "single" /\ taken = 0)
               /\ outcome'.code = "deadline_exceeded" =>
                     Passed(call.deadline) \/ exc' = HttpTimeout
               /\ outcome'.code = "canceled" =>
                     cancel = "delivered" \/ reset = "CANCEL"
               /\ outcome'.code = "remote" => finish \in {"error", "garbled"}
               /\ outcome'.details => \/ finish \in {"error", "garbled"}
                                      \/ "error" \in {resp.headers, resp.trailers}
               /\ exc = Timeout /\ open # "open" =>
                     outcome' = Error("deadline_exceeded")
               /\ exc = Cancelled => outcome' = Error("canceled")
               /\ client = "sync" /\ exc'.code \in {"invalid_argument", "remote"} =>
                    outcome' = exc'
    <2>1. HttpTimeout.code \notin {"invalid_argument", "remote"}
      BY ExcKinds
    <2> QED BY <1>1, <1>3, <1>5, <1>6, <2>1, MappingIs
  <1> QED BY <1>3, <1>4, <1>6, CloseIs

\* What a frame that is an error tells the client.
LEMMA ErrorTells ==
    ASSUME TypeOK, LoopInv, pc = "feed", buffer # <<>>, ~reader.ended,
           FrameError(P, Head(buffer)).code = "remote"
    PROVE  finish \in {"error", "garbled"}
  <1>1. /\ InLoop /\ P \in Protocols /\ buffer \in Seq(Frames(P))
        /\ reader.partial \in BOOLEAN
    BY DEF InLoop, LoopPcs, TypeOK, CallOK, ResponseOK, Readers, P, Calls
  <1>2. P = "connect" /\ Head(buffer) = "end_error"
    BY NextFrame
  <1>3. Head(buffer) \in EndFrames(P) /\ EndStatus(Head(buffer)) = "error"
    BY <1>2, FrameKinds, EndStatusIs
  <1>4. finish = Heard(P, None, buffer, reader.partial)
    BY <1>1 DEF LoopInv
  <1> QED BY <1>1, <1>3, <1>4, HeardHead DEF None

\* A call that succeeds has had a whole response.
LEMMA GoodStep ==
    TypeOK /\ PlaceInv /\ LoopInv /\ ReaderInv /\ GoodInv /\ PendingInv /\
        CancelInv /\ ExcInv /\ [Next]_vars
    => GoodInv'
  <1> SUFFICES ASSUME TypeOK, PlaceInv, LoopInv, ReaderInv, GoodInv, PendingInv,
               CancelInv, ExcInv, [Next]_vars PROVE GoodInv'
    OBVIOUS
  <1> USE DEF GoodInv, SuccessIsComplete, Single
  <1>1. CASE Plainly
    <2>1. Timeout # NoError /\ Exit # NoError
      BY Distinct, ExcKinds
    <2>2. Error("deadline_exceeded") # Success /\
          Error("deadline_exceeded") # Pending
      BY OutcomeKinds
    <2> QED BY <1>1, <2>1, <2>2, PlainlyIs DEF PlaceInv, EndPcs, PendingInv
  <1>2. CASE Taking
    <2>1. /\ Exit # NoError /\ Error("unimplemented") \notin {Success, Pending}
          /\ Abandoned \notin {Success, Pending}
      BY ExcKinds, OutcomeKinds
    <2>2. taken \in Nat /\ outcome = Pending
      BY <1>2, TakingIs DEF TypeOK, CallOK, PendingInv, EndPcs
    <2> QED BY <1>2, <2>1, <2>2, TakingIs
  <1>3. CASE Failing
    <2>1. /\ NoError \notin {Other, Timeout, HttpTimeout, Reset, Cancelled}
          /\ Pending # Success
      BY Distinct, OutcomeKinds
    <2>2. outcome = Pending
      BY <1>3, FailingIs DEF PendingInv, CancelInv, EndPcs, Waits
    <2> QED BY <1>3, <2>1, <2>2, FailingIs
  <1>4. CASE Judging
    <2>1. outcome = Pending /\ Pending # Success
      BY <1>4, JudgingIs, OutcomeKinds DEF PendingInv, EndPcs
    <2>2. CASE pc = "post"
      <3>1. PICK kind \in UnaryKinds :
               /\ exc' = UnaryVerdict(kind)
               /\ taken' = IF UnaryVerdict(kind) = NoError THEN 1 ELSE 0
               /\ sent' = taken'
               /\ finish' = IF kind = "good" THEN "ok" ELSE "error"
        BY <1>4, <2>2, JudgingIs
      <3>2. exc' = NoError => finish' = "ok" /\ taken' = 1 /\ sent' = 1
        BY <3>1, UnaryVerdictIs
      <3>3. /\ ~late' /\ UNCHANGED <<call, outcome, reader>> /\ call.shape = "unary"
            /\ reader = NoReader
        BY <1>4, <2>2, JudgingIs DEF PlaceInv, EndPcs
      <3>4. ~NoReader.partial
        BY DEF NoReader, NewReader
      <3> QED BY <2>1, <3>2, <3>3, <3>4
    <2>3. CASE pc = "enter"
      BY <1>4, <2>1, <2>3, JudgingIs DEF PlaceInv, EndPcs
    <2>4. CASE pc = "collect"
      <3>1. exc' # NoError
        <4>1. UnaryVerdict("json_error") # NoError /\
              UnaryVerdict("http_error") # NoError
          BY UnaryVerdictIs DEF UnaryKinds
        <4> QED BY <1>4, <2>4, <4>1, JudgingIs
      <3> QED BY <1>4, <2>1, <2>4, <3>1, JudgingIs
    <2> QED BY <1>4, <2>2, <2>3, <2>4, JudgingIs
  <1>5. CASE Reading
    BY <1>5, ReadIs, OutcomeKinds DEF PendingInv, EndPcs
  <1>6. CASE Decoding
    BY <1>6, DecodeIs, OutcomeKinds DEF PendingInv, EndPcs
  <1>7. CASE AtEof
    <2>1. outcome = Pending /\ Pending # Success
      BY <1>7, EofIs, OutcomeKinds DEF PendingInv, EndPcs
    <2> QED BY <1>7, <2>1, EofIs, EofTells
  <1>8. CASE Closing
    <2>1. taken \in Nat /\ call.shape \in {"unary", "single", "stream"}
      BY ClientAssumption DEF TypeOK, CallOK, Calls
    <2>2. outcome # Pending => outcome' = outcome
      BY <1>8, CloseTells
    <2>3. pc = "close" /\ pc' = "ended"
          /\ UNCHANGED <<call, finish, reader, late, taken, sent>>
      BY <1>8, CloseIs
    <2>4. outcome = Pending /\ outcome' = Success =>
            exc = NoError /\ ~(call.shape = "single" /\ taken = 0)
      BY <1>8, CloseTells
    <2>5. outcome = Pending => outcome' # Pending
      BY <1>8, CloseTells
    <2>6. Mapping(HttpTimeout, Unnamed) = Error("deadline_exceeded")
      BY DEF Mapping
    <2>7. outcome = Pending /\ outcome' = Success => exc' = exc
      BY <1>8, <2>6, CloseIs, OutcomeKinds
    <2>8. outcome = Success => pc = "ended"
      OBVIOUS
    <2> QED BY <2>1, <2>2, <2>3, <2>4, <2>5, <2>7, <2>8
  <1>9. CASE UNCHANGED vars
    BY <1>9 DEF vars
  <1> QED BY <1>1, <1>2, <1>3, <1>4, <1>5, <1>6, <1>7, <1>8, <1>9, NextIs

\* The exception that unwinds a call is what happened to it.
LEMMA ExcStep ==
    TypeOK /\ PlaceInv /\ LoopInv /\ ReaderInv /\ PendingInv /\ CancelInv /\
        ExcInv /\ [Next]_vars
    => ExcInv'
  <1> SUFFICES ASSUME TypeOK, PlaceInv, LoopInv, ReaderInv, PendingInv, CancelInv,
               ExcInv, [Next]_vars PROVE ExcInv'
    OBVIOUS
  <1> USE DEF ExcInv, EndPcs
  <1>1. CASE Plainly
    <2>1. /\ Timeout.code = "TimeoutError" /\ Exit.code = "GeneratorExit"
          /\ NoError.code = "none"
          /\ Exit \notin {Timeout, Cancelled, Reset, NoError}
      BY ExcKinds
    <2>2. now \in Nat /\ call.deadline \in Nat \cup {NoTime}
      BY ClientAssumption DEF TypeOK, CallOK, Calls
    <2>3. Passed(call.deadline) => Passed(call.deadline)'
      BY <1>1, <2>2, PlainlyIs DEF Passed
    <2>4. (call.deadline)' = call.deadline
      BY <1>1, PlainlyIs
    <2> QED BY <1>1, <2>1, <2>2, <2>3, <2>4, PlainlyIs, Distinct
          DEF PlaceInv, PendingInv
  <1>2. CASE Taking
    <2>1. /\ Exit.code = "GeneratorExit"
          /\ Exit \notin {Timeout, Cancelled, Reset, NoError}
          /\ Error("unimplemented") # Pending /\ Abandoned # Pending
      BY ExcKinds, OutcomeKinds
    <2>2. streamError = NoError /\ ~late
      BY <1>2, TakingIs DEF PlaceInv
    <2> QED BY <1>2, <2>1, <2>2, TakingIs DEF PendingInv
  <1>3. CASE Failing
    <2>1. outcome = Pending
      BY <1>3, FailingIs DEF PendingInv, CancelInv, Waits
    <2>2. None \notin ResetCodes
      BY DEF ResetCodes, None
    <2>3. streamError = NoError /\ ~late
      BY <1>3, FailingIs DEF PlaceInv, Waits
    <2>4. Passed(call.deadline)' <=> Passed(call.deadline)
      BY <1>3, FailingIs DEF Passed
    <2>5. exc' \in {Other, Timeout, HttpTimeout, Reset, Cancelled}
      BY <1>3, FailingIs
    <2>6. exc'.code \notin {"remote", "invalid_argument"} /\ exc' # Exit
      BY <2>5, ExcKinds
    <2> QED BY <1>3, <2>1, <2>2, <2>3, <2>4, <2>5, <2>6, FailingIs, Distinct
  <1>4. CASE Judging
    <2>1. /\ outcome = Pending /\ streamError = NoError /\ ~late /\ reset = None
          /\ pc \in {"post", "enter", "collect"}
      BY <1>4, JudgingIs DEF PlaceInv, PendingInv
    <2>2. UNCHANGED <<client, call, now, outcome, streamError, late, cancel>>
      BY <1>4, JudgingIs
    <2>3. pc' = "close" => exc' \notin {Timeout, Cancelled, Reset, Exit}
      BY <1>4, JudgingIs, JudgedApart
    <2>4. CASE pc = "post"
      <3>1. exc'.code = "remote" => finish' = "error"
        BY <1>4, <2>4, JudgingIs, UnaryVerdictIs
      <3>2. open' = "none"
        BY <1>4, <2>4, JudgingIs DEF PlaceInv
      <3> QED BY <2>1, <2>2, <2>3, <3>1, <3>2, <1>4, <2>4, JudgingIs
    <2>5. CASE pc = "enter"
      <3>1. \A kind : HeaderError(kind).code \in {"none", "unknown", "internal"}
        BY HeaderErrorIs, ExcKinds
      <3>2. pc' = "close" => exc'.code \notin {"remote", "invalid_argument"}
        BY <1>4, <2>5, <3>1, JudgingIs
      <3> QED BY <2>1, <2>2, <2>3, <3>2, <1>4, <2>5, JudgingIs
    <2>6. CASE pc = "collect"
      <3>1. finish' = "error" /\ (client = "sync" => open' = "read")
        BY <1>4, <2>6, JudgingIs DEF TypeOK, CallOK
      <3> QED BY <2>1, <2>2, <2>3, <3>1, <1>4, <2>6, JudgingIs
    <2> QED BY <2>1, <2>4, <2>5, <2>6
  <1>5. CASE Reading
    BY <1>5, ReadIs
  <1>6. CASE Decoding
    <2>1. outcome = Pending /\ streamError = NoError /\ ~late
      BY <1>6, DecodeIs DEF PlaceInv, PendingInv
    <2>2. CASE pc' # "close"
      BY <1>6, <2>2, DecodeIs
    <2>3. CASE pc' = "close"
      <3>1. /\ buffer # <<>> /\ ~reader.ended /\ pc = "feed"
            /\ exc' = FrameError(P, Head(buffer)) /\ exc' # NoError
            /\ streamError' = IF client = "async" THEN streamError ELSE exc'
            /\ UNCHANGED <<client, finish, outcome, late>>
        BY <1>6, <2>3, DecodeIs
      <3>2. exc' \in Judged
        BY <3>1, NextFrame
      <3>3. exc' \notin {Timeout, Cancelled, Reset, Exit}
        BY <3>2, ExcKinds
      <3>4. exc'.code = "remote" => finish' \in {"error", "garbled"}
        BY <3>1, ErrorTells
      <3> QED BY <2>1, <2>3, <3>1, <3>3, <3>4
    <2> QED BY <2>2, <2>3
  <1>7. CASE AtEof
    <2>1. outcome = Pending /\ streamError = NoError
      BY <1>7, EofIs DEF PlaceInv, PendingInv
    <2>2. /\ UNCHANGED <<client, call, now, outcome, streamError>>
          /\ pc' = "close" /\ open' = IF client = "async" THEN open ELSE "read"
          /\ late' = IF client = "async" THEN late ELSE Passed(call.deadline)
      BY <1>7, EofIs
    <2>3. exc' \notin {Cancelled, Reset, Exit}
      BY <1>7, EofTells, JudgedKinds, ExcKinds, Distinct
    <2>4. Passed(call.deadline)' <=> Passed(call.deadline)
      BY <2>2 DEF Passed
    <2>5. client = "async" => ~late
      BY DEF PlaceInv
    <2> QED BY <1>7, <2>1, <2>2, <2>3, <2>4, <2>5, EofTells
  <1>8. CASE Closing
    <2>1. /\ pc = "close" /\ pc' = "ended" /\ open' \in {open, "closed"}
          /\ UNCHANGED <<client, call, now, cancel, finish, reset, streamError, late>>
          /\ exc' = exc \/ (open = "open" /\ exc' = HttpTimeout)
      BY <1>8, CloseIs
    <2>2. outcome # Pending => outcome' = outcome
      BY <1>8, CloseTells
    <2>3. outcome = Pending => exc # Exit /\ outcome' # Pending
      BY <1>8, CloseTells
    <2>4. exc = Cancelled => outcome' = Error("canceled")
      BY <1>8, <2>1, CloseTells, ExcKinds
    <2>5. Passed(call.deadline)' <=> Passed(call.deadline)
      BY <2>1 DEF Passed
    <2>6. /\ HttpTimeout \notin {Timeout, Cancelled, Reset, Exit}
          /\ HttpTimeout.code \notin {"invalid_argument", "remote"}
      BY ExcKinds, Distinct
    <2> QED BY <2>1, <2>2, <2>3, <2>4, <2>5, <2>6
  <1>9. CASE UNCHANGED vars
    BY <1>9 DEF vars, Passed
  <1> QED BY <1>1, <1>2, <1>3, <1>4, <1>5, <1>6, <1>7, <1>8, <1>9, NextIs

-----------------------------------------------------------------------------
\* The invariant, and what follows from it.

\* A call never reports what did not happen.
LEMMA HonestStep ==
    TypeOK /\ PlaceInv /\ ReaderInv /\ PendingInv /\ CancelInv /\ ExcInv /\
        HonestOutcome /\ [Next]_vars
    => HonestOutcome'
  <1> SUFFICES ASSUME TypeOK, PlaceInv, ReaderInv, PendingInv, CancelInv, ExcInv,
               HonestOutcome, [Next]_vars PROVE HonestOutcome'
    OBVIOUS
  <1> USE DEF HonestOutcome
  <1>1. CASE Plainly
    <2>1. now \in Nat /\ call.deadline \in Nat \cup {NoTime}
      BY ClientAssumption DEF TypeOK, CallOK, Calls
    <2>2. Passed(call.deadline) => Passed(call.deadline)'
      BY <1>1, <2>1, PlainlyIs DEF Passed
    <2>3. UNCHANGED <<client, call, resp, finish, reset, late>>
      BY <1>1, PlainlyIs
    <2>4. CASE pc = "start" /\ pc' = "ended"
      <3>1. /\ outcome = Pending /\ outcome' = Error("deadline_exceeded")
            /\ Passed(call.deadline) /\ UNCHANGED <<exc, cancel>>
        BY <1>1, <2>4, PlainlyIs DEF PendingInv, EndPcs
      <3>2. cancel = "no" /\ ~late /\ exc = NoError
        BY <2>4 DEF CancelInv, PlaceInv, EndPcs, Waits, TypeOK, CallOK
      <3> QED BY <2>2, <2>3, <3>1, <3>2, ExcKinds
    <2>5. CASE ~(pc = "start" /\ pc' = "ended")
      <3>1. UNCHANGED outcome
        BY <1>1, <2>5, PlainlyIs
      <3>2. pc' = "ended" => pc = "ended" /\ UNCHANGED exc
        BY <1>1, <2>5, PlainlyIs
      <3>3. cancel = "delivered" <=> cancel' = "delivered"
        BY <1>1, PlainlyIs
      <3>4. exc = HttpTimeout => UNCHANGED exc
        BY <1>1, PlainlyIs, Distinct DEF PlaceInv, EndPcs
      <3> QED BY <2>2, <2>3, <3>1, <3>2, <3>3, <3>4
    <2> QED BY <2>4, <2>5
  <1>2. CASE Taking
    <2>1. outcome = Pending /\ pc' # "ended"
      BY <1>2, TakingIs DEF PendingInv, EndPcs
    <2>2. outcome' \in {Pending, Error("unimplemented"), Abandoned}
      BY <1>2, <2>1, TakingIs
    <2>3. /\ outcome'.code \notin {"deadline_exceeded", "canceled", "remote"}
          /\ ~outcome'.details
      BY <2>2, ExcKinds
    <2> QED BY <2>1, <2>3
  <1>3. CASE Failing
    <2>1. outcome = Pending /\ outcome' = Pending /\ pc' # "ended"
      BY <1>3, FailingIs DEF PendingInv, CancelInv, EndPcs, Waits
    <2> QED BY <2>1, ExcKinds
  <1>4. CASE Judging
    <2>1. outcome = Pending /\ outcome' = Pending /\ pc' # "ended"
      BY <1>4, JudgingIs DEF PendingInv, CancelInv, EndPcs, Waits
    <2> QED BY <2>1, ExcKinds
  <1>5. CASE Reading
    <2>1. outcome = Pending /\ outcome' = Pending /\ pc' # "ended"
      BY <1>5, ReadIs DEF PendingInv, CancelInv, EndPcs, Waits
    <2> QED BY <2>1, ExcKinds
  <1>6. CASE Decoding
    <2>1. outcome = Pending /\ outcome' = Pending /\ pc' # "ended"
      BY <1>6, DecodeIs DEF PendingInv, CancelInv, EndPcs, Waits
    <2> QED BY <2>1, ExcKinds
  <1>7. CASE AtEof
    <2>1. outcome = Pending /\ outcome' = Pending /\ pc' # "ended"
      BY <1>7, EofIs DEF PendingInv, CancelInv, EndPcs, Waits
    <2> QED BY <2>1, ExcKinds
  <1>8. CASE Closing
    <2>1. /\ pc = "close" /\ pc' = "ended"
          /\ UNCHANGED <<client, call, now, resp, cancel, finish, reset, late>>
          /\ exc' = exc \/ (client = "sync" /\ open = "open" /\ exc' = HttpTimeout)
      BY <1>8, CloseIs
    <2>7. HttpTimeout.code \notin {"invalid_argument", "remote"}
      BY ExcKinds
    <2>2. Passed(call.deadline)' <=> Passed(call.deadline)
      BY <2>1 DEF Passed
    <2>3. late => exc = Timeout /\ open # "open"
      BY <2>1 DEF ExcInv, EndPcs
    <2>4. cancel = "delivered" => exc = Cancelled
      BY DEF CancelInv
    <2>5. CASE outcome # Pending
      <3>1. exc = Exit
        BY <2>1, <2>5 DEF ExcInv, EndPcs
      <3>2. exc \notin {Timeout, Cancelled} /\
            exc.code \notin {"invalid_argument", "remote"}
        BY <3>1, ExcKinds
      <3>3. outcome' = outcome
        BY <1>8, <2>5, CloseTells
      <3> QED BY <2>1, <2>2, <2>3, <2>4, <2>7, <3>1, <3>2, <3>3
    <2>6. CASE outcome = Pending
      <3>1. /\ outcome'.code = "deadline_exceeded" =>
                 Passed(call.deadline) \/ exc' = HttpTimeout
            /\ outcome'.code = "canceled" => cancel = "delivered" \/ reset = "CANCEL"
            /\ outcome'.code = "remote" => finish \in {"error", "garbled"}
            /\ outcome'.details => \/ finish \in {"error", "garbled"}
                                   \/ "error" \in {resp.headers, resp.trailers}
        BY <1>8, <2>6, CloseTells
      <3>2. /\ exc = Timeout /\ open # "open" =>
                  outcome' = Error("deadline_exceeded")
            /\ exc = Cancelled => outcome' = Error("canceled")
            /\ client = "sync" /\ exc'.code \in {"invalid_argument", "remote"} =>
                 outcome' = exc'
        BY <1>8, <2>6, CloseTells
      <3>3. Error("deadline_exceeded").code = "deadline_exceeded"
        BY ExcKinds
      <3> QED BY <2>1, <2>2, <2>3, <2>4, <3>1, <3>2, <3>3
    <2> QED BY <2>5, <2>6
  <1>9. CASE UNCHANGED vars
    BY <1>9 DEF vars, Passed
  <1> QED BY <1>1, <1>2, <1>3, <1>4, <1>5, <1>6, <1>7, <1>8, <1>9, NextIs

\* All that holds of a call at every time.
Inv ==
    /\ TypeOK /\ PlaceInv /\ LoopInv /\ ReaderInv /\ GoodInv
    /\ ExcInv /\ PendingInv /\ CancelInv /\ HonestOutcome

\* A call starts with nothing heard and nothing raised.
LEMMA InitInv == Init => Inv
  <1> SUFFICES ASSUME Init PROVE Inv
    OBVIOUS
  <1>1. /\ client \in {"async", "sync"} /\ call \in Calls /\ now = 0 /\ pc = "start"
        /\ open = "none" /\ resp = [headers |-> None, trailers |-> None]
        /\ buffer = <<>> /\ reader = NoReader /\ exc = NoError /\ cancel = "no"
        /\ taken = 0 /\ outcome = Pending /\ sent = 0 /\ finish = None
        /\ reset = None
        /\ streamError = NoError /\ late = FALSE
    BY AsyncValues, SyncValues DEF Init, Async!Init, Sync!Init
  <1>2. TypeOK
    <2>1. resp \in Resps /\ finish \in Finishes /\ reader \in Readers /\
          <<>> \in Seq(Frames(P))
      BY <1>1, Arrivals DEF Resps, Statuses
    <2>2. exc \in Excs /\ outcome \in Outcomes
      BY <1>1, OutcomeKinds DEF Excs
    <2> QED BY <1>1, <2>1, <2>2 DEF TypeOK, CallOK, ResponseOK, VerdictOK, Pcs
  <1>3. NoReader.trailers = None /\ ~NoReader.partial /\ ~NoReader.ended /\
        ~NoReader.read
    BY DEF NoReader, NewReader
  <1>4. PlaceInv
    BY <1>1, <1>3, Distinct DEF PlaceInv, EndPcs, InLoop, LoopPcs
  <1>5. LoopInv /\ ReaderInv
    BY <1>1, <1>3 DEF LoopInv, ReaderInv, InLoop, LoopPcs, EndPcs, None
  <1>6. GoodInv /\ ExcInv /\ PendingInv /\ CancelInv
    BY <1>1, OutcomeKinds DEF GoodInv, ExcInv, PendingInv, CancelInv, EndPcs
  <1>7. HonestOutcome
    BY <1>1, ExcKinds DEF HonestOutcome
  <1> QED BY <1>2, <1>4, <1>5, <1>6, <1>7 DEF Inv

\* Every step keeps it.
LEMMA NextInv == Inv /\ [Next]_vars => Inv'
  BY CallStep, ResponseStep, VerdictStep, PlaceStep, LoopStep, ReaderStep, GoodStep,
     ExcStep, PendingStep, CancelStep, HonestStep DEF Inv, TypeOK

\* It holds at every time.
LEMMA Always == Spec => []Inv
  BY InitInv, NextInv, PTL DEF Spec

\* Both clients: a call succeeds only with a whole response, and its consumer has
\* all of its messages.
THEOREM SuccessComplete == Spec => []SuccessIsComplete
  <1>1. Inv => SuccessIsComplete
    BY DEF Inv, GoodInv, SuccessIsComplete
  <1> QED BY <1>1, Always, PTL

\* Both clients: the error that a call reports is the one that happened.
THEOREM OutcomeHonest == Spec => []HonestOutcome
  <1>1. Inv => HonestOutcome
    BY DEF Inv
  <1> QED BY <1>1, Always, PTL

\* The codes of the outcomes.
LEMMA OutcomeCodes ==
    /\ Pending.code = "pending" /\ Success.code = None
    /\ \A v \in Outcomes : /\ v # Pending => v.code # "pending"
                           /\ v \notin {Pending, Success} =>
                                 v.code \in Codes \cup {"abandoned"}
  BY DEF Outcomes, Pending, Success, Abandoned, Error, RemoteError, NoError, None,
     Codes, LocalCodes

\* What a step is to the consumer.
LEMMA ConsumerStep ==
    ASSUME Inv, Inv', [Next]_vars
    PROVE  /\ call' = call
           /\ \/ UNCHANGED <<taken, outcome>>
              \/ /\ outcome = Pending /\ outcome' = Pending /\ taken' = taken + 1
                 /\ call.shape # "stream" => taken = 0
              \/ /\ outcome = Pending /\ outcome' \notin {Pending, Success}
                 /\ \/ taken' = taken
                    \/ taken' = taken + 1 /\ call.shape = "single" /\ taken > 0
              \/ /\ outcome = Pending /\ outcome' = Success /\ taken' = taken
  <1> USE DEF Inv
  <1>1. CASE Plainly
    BY <1>1, PlainlyIs, OutcomeKinds
  <1>2. CASE Taking
    <2>1. outcome = Pending /\ taken \in Nat /\ call.shape # "unary"
      BY <1>2, TakingIs DEF PendingInv, PlaceInv, EndPcs, TypeOK, CallOK
    <2>2. call.shape \in {"unary", "single", "stream"}
      BY ClientAssumption DEF TypeOK, CallOK, Calls
    <2> QED BY <1>2, <2>1, <2>2, TakingIs, OutcomeKinds
  <1>3. CASE Failing
    BY <1>3, FailingIs
  <1>4. CASE Judging
    <2>1. outcome = Pending /\ taken = 0
      BY <1>4, JudgingIs DEF PendingInv, PlaceInv, EndPcs
    <2> QED BY <1>4, <2>1, JudgingIs
  <1>5. CASE Reading
    BY <1>5, ReadIs
  <1>6. CASE Decoding
    BY <1>6, DecodeIs
  <1>7. CASE AtEof
    BY <1>7, EofIs
  <1>8. CASE Closing
    BY <1>8, CloseIs, CloseTells
  <1>9. CASE UNCHANGED vars
    BY <1>9 DEF vars
  <1> QED BY <1>1, <1>2, <1>3, <1>4, <1>5, <1>6, <1>7, <1>8, <1>9, NextIs

\* A call starts as an RPC does.
LEMMA ConsumerInit == Init => Consumer!RpcInit
  <1> SUFFICES ASSUME Init PROVE Consumer!RpcInit
    OBVIOUS
  <1>1. taken = 0 /\ outcome = Pending
    BY AsyncValues, SyncValues DEF Init, Async!Init, Sync!Init
  <1> QED BY <1>1, OutcomeCodes DEF Consumer!RpcInit, Single

\* Each step is one of an RPC, or none.
LEMMA ConsumerNext ==
    ASSUME Inv, Inv', [Next]_vars
    PROVE  [Consumer!RpcNext]_(Consumer!rpcVars)
  <1>1. call' = call /\ (Single' <=> Single)
    BY ConsumerStep DEF Single
  <1>2. taken \in Nat /\ outcome \in Outcomes /\ outcome' \in Outcomes
    BY DEF Inv, TypeOK, CallOK, VerdictOK
  <1>3. CASE UNCHANGED <<taken, outcome>>
    BY <1>1, <1>3 DEF Consumer!rpcVars
  <1>4. CASE /\ outcome = Pending /\ outcome' = Pending /\ taken' = taken + 1
             /\ call.shape # "stream" => taken = 0
    <2>1. Consumer!Deliver
      BY <1>1, <1>2, <1>4, OutcomeCodes DEF Consumer!Deliver, Single
    <2> QED BY <2>1 DEF Consumer!RpcNext
  <1>5. CASE /\ outcome = Pending /\ outcome' \notin {Pending, Success}
             /\ \/ taken' = taken
                \/ taken' = taken + 1 /\ call.shape = "single" /\ taken > 0
    <2>1. outcome'.code \in Codes \cup {"abandoned"} /\ outcome.code = "pending"
      BY <1>2, <1>5, OutcomeCodes
    <2>2. (IF call.shape = "single" /\ taken > 0 THEN 1 ELSE taken)
          = (IF call'.shape = "single" /\ taken' > 0 THEN 1 ELSE taken')
      <3>1. CASE taken' = taken
        BY <1>1, <3>1
      <3>2. CASE taken' = taken + 1 /\ call.shape = "single" /\ taken > 0
        <4>1. taken' > 0 /\ call'.shape = "single"
          BY <1>1, <1>2, <3>2
        <4> QED BY <3>2, <4>1
      <3> QED BY <1>5, <3>1, <3>2
    <2>3. Consumer!Fail
      BY <1>1, <2>1, <2>2 DEF Consumer!Fail
    <2> QED BY <2>3 DEF Consumer!RpcNext
  <1>6. CASE outcome = Pending /\ outcome' = Success /\ taken' = taken
    <2>1. Single => taken = 1
      BY <1>1, <1>6 DEF Inv, GoodInv, SuccessIsComplete, Single
    <2>2. Consumer!Succeed
      BY <1>1, <1>6, <2>1, OutcomeCodes DEF Consumer!Succeed
    <2> QED BY <2>2 DEF Consumer!RpcNext
  <1> QED BY <1>3, <1>4, <1>5, <1>6, ConsumerStep

\* Both clients: what the consumer sees of a call is an RPC, with one response
\* exactly when a call with a single response succeeds.
THEOREM ConsumerSeesRpc == Spec => ImplementsRpc
  <1>1. Inv /\ Inv' /\ [Next]_vars => [Consumer!RpcNext]_(Consumer!rpcVars)
    BY ConsumerNext
  <1> QED
    BY <1>1, Always, ConsumerInit, PTL DEF Spec, ImplementsRpc, Consumer!RpcSpec
=============================================================================
