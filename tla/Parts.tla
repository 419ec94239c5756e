-------------------------------- MODULE Parts --------------------------------
(***************************************************************************)
(* The parts of the library that requests and calls use and that share no  *)
(* state with one another: the headers, the deadline that travels in them, *)
(* the metadata of responses, decompression, what an exchange means, the   *)
(* reflection service and telemetry.  A behaviour runs one of them, which  *)
(* loses nothing, since no step of one depends on another.                 *)
(***************************************************************************)
EXTENDS HeadersStore, DeadlinePropagation, Reflection

CONSTANTS Contexts, NoContext, Responses,   \* of ResponseMetadata
          Calls, Tasks, NoSpan, Ambient,    \* of Telemetry
          MaxToggles,                       \* of Instrumentation
          MaxSize, MaxMembers, Limits, NoLimit,   \* of Decompression
          MaxMessages, Accepts, Supports, MetadataNames,   \* of Exchange
          a, b, c, d                        \* the files that are reflected on

VARIABLES part,   \* the part that runs
          current, restores, headers, trailers, stack, madeIn, stage,
          span, first, state, kind, task, token, parent, carrier, recorded, status, nested,
          active, toggles, imported, hooks, patches, created,
          algorithm, input, limit, member, pending, total, result,
          call, server, pc, chosen, user, meant, messages, wire, metadata, got, verdict

\* Spans are told from the absence of one and from those of other libraries.
ASSUME SpansAssumption == NoSpan \notin Calls /\ Ambient \notin Calls /\ Ambient # NoSpan

\* Sizes are numbers.
ASSUME BytesAssumption == MaxSize \in Nat /\ MaxMembers \in Nat /\ Limits \subseteq Nat

\* What a client accepts is a list that has identity.
ASSUME IdentityAssumption ==
    \A s \in Accepts : s \in Seq(STRING) /\ \E i \in DOMAIN s : s[i] = "identity"

metadataVars == <<current, restores, headers, trailers, stack, madeIn, stage>>
telemetryVars == <<span, first, state, kind, task, token, parent, carrier, recorded,
                   status, nested>>
otelVars == <<active, toggles, imported, hooks, patches, created>>
bytesVars == <<algorithm, input, limit, member, pending, total, result>>
exchangeVars == <<call, server, pc, chosen, user, meant, messages, wire, metadata, got,
                  verdict>>
allVars == <<part, storeVars, deadlineVars, reflectionVars, metadataVars, telemetryVars,
             otelVars, bytesVars, exchangeVars>>

Metadata == INSTANCE ResponseMetadata WITH token <- restores, Calls <- Responses
Telemetry == INSTANCE Telemetry WITH current <- span
Otel == INSTANCE Instrumentation
Bytes == INSTANCE Decompression WITH left <- pending
Exchange == INSTANCE Exchange WITH sent <- messages, Names <- MetadataNames

\* What holds of a part unless it is the one that runs.
Unless(p, rest) == IF part = p THEN TRUE ELSE rest

\* A part that does not run stays in one of its initial states.
PartsInit ==
    /\ part \in {"headers", "deadline", "reflection", "metadata", "telemetry", "otel",
                 "bytes", "exchange"}
    /\ Unless("headers", store = [k \in Keys |-> Absent]) /\ StoreInit
    /\ Unless("deadline", protocol = "grpc" /\ left = Milli) /\ DeadlineInit
    /\ Unless("reflection", imports = (CHOOSE i \in Imports : TRUE)
                            /\ descs = CHOOSE i \in Descs : TRUE)
    /\ ReflectionInit
    /\ Metadata!Init
    /\ Unless("telemetry", task = [x \in Calls |-> CHOOSE t \in Tasks : TRUE]
                           /\ first = [t \in Tasks |-> NoSpan])
    /\ Telemetry!Init
    /\ Unless("otel", imported = {}) /\ Otel!Init
    /\ Unless("bytes", algorithm = "identity" /\ limit = NoLimit
                       /\ input = [sizes |-> <<0>>, ends |-> "whole"])
    /\ Bytes!Init
    /\ Unless("exchange", call = (CHOOSE x \in Exchange!Requests : x.timeout = "short")
                          /\ server = CHOOSE x \in Exchange!Servers : TRUE)
    /\ Exchange!Init

\* The step of one part leaves the others alone.
Runs(p) ==
    /\ part = p /\ UNCHANGED part
    /\ Unless("headers", UNCHANGED storeVars)
    /\ Unless("deadline", UNCHANGED deadlineVars)
    /\ Unless("reflection", UNCHANGED reflectionVars)
    /\ Unless("metadata", UNCHANGED metadataVars)
    /\ Unless("telemetry", UNCHANGED telemetryVars)
    /\ Unless("otel", UNCHANGED otelVars)
    /\ Unless("bytes", UNCHANGED bytesVars)
    /\ Unless("exchange", UNCHANGED exchangeVars)

PartsNext ==
    \/ Runs("headers") /\ StoreNext
    \/ Runs("deadline") /\ DeadlineNext
    \/ Runs("reflection") /\ ReflectionNext
    \/ Runs("metadata") /\ Metadata!Next
    \/ Runs("telemetry") /\ Telemetry!Next
    \/ Runs("otel") /\ Otel!Next
    \/ Runs("bytes") /\ Bytes!Next
    \/ Runs("exchange") /\ Exchange!Next

PartsSpec == PartsInit /\ [][PartsNext]_allVars
-----------------------------------------------------------------------------
(* The instance for TLC. *)

\* Two keys, one of them written in two cases.
MCLower == [n \in {"Accept", "accept", "te"} |-> IF n = "te" THEN "te" ELSE "accept"]

\* Every timeout up to past the largest one either protocol can write.
MCTimeouts == -1..110

\* A chain, a diamond, a shared leaf imported twice, and no imports at all.
MCFiles == {a, b, c, d}
Chain == (a :> <<b>>) @@ (b :> <<c>>) @@ (c :> <<d>>) @@ (d :> <<>>)
Diamond == (a :> <<b, c>>) @@ (b :> <<d>>) @@ (c :> <<d>>) @@ (d :> <<>>)
Shared == (a :> <<d, b>>) @@ (b :> <<d>>) @@ (c :> <<b>>) @@ (d :> <<>>)
MCImports == {Chain, Diamond, Shared}
MCDescs == {<<a>>, <<b, a>>, <<b, c>>, <<a, a>>}

\* Clients and servers with one, two or no compression in common.
MCAccepts == {<<"br", "gzip", "identity">>, <<"identity">>}
MCSupports == {{"gzip", "identity"}, {"br", "identity"}}
-----------------------------------------------------------------------------
\* Contexts of response metadata nest, and a unary call shows in its own only.
MetadataCorrect == Metadata!MetadataCorrect

\* Every call is recorded once and traced under its caller, and a task whose
\* calls ended innermost first is left as it was found.
TelemetryCorrect == Telemetry!TelemetryCorrect

\* A client or server is traced at most once, whatever was instrumented when.
TracedOnce == Otel!TracedOnce

\* Bounded decompression holds no more than a byte over its limit and says what
\* is true of the message.
DecompressionCorrect == Bytes!DecompressionCorrect

\* A client understands what the server meant.
ExchangeHonest == Exchange!ExchangeHonest
=============================================================================
