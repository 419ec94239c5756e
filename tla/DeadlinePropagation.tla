------------------------- MODULE DeadlinePropagation -------------------------
(* A timeout travels from a client to a server in a header and, when the    *)
(* handler calls another service with what is left of it, on to the next.   *)
(* gRPC writes it with at most eight digits and a unit, rounding it down;   *)
(* Connect writes milliseconds with at most ten digits.  Times are in       *)
(* nanoseconds; the sizes of the units and the digits allowed are           *)
(* parameters, so that an instance can use small numbers.                   *)
EXTENDS Integers

CONSTANTS Milli,          \* nanoseconds in a millisecond
          Second, Minute, Hour,   \* milliseconds in the larger units
          MaxValue,       \* first count the gRPC grammar cannot write (1e8)
          MaxMillis,      \* first timeout Connect cannot write, in ms (1e10)
          Timeouts,       \* the timeouts in milliseconds a caller may ask for
          Delays,         \* nanoseconds a handler may work before it goes on
          Foreign,        \* counts another implementation's client may send
          MaxHops         \* calls in the chain

ASSUME SizesAssumption ==
  /\ Milli \in Nat \ {0} /\ MaxValue \in Nat \ {0} /\ MaxMillis \in Nat \ {0}
  /\ Second \in Nat \ {0} /\ Minute \in Nat \ {0} /\ Hour \in Nat \ {0}
  /\ Second <= MaxValue
  /\ Minute <= MaxValue * Second
  /\ Hour <= MaxValue * Minute
ASSUME InputsAssumption ==
  Timeouts \subseteq Int /\ Delays \subseteq Nat /\ Foreign \subseteq Nat /\ MaxHops \in Nat

VARIABLES protocol,   \* "grpc" or "connect", of the next call
          hop,        \* calls made so far
          place,      \* "caller", "wire", "handler", or how the call ended
          left,       \* nanoseconds left to the current caller or handler
          header,     \* the timeout on the wire: [count, unit]
          origin,     \* history: the first caller's timeout
          spent,      \* history: what the handlers used of it
          sent        \* history: what was left when the last header was written

deadlineVars == <<protocol, hop, place, left, header, origin, spent, sent>>

Protocols == {"grpc", "connect"}
Units == {"n", "m", "S", "M", "H"}

(* _lookup_timeout_unit: nanoseconds per count. *)
UnitValue(unit) ==
  CASE unit = "n" -> 1
    [] unit = "m" -> Milli
    [] unit = "S" -> Second * Milli
    [] unit = "M" -> Minute * Milli
    [] unit = "H" -> Hour * Milli

Header(count, unit) == [count |-> count, unit |-> unit]

(* _serialize_timeout: the first unit whose count fits eight digits. *)
Serialize_OffByOne(ms) ==
  CASE ms <= 0                  -> Header(0, "n")
    [] 0 < ms /\ ms <= MaxValue -> Header(ms, "m")
    [] ms > MaxValue /\ ms < MaxValue * Second
                                -> Header(ms \div Second, "S")
    [] ms >= MaxValue * Second /\ ms < MaxValue * Minute
                                -> Header(ms \div Minute, "M")
    [] ms >= MaxValue * Minute  -> Header(ms \div Hour, "H")
Serialize(ms) ==
  CASE ms <= 0                  -> Header(0, "n")
    [] 0 < ms /\ ms < MaxValue  -> Header(ms, "m")
    [] ms >= MaxValue /\ ms < MaxValue * Second
                                -> Header(ms \div Second, "S")
    [] ms >= MaxValue * Second /\ ms < MaxValue * Minute
                                -> Header(ms \div Minute, "M")
    [] OTHER                    -> Header(ms \div Hour, "H")

Written(p, ms) == IF p = "grpc" THEN Serialize(ms) ELSE Header(ms, "m")

(* _parse_timeout accepts eight digits, the Connect header ten. *)
Accepted(p, h) == h.count < (IF p = "grpc" THEN MaxValue ELSE MaxMillis)
Parsed(h) == h.count * UnitValue(h.unit)

(* The largest timeout a protocol can carry, in milliseconds. *)
Largest(p) == IF p = "grpc" THEN MaxValue * Hour ELSE MaxMillis

DeadlineInit ==
  /\ protocol \in Protocols /\ hop = 0 /\ place = "caller"
  /\ \E ms \in Timeouts : left = ms * Milli /\ origin = ms * Milli
  /\ header = Header(0, "n") /\ spent = 0 /\ sent = 0

---------------------------------------------------------------------------
(* A client fails at once when nothing is left; otherwise the header goes out. *)
Call ==
  /\ place = "caller"
  /\ IF left <= 0
     THEN place' = "expired" /\ UNCHANGED <<header, hop, sent>>
     ELSE /\ place' = "wire" /\ hop' = hop + 1 /\ sent' = left
          /\ header' = Written(protocol, left \div Milli)
  /\ UNCHANGED <<protocol, left, origin, spent>>

(* A client of another implementation, which may write other counts and units than
   this one.  Microseconds and headers that do not parse are left out. *)
ForeignCall ==
  /\ place = "caller" /\ hop = 0 /\ left > 0
  /\ \E count \in Foreign, unit \in (IF protocol = "grpc" THEN Units ELSE {"m"}) :
       LET h == Header(count, unit) IN
       /\ header' = h
       /\ left' = Parsed(h) /\ sent' = Parsed(h) /\ origin' = Parsed(h)
  /\ place' = "wire" /\ hop' = 1
  /\ UNCHANGED <<protocol, spent>>

(* The server's context: the deadline counts from the arrival. *)
Arrive ==
  /\ place = "wire"
  /\ IF Accepted(protocol, header)
     THEN place' = "handler" /\ left' = Parsed(header)
     ELSE place' = "rejected" /\ UNCHANGED left
  /\ UNCHANGED <<protocol, hop, header, origin, spent, sent>>

(* The handler works; when nothing is left the request has timed out. *)
Work ==
  /\ place = "handler"
  /\ \E d \in Delays :
       IF d < left
       THEN left' = left - d /\ spent' = spent + d /\ place' = "ready"
       ELSE left' = 0 /\ spent' = spent + left /\ place' = "expired"
  /\ UNCHANGED <<protocol, hop, header, origin, sent>>

(* It calls the next service with the whole milliseconds of ctx.timeout_ms. *)
Forward ==
  /\ place = "ready" /\ hop < MaxHops
  /\ protocol' \in Protocols
  /\ left' = (left \div Milli) * Milli
  /\ place' = "caller"
  /\ UNCHANGED <<hop, header, origin, spent, sent>>

Done ==
  /\ place \in {"expired", "rejected"} \/ (place = "ready" /\ hop = MaxHops)
  /\ UNCHANGED deadlineVars

DeadlineNext == Call \/ ForeignCall \/ Arrive \/ Work \/ Forward \/ Done

DeadlineSpec == DeadlineInit /\ [][DeadlineNext]_deadlineVars

---------------------------------------------------------------------------
Places == {"caller", "wire", "handler", "ready", "expired", "rejected"}
TypeOK ==
  /\ protocol \in Protocols /\ hop \in Nat /\ place \in Places
  /\ left \in Int /\ origin \in Int /\ spent \in Nat /\ sent \in Int
  /\ header \in [count : Int, unit : Units]

(* However many calls the chain has and however its headers round, no       *)
(* handler is ever given more time than the first caller had left.          *)
NeverGrows == origin > 0 => left + spent <= origin

(* A header this library wrote for at least a millisecond arrives with time *)
(* left, short of it by less than one unit of the header and the fraction   *)
(* of a millisecond, and is refused only when the protocol cannot write a   *)
(* timeout that long.                                                       *)
Own == header = Written(protocol, sent \div Milli)
ArrivesAlive ==
  /\ place = "handler" /\ Own /\ sent >= Milli =>
       left > 0 /\ sent - left < UnitValue(header.unit) + Milli
  /\ place = "rejected" /\ Own => sent \div Milli >= Largest(protocol)

(* Both hold along every chain of calls. *)
DeadlineHonest == NeverGrows /\ ArrivesAlive
=============================================================================
