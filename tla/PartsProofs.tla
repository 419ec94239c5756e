------------------------------ MODULE PartsProofs ------------------------------
(* Proofs about the parts of the library that share no state: the headers, the
   deadline that travels in them, reflection, the metadata of responses,
   instrumentation, telemetry, decompression and exchanges. Each has an
   inductive invariant over its own variables; that a step of another part
   leaves them alone carries it to PartsSpec. *)
EXTENDS Parts, SequenceTheorems, FiniteSetTheorems, WellFoundedInduction, TLAPS

(* Headers implements a multimap, for any keys and values and any number of *)
(* them.                                                                     *)
StoreTypes ==
    /\ store \in [Keys -> Values \cup {Absent}]
    /\ made \in BOOLEAN
    /\ extra \in [Keys -> Seq(Values)]

\* The two dictionaries in step: lists only exist for keys with a first value,
\* and none is kept when there is no _extra.
InStep ==
    /\ ~made => extra = NoExtra
    /\ \A k \in Keys : ~Has(k) => extra[k] = <<>>

\* Both as one multimap.
Contents == [k \in Keys |-> All(k)]

StoreInv == StoreTypes /\ InStep

\* A value alone.
LEMMA Alone == \A v \in Values : <<v>> \o <<>> = <<v>> /\ <<v>> \in Seq(Values)
<1>1. \A v \in Values : <<v>> \in Seq(Values)
  OBVIOUS
<1>2. QED
  BY <1>1, ConcatEmptySeq

\* Appending leaves the value in front.
LEMMA AppendBehind ==
  ASSUME NEW v \in Values, NEW w \in Values, NEW s \in Seq(Values)
  PROVE  <<v>> \o Append(s, w) = Append(<<v>> \o s, w)
<1>1. <<v>> \in Seq(Values) /\ <<w>> \in Seq(Values)
  BY Alone
<1>2. Append(s, w) = s \o <<w>>
  BY AppendIsConcat
<1>3. <<v>> \o s \in Seq(Values)
  BY <1>1, ConcatProperties
<1>4. Append(<<v>> \o s, w) = (<<v>> \o s) \o <<w>>
  BY <1>3, AppendIsConcat
<1>5. QED
  BY <1>1, <1>2, <1>4, ConcatAssociative

\* An operation keeps the dictionaries in step.
LEMMA OperationKeepsInv == StoreInv /\ StoreNext => StoreInv'
<1> SUFFICES ASSUME StoreInv, StoreNext PROVE StoreInv'
  OBVIOUS
<1> USE HeadersAssumption DEF StoreInv, StoreTypes, InStep, Has, NoExtra
<1>1. ASSUME NEW n \in Names, DelItem(Lower[n]) PROVE StoreInv'
  BY <1>1 DEF DelItem, ForgetDeleted, Forget
<1>2. ASSUME NEW n \in Names, NEW v \in Values, SetItem(Lower[n], v) PROVE StoreInv'
  BY <1>2 DEF SetItem, Forget
<1>3. ASSUME NEW n \in Names, NEW v \in Values, AddItem(Lower[n], v) PROVE StoreInv'
  <2> DEFINE k == Lower[n]
  <2>1. Append(extra[k], v) \in Seq(Values)
    BY AppendProperties
  <2>2. CASE Has(k)
    BY <1>3, <2>1, <2>2 DEF AddItem
  <2>3. CASE ~Has(k)
    BY <1>3, <2>3 DEF AddItem
  <2>4. QED
    BY <2>2, <2>3
<1>4. CASE ClearAll
  BY <1>4, EmptySeq DEF ClearAll
<1>5. QED
  BY <1>1, <1>2, <1>3, <1>4 DEF StoreNext

\* The dictionaries are always in step.
LEMMA InStepAlways == StoreSpec => []StoreInv
<1>1. StoreInit => StoreInv
  <2>1. StoreInit => extra \in [Keys -> Seq(Values)]
    BY EmptySeq DEF StoreInit, NoExtra
  <2>2. StoreInit => InStep
    BY DEF StoreInit, InStep, NoExtra
  <2>3. QED
    BY <2>1, <2>2 DEF StoreInit, StoreInv, StoreTypes
<1>2. StoreInv /\ [StoreNext]_storeVars => StoreInv'
  <2>1. StoreInv /\ UNCHANGED storeVars => StoreInv'
    BY DEF StoreInv, StoreTypes, InStep, Has, NoExtra, storeVars
  <2>2. QED
    BY <2>1, OperationKeepsInv
<1>3. QED
  BY <1>1, <1>2, PTL DEF StoreSpec

\* Every operation is the operation of the multimap.
LEMMA StepSimulates == StoreInv /\ StoreNext => Map!MNext
<1> SUFFICES ASSUME StoreInv, StoreNext PROVE Map!MNext
  OBVIOUS
<1> USE HeadersAssumption DEF StoreInv, StoreTypes, InStep, Has, NoExtra, All, Contents
<1>1. ASSUME NEW n \in Names, DelItem(Lower[n]) PROVE Map!Delete(Lower[n])
  <2>1. Contents[Lower[n]] # <<>>
    BY <1>1 DEF DelItem
  <2>2. Contents' = [Contents EXCEPT ![Lower[n]] = <<>>]
    BY <1>1 DEF DelItem, ForgetDeleted, Forget
  <2>3. QED
    BY <2>1, <2>2 DEF Map!Delete
<1>2. ASSUME NEW n \in Names, NEW v \in Values, SetItem(Lower[n], v)
      PROVE  Map!Set(Lower[n], v)
  <2>1. extra'[Lower[n]] = <<>>
    BY <1>2 DEF SetItem, Forget
  <2>2. Contents' = [Contents EXCEPT ![Lower[n]] = <<v>>]
    <3>1. Contents'[Lower[n]] = <<v>>
      BY <1>2, <2>1, Alone DEF SetItem
    <3>2. \A j \in Keys \ {Lower[n]} : Contents'[j] = Contents[j]
      BY <1>2 DEF SetItem, Forget
    <3>3. QED
      BY <3>1, <3>2
  <2>3. QED
    BY <2>2 DEF Map!Set
<1>3. ASSUME NEW n \in Names, NEW v \in Values, AddItem(Lower[n], v)
      PROVE  Map!Add(Lower[n], v)
  <2> DEFINE k == Lower[n]
  <2>1. Contents'[k] = Append(Contents[k], v)
    <3>1. CASE Has(k)
      <4>1. Contents'[k] = <<store[k]>> \o Append(extra[k], v)
        BY <1>3, <3>1 DEF AddItem
      <4>2. Contents[k] = <<store[k]>> \o extra[k] /\ store[k] \in Values
        BY <3>1
      <4>3. QED
        BY <4>1, <4>2, AppendBehind
    <3>2. CASE ~Has(k)
      BY <1>3, <3>2, Alone DEF AddItem
    <3>3. QED
      BY <3>1, <3>2
  <2>2. \A j \in Keys \ {k} : Contents'[j] = Contents[j]
    BY <1>3 DEF AddItem
  <2>3. QED
    BY <2>1, <2>2 DEF Map!Add
<1>4. ASSUME ClearAll PROVE Map!Clear
  BY <1>4 DEF ClearAll, Map!Clear
<1>5. QED
  BY <1>1, <1>2, <1>3, <1>4 DEF StoreNext, Map!MNext

\* Headers is a multimap: what getall and allitems return is what was set and
\* added, key by key and in order, whatever sequence of operations went before.
THEOREM HeadersAreAMultimap == StoreSpec => ImplementsMultimap
<1>1. StoreInit => Map!MInit
  BY HeadersAssumption DEF StoreInit, All, Has, NoExtra, Map!MInit
<1>2. StoreInv /\ [StoreNext]_storeVars => [Map!MNext]_Contents
  <2>1. UNCHANGED storeVars => UNCHANGED Contents
    BY DEF storeVars, Contents, All, Has
  <2>2. QED
    BY <2>1, StepSimulates
<1>3. QED
  BY <1>1, <1>2, InStepAlways, PTL DEF StoreSpec, ImplementsMultimap, Map!MSpec, Contents

-------------------------------------------------------------------------------
(* The deadline, for every size of the units, every limit of the two        *)
(* protocols and chains of any length.                                      *)
(* Rounding down to whole units never gains: the arithmetic fact behind      *)
(* every branch of _serialize_timeout.                                       *)
LEMMA RoundsDown ==
  ASSUME NEW t \in Nat, NEW s \in Nat \ {0}
  PROVE  /\ t \div s \in Nat
         /\ (t \div s) * s <= t
         /\ t - (t \div s) * s < s
  OBVIOUS

(* A count of units of s milliseconds that does not exceed t milliseconds    *)
(* does not exceed it in nanoseconds either.                                 *)
LEMMA ScalesUp ==
  ASSUME NEW n \in Nat, NEW s \in Nat, NEW t \in Nat, NEW m \in Nat, n * s <= t
  PROVE  n * (s * m) <= t * m
  <1>1. (n * s) * m <= t * m
    OBVIOUS
  <1>2. (n * s) * m = n * (s * m)
    OBVIOUS
  <1> QED BY <1>1, <1>2

(* A count of whole units of t milliseconds, rounded down, stands for at most *)
(* t, and falls short of it by less than a unit.                              *)
LEMMA Rounded ==
  ASSUME NEW t \in Nat, NEW s \in Nat \ {0}, NEW m \in Nat \ {0}
  PROVE  /\ t \div s \in Nat
         /\ (t \div s) * (s * m) <= t * m
         /\ t * m - (t \div s) * (s * m) < s * m
<1>1. t \div s \in Nat /\ (t \div s) * s <= t /\ t - (t \div s) * s < s
  BY RoundsDown
<1> DEFINE q == t \div s
<1> HIDE DEF q
<1>2. q \in Nat /\ q * s <= t /\ t - q * s < s
  BY <1>1 DEF q
<1>3. q * (s * m) <= t * m
  BY <1>2, ScalesUp
<1>4. (t - q * s) * m < s * m
  BY <1>2
<1>5. (t - q * s) * m = t * m - q * (s * m)
  BY <1>2
<1> QED BY <1>2, <1>3, <1>4, <1>5 DEF q

(* Whole units are lost to rounding only below the first of them. *)
LEMMA Counted ==
  ASSUME NEW t \in Nat, NEW s \in Nat \ {0}, NEW n \in Nat
  PROVE  /\ t >= s => t \div s > 0
         /\ t < n * s => t \div s < n
         /\ t \div s >= n => t >= n * s
<1>1. t \div s \in Nat /\ (t \div s) * s <= t /\ t - (t \div s) * s < s
  BY RoundsDown
<1> DEFINE q == t \div s
<1> HIDE DEF q
<1>2. q \in Nat /\ q * s <= t /\ t - q * s < s
  BY <1>1 DEF q
<1>3. t >= s => q > 0
  BY <1>2
<1>4. q >= n => q * s >= n * s
  BY <1>2
<1> QED BY <1>2, <1>3, <1>4 DEF q

(* What a client writes for a timeout of ms milliseconds: a count that stands *)
(* for at most that, for less by no more than a unit, not for nothing, and    *)
(* one the protocol accepts unless the timeout is too long for it.            *)
Faithful(p, ms, h) ==
  /\ h \in [count : Nat, unit : Units]
  /\ Parsed(h) <= ms * Milli
  /\ ms * Milli - Parsed(h) < UnitValue(h.unit)
  /\ ms > 0 => h.count > 0
  /\ ~Accepted(p, h) => ms >= Largest(p)

(* Rounding to a unit of s milliseconds is faithful. *)
LEMMA FaithfulUnit ==
  ASSUME NEW ms \in Nat, NEW s \in Nat \ {0}, NEW unit \in Units,
         UnitValue(unit) = s * Milli, ms >= s,
         ms >= MaxValue * s => ms >= MaxValue * Hour
  PROVE  Faithful("grpc", ms, Header(ms \div s, unit))
<1> USE SizesAssumption
<1>1. /\ ms \div s \in Nat
      /\ (ms \div s) * (s * Milli) <= ms * Milli
      /\ ms * Milli - (ms \div s) * (s * Milli) < s * Milli
  BY Rounded
<1>2. ms \div s > 0 /\ (ms \div s >= MaxValue => ms >= MaxValue * s)
  BY Counted
<1> DEFINE h == Header(ms \div s, unit)
<1>3. h.count = ms \div s /\ h.unit = unit /\ h \in [count : Nat, unit : Units]
  BY <1>1 DEF Header
<1>4. Parsed(h) = (ms \div s) * (s * Milli)
  BY <1>3 DEF Parsed
<1>5. ~Accepted("grpc", h) => ms >= Largest("grpc")
  BY <1>1, <1>2, <1>3 DEF Accepted, Largest
<1> QED BY <1>1, <1>2, <1>3, <1>4, <1>5 DEF Faithful

(* Every branch of _serialize_timeout, and the Connect header, is faithful. *)
LEMMA WritesFaithfully ==
  ASSUME NEW ms \in Nat, NEW p \in Protocols
  PROVE  Faithful(p, ms, Written(p, ms))
<1> USE SizesAssumption
<1>0. /\ UnitValue("n") = 1 /\ UnitValue("m") = Milli
      /\ UnitValue("S") = Second * Milli /\ UnitValue("M") = Minute * Milli
      /\ UnitValue("H") = Hour * Milli
  BY DEF UnitValue
<1>1. CASE p = "connect"
  <2>1. Written(p, ms) = [count |-> ms, unit |-> "m"]
    BY <1>1 DEF Written, Header
  <2> QED BY <1>0, <1>1, <2>1 DEF Faithful, Parsed, Units, Accepted, Largest
<1>2. CASE p = "grpc"
  <2>1. Written(p, ms) = Serialize(ms)
    BY <1>2 DEF Written
  <2>2. CASE ms <= 0
    <3>1. Serialize(ms) = [count |-> 0, unit |-> "n"] /\ ms = 0
      BY <2>2 DEF Serialize, Header
    <3> QED BY <1>0, <1>2, <2>1, <3>1 DEF Faithful, Parsed, Units, Accepted
  <2>3. CASE 0 < ms /\ ms < MaxValue
    <3>1. Serialize(ms) = [count |-> ms, unit |-> "m"]
      BY <2>3 DEF Serialize, Header
    <3> QED BY <1>0, <1>2, <2>1, <2>3, <3>1 DEF Faithful, Parsed, Units, Accepted
  <2>4. CASE ms >= MaxValue /\ ms < MaxValue * Second
    <3>1. Serialize(ms) = Header(ms \div Second, "S")
      BY <2>4 DEF Serialize
    <3>2. ms >= Second /\ (ms >= MaxValue * Second => ms >= MaxValue * Hour)
      BY <2>4
    <3>3. Faithful("grpc", ms, Header(ms \div Second, "S"))
      BY <1>0, <3>2, FaithfulUnit DEF Units
    <3> QED BY <1>2, <2>1, <3>1, <3>3
  <2>5. CASE ms >= MaxValue * Second /\ ms < MaxValue * Minute
    <3>1. Serialize(ms) = Header(ms \div Minute, "M")
      <4>1. MaxValue * Second >= MaxValue
        OBVIOUS
      <4> QED BY <2>5, <4>1 DEF Serialize
    <3>2. ms >= Minute /\ (ms >= MaxValue * Minute => ms >= MaxValue * Hour)
      BY <2>5
    <3>3. Faithful("grpc", ms, Header(ms \div Minute, "M"))
      BY <1>0, <3>2, FaithfulUnit DEF Units
    <3> QED BY <1>2, <2>1, <3>1, <3>3
  <2>6. CASE ~(ms <= 0) /\ ~(0 < ms /\ ms < MaxValue)
             /\ ~(ms >= MaxValue /\ ms < MaxValue * Second)
             /\ ~(ms >= MaxValue * Second /\ ms < MaxValue * Minute)
    <3>1. Serialize(ms) = Header(ms \div Hour, "H")
      BY <2>6 DEF Serialize
    <3>2. ms >= Hour
      BY <2>6
    <3> QED BY <1>0, <1>2, <2>1, <3>1, <3>2, FaithfulUnit DEF Units
  <2> QED BY <2>2, <2>3, <2>4, <2>5, <2>6
<1> QED BY <1>1, <1>2 DEF Protocols

-----------------------------------------------------------------------------
(* The inductive invariant: a header on the wire stands for no more time     *)
(* than its sender had left.                                                 *)
DeadlineInv ==
  /\ TypeOK
  /\ header.count \in Nat
  /\ place \notin {"caller", "expired"} => left \in Nat
  /\ NeverGrows
  /\ place = "wire" => Parsed(header) <= left
  /\ place = "handler" => left = Parsed(header)
  /\ place = "rejected" => ~Accepted(protocol, header)
  /\ place \notin {"caller", "expired"} => hop > 0
  /\ hop = 0 => spent = 0
  /\ sent \in Nat

(* What a header stands for is a number of nanoseconds. *)
LEMMA ParsedType ==
  ASSUME NEW h \in [count : Nat, unit : Units]
  PROVE  Parsed(h) \in Nat
<1> USE SizesAssumption
<1>1. UnitValue(h.unit) \in Nat
  BY DEF UnitValue, Units
<1> QED BY <1>1 DEF Parsed

(* The initial states satisfy the invariant. *)
LEMMA DeadlineInitInv == DeadlineInit => DeadlineInv
<1> SUFFICES ASSUME DeadlineInit PROVE DeadlineInv
  OBVIOUS
<1> USE SizesAssumption, InputsAssumption
<1>1. PICK ms \in Timeouts : left = ms * Milli /\ origin = ms * Milli
  BY DEF DeadlineInit
<1>2. left \in Int /\ origin = left
  BY <1>1
<1> QED BY <1>2
      DEF DeadlineInit, DeadlineInv, TypeOK, NeverGrows, Protocols, Places, Header, Units

(* Every step keeps it. *)
LEMMA DeadlineNextInv == DeadlineInv /\ [DeadlineNext]_deadlineVars => DeadlineInv'
<1> SUFFICES ASSUME DeadlineInv, [DeadlineNext]_deadlineVars PROVE DeadlineInv'
  OBVIOUS
<1> USE SizesAssumption, InputsAssumption
<1>1. ASSUME Call PROVE DeadlineInv'
  <2>1. CASE left <= 0
    BY <1>1, <2>1 DEF Call, DeadlineInv, TypeOK, NeverGrows, Places
  <2>2. CASE left > 0
    <3>1. left \in Nat /\ left \div Milli \in Nat /\ (left \div Milli) * Milli <= left
      <4>1. left \in Nat
        BY <2>2 DEF DeadlineInv, TypeOK
      <4> QED BY <4>1, RoundsDown
    <3>2. /\ Written(protocol, left \div Milli) \in [count : Nat, unit : Units]
          /\ Parsed(Written(protocol, left \div Milli)) <= (left \div Milli) * Milli
      BY <3>1, WritesFaithfully DEF DeadlineInv, TypeOK, Faithful
    <3>3. Parsed(Written(protocol, left \div Milli)) \in Nat
      BY <3>2, ParsedType
    <3>4. /\ header' = Written(protocol, left \div Milli)
          /\ place' = "wire" /\ hop' = hop + 1 /\ sent' = left
          /\ UNCHANGED <<protocol, left, origin, spent>>
      BY <1>1, <2>2 DEF Call, DeadlineInv, TypeOK
    <3>5. Parsed(header') <= left'
      BY <3>1, <3>2, <3>3, <3>4
    <3>6. TypeOK'
      BY <3>1, <3>2, <3>4 DEF DeadlineInv, TypeOK, Places
    <3>7. header'.count \in Nat /\ left' \in Nat /\ NeverGrows'
      BY <3>1, <3>2, <3>4 DEF DeadlineInv, NeverGrows
    <3>8. hop' \in Nat /\ hop' > 0 /\ sent' \in Nat
      BY <3>1, <3>4 DEF DeadlineInv, TypeOK
    <3> QED BY <3>4, <3>5, <3>6, <3>7, <3>8 DEF DeadlineInv, Parsed
  <2> QED BY <2>1, <2>2 DEF DeadlineInv, TypeOK
<1>2. ASSUME ForeignCall PROVE DeadlineInv'
  <2>1. PICK count \in Foreign, unit \in Units :
          /\ header' = [count |-> count, unit |-> unit]
          /\ left' = Parsed([count |-> count, unit |-> unit])
          /\ sent' = Parsed([count |-> count, unit |-> unit])
          /\ origin' = Parsed([count |-> count, unit |-> unit])
    BY <1>2 DEF ForeignCall, Header, Units
  <2>2. /\ place = "caller" /\ place' = "wire" /\ hop' = 1 /\ hop = 0
        /\ UNCHANGED <<protocol, spent>>
    BY <1>2 DEF ForeignCall
  <2>3. left' \in Nat
    BY <2>1, ParsedType
  <2> QED BY <2>1, <2>2, <2>3 DEF DeadlineInv, TypeOK, NeverGrows, Places
<1>3. ASSUME Arrive PROVE DeadlineInv'
  <2>1. Parsed(header) \in Nat
    BY ParsedType DEF DeadlineInv, TypeOK
  <2> QED BY <1>3, <2>1 DEF Arrive, DeadlineInv, TypeOK, NeverGrows, Places
<1>4. ASSUME Work PROVE DeadlineInv'
  BY <1>4 DEF Work, DeadlineInv, TypeOK, NeverGrows, Places
<1>5. ASSUME Forward PROVE DeadlineInv'
  <2>1. left \in Nat
    BY <1>5 DEF Forward, DeadlineInv
  <2>2. left' \in Nat /\ left' <= left
    BY <1>5, <2>1, RoundsDown DEF Forward
  <2> QED BY <1>5, <2>1, <2>2 DEF Forward, DeadlineInv, TypeOK, NeverGrows, Places
<1>6. CASE UNCHANGED deadlineVars
  BY <1>6 DEF deadlineVars, DeadlineInv, TypeOK, NeverGrows, Parsed
<1> QED BY <1>1, <1>2, <1>3, <1>4, <1>5, <1>6 DEF DeadlineNext, Done

(* A header this library wrote reaches the handler with time left. *)
LEMMA InvArrives == DeadlineInv => ArrivesAlive
<1> SUFFICES ASSUME DeadlineInv, Own PROVE ArrivesAlive
  BY DEF ArrivesAlive
<1> USE SizesAssumption
<1> DEFINE ms == sent \div Milli
<1>1. ms \in Nat /\ ms * Milli <= sent /\ sent - ms * Milli < Milli
  BY RoundsDown DEF DeadlineInv
<1>2. protocol \in Protocols /\ header = Written(protocol, ms) /\ sent \in Nat
  BY DEF DeadlineInv, TypeOK, Own
<1>3. Faithful(protocol, ms, header)
  BY <1>1, <1>2, WritesFaithfully
<1>4. sent >= Milli => ms > 0
  BY Counted DEF DeadlineInv
<1> HIDE DEF ms
<1>5. ASSUME place = "handler", sent >= Milli
      PROVE  left > 0 /\ sent - left < UnitValue(header.unit) + Milli
  <2>1. left = Parsed(header)
    BY <1>5 DEF DeadlineInv
  <2>2. header.count \in Nat /\ header.count > 0 /\ header.unit \in Units
    BY <1>3, <1>4, <1>5 DEF Faithful
  <2>3. UnitValue(header.unit) \in Nat /\ UnitValue(header.unit) > 0
    BY <2>2 DEF Units, UnitValue
  <2>4. Parsed(header) \in Nat /\ Parsed(header) > 0
    BY <2>2, <2>3 DEF Parsed
  <2>5. ms * Milli - Parsed(header) < UnitValue(header.unit)
    BY <1>3 DEF Faithful
  <2>6. sent - Parsed(header) < UnitValue(header.unit) + Milli
    <3>1. ms * Milli \in Nat
      BY <1>1
    <3> QED BY <1>1, <1>2, <2>3, <2>4, <2>5, <3>1
  <2> QED BY <2>1, <2>4, <2>6
<1>6. ASSUME place = "rejected" PROVE ms >= Largest(protocol)
  <2>1. ~Accepted(protocol, header)
    BY <1>6 DEF DeadlineInv
  <2> QED BY <1>3, <2>1 DEF Faithful
<1> QED BY <1>5, <1>6 DEF ArrivesAlive, ms

(* A deadline never grows along a chain of calls, over either protocol and   *)
(* with any rounding of its headers, and a header this library wrote arrives *)
(* with time left, short by less than a unit, or is too long to be written.  *)
THEOREM DeadlinesAreHonest == DeadlineSpec => []DeadlineHonest
<1>1. DeadlineInv => DeadlineHonest
  BY InvArrives DEF DeadlineInv, DeadlineHonest
<1> QED BY <1>1, DeadlineInitInv, DeadlineNextInv, PTL DEF DeadlineSpec

-------------------------------------------------------------------------------
(* Reflection, for every set of files, import graph, list of descriptors    *)
(* and number of streams.                                                   *)
(* The inductive invariant.  A walk has seen the imports of every file it    *)
(* has seen, or has them in its queue; it stays within the needs of its      *)
(* root; and it yields only what it had not seen when it started.            *)
ReflectionTypes ==
  /\ imports \in [Files -> Seq(Files)]
  /\ descs \in Seq(Files)
  /\ known \in SUBSET Files
  /\ seen \in [Walkers -> SUBSET Files]
  /\ queue \in [Walkers -> Seq(Files)]
  /\ walking \in SUBSET Walkers
  /\ root \in [Walkers -> Files \cup {NoFile}]
  /\ out \in [Walkers -> SUBSET Files]
  /\ before \in [Walkers -> SUBSET Files]
  /\ held \in [Streams -> SUBSET Files]

Frontier(w) ==
  \A f \in seen[w] : ToSet(imports[f]) \subseteq seen[w] \cup ToSet(queue[w])
AtRest(w) == w \notin walking => queue[w] = <<>>
Underway(w) ==
  w \in walking =>
    /\ root[w] \in Files /\ root[w] \in out[w]
    /\ seen[w] = before[w] \cup out[w]
    /\ ClosedUnderImports(before[w])
    /\ \A f \in out[w] : f = root[w] \/ f \notin before[w]
    /\ out[w] \subseteq Needs(root[w])
    /\ ToSet(queue[w]) \subseteq Needs(root[w])
WalkerInv(w) == Frontier(w) /\ AtRest(w) /\ Underway(w)
Shown(w) == IF w \in walking THEN before[w] ELSE seen[w]
HeldInv == \A s \in Streams : held[s] = Shown(s)
KnownInv == known = Shown("registry")
ReflectionInv == ReflectionTypes /\ (\A w \in Walkers : WalkerInv(w)) /\ HeldInv /\
    KnownInv

-----------------------------------------------------------------------------
(* The elements of a queue.                                                *)

\* Nothing is in the set of an empty sequence.
LEMMA EmptyToSet == ToSet(<<>>) = {}
  BY DEF ToSet

(* Taking the head off a queue leaves the rest of its elements. *)
LEMMA HeadTail ==
  ASSUME NEW S, NEW q \in Seq(S), q # <<>>
  PROVE  /\ Head(q) \in S /\ Tail(q) \in Seq(S)
         /\ ToSet(q) = {Head(q)} \cup ToSet(Tail(q))
<1>1. Head(q) \in S /\ Tail(q) \in Seq(S) /\ Len(q) > 0
  BY EmptySeq
<1>2. Len(Tail(q)) = Len(q) - 1 /\ Head(q) = q[1]
  BY <1>1
<1>3. \A i \in 1..(Len(q) - 1) : Tail(q)[i] = q[i + 1]
  BY <1>1
<1>4. ASSUME NEW x \in ToSet(q) PROVE x \in {Head(q)} \cup ToSet(Tail(q))
  <2>1. PICK i \in 1..Len(q) : x = q[i]
    BY DEF ToSet
  <2>2. CASE i = 1
    BY <1>2, <2>1, <2>2
  <2>3. CASE i # 1
    <3>1. i - 1 \in 1..(Len(q) - 1) /\ x = Tail(q)[i - 1]
      BY <1>3, <2>1, <2>3
    <3>2. DOMAIN Tail(q) = 1..(Len(q) - 1)
      BY <1>1, <1>2
    <3>3. x \in ToSet(Tail(q))
      BY <3>1, <3>2 DEF ToSet
    <3> QED BY <3>3
  <2> QED BY <2>2, <2>3
<1>5. ASSUME NEW x \in ToSet(Tail(q)) PROVE x \in ToSet(q)
  <2>1. PICK i \in 1..(Len(q) - 1) : x = Tail(q)[i]
    BY <1>1, <1>2 DEF ToSet
  <2>2. i + 1 \in 1..Len(q) /\ x = q[i + 1]
    BY <1>1, <1>3, <2>1
  <2> QED BY <2>2 DEF ToSet
<1>6. Head(q) \in ToSet(q)
  BY <1>1, <1>2 DEF ToSet
<1> QED BY <1>1, <1>4, <1>5, <1>6

(* A concatenation has the elements of both parts. *)
LEMMA ToSetConcat ==
  ASSUME NEW S, NEW q \in Seq(S), NEW r \in Seq(S)
  PROVE  q \o r \in Seq(S) /\ ToSet(q \o r) = ToSet(q) \cup ToSet(r)
<1>1. q \o r \in Seq(S) /\ Len(q \o r) = Len(q) + Len(r)
  OBVIOUS
<1>2. \A i \in 1..(Len(q) + Len(r)) :
        (q \o r)[i] = IF i <= Len(q) THEN q[i] ELSE r[i - Len(q)]
  OBVIOUS
<1>3. ASSUME NEW x \in ToSet(q \o r) PROVE x \in ToSet(q) \cup ToSet(r)
  <2>1. PICK i \in 1..(Len(q) + Len(r)) : x = (q \o r)[i]
    BY <1>1 DEF ToSet
  <2>2. CASE i <= Len(q)
    BY <1>2, <2>1, <2>2 DEF ToSet
  <2>3. CASE i > Len(q)
    <3>1. i - Len(q) \in 1..Len(r) /\ x = r[i - Len(q)]
      BY <1>2, <2>1, <2>3
    <3> QED BY <3>1 DEF ToSet
  <2> QED BY <2>1, <2>2, <2>3
<1>4. ASSUME NEW x \in ToSet(q) PROVE x \in ToSet(q \o r)
  <2>1. PICK i \in 1..Len(q) : x = q[i]
    BY DEF ToSet
  <2>2. i \in 1..Len(q \o r) /\ x = (q \o r)[i]
    BY <1>1, <1>2, <2>1
  <2> QED BY <2>2 DEF ToSet
<1>5. ASSUME NEW x \in ToSet(r) PROVE x \in ToSet(q \o r)
  <2>1. PICK i \in 1..Len(r) : x = r[i]
    BY DEF ToSet
  <2>2. Len(q) + i \in 1..Len(q \o r) /\ x = (q \o r)[Len(q) + i]
    BY <1>1, <1>2, <2>1
  <2> QED BY <2>2 DEF ToSet
<1> QED BY <1>1, <1>3, <1>4, <1>5

-----------------------------------------------------------------------------
(* A file is among its own needs, and with a file its imports are.         *)
LEMMA NeedsClosed ==
  ASSUME NEW f \in Files, ReflectionTypes
  PROVE  /\ f \in Needs(f)
         /\ \A g \in Needs(f) : ToSet(imports[g]) \subseteq Needs(f)
<1>1. f \in Needs(f)
  BY DEF Needs
<1>2. ASSUME NEW g \in Needs(f), NEW h \in ToSet(imports[g]) PROVE h \in Needs(f)
  <2>1. g \in Files
    BY DEF Needs
  <2>2. imports[g] \in Seq(Files)
    BY <2>1 DEF ReflectionTypes
  <2>3. h \in Files
    BY <2>2 DEF ToSet
  <2>4. ASSUME NEW S \in SUBSET Files, f \in S, ClosedUnderImports(S) PROVE h \in S
    <3>1. g \in S
      BY <2>4 DEF Needs
    <3> QED BY <2>4, <3>1 DEF ClosedUnderImports
  <2> QED BY <2>3, <2>4 DEF Needs
<1> QED BY <1>1, <1>2

(* A walker at rest, or done, has seen a closed set of files. *)
LEMMA SeenClosed ==
  ASSUME NEW w \in Walkers, WalkerInv(w), queue[w] = <<>>
  PROVE  ClosedUnderImports(seen[w])
  BY EmptyToSet DEF WalkerInv, Frontier, ClosedUnderImports

-----------------------------------------------------------------------------
(* The initial states satisfy the invariant. *)
LEMMA ReflectionInitInv == ReflectionInit => ReflectionInv
<1> SUFFICES ASSUME ReflectionInit PROVE ReflectionInv
  OBVIOUS
<1>1. ReflectionTypes
  BY ReflectionAssumption DEF ReflectionInit, ReflectionTypes
<1>2. ASSUME NEW w \in Walkers PROVE WalkerInv(w)
  BY DEF ReflectionInit, WalkerInv, Frontier, AtRest, Underway
<1>3. HeldInv /\ KnownInv
  BY DEF ReflectionInit, HeldInv, KnownInv, Shown, Walkers
<1> QED BY <1>1, <1>2, <1>3 DEF ReflectionInv

(* A walker that a step leaves alone keeps its invariant. *)
LEMMA Untouched ==
  ASSUME NEW w \in Walkers, WalkerInv(w), imports' = imports,
         seen'[w] = seen[w], queue'[w] = queue[w], root'[w] = root[w],
         out'[w] = out[w], before'[w] = before[w], (w \in walking') = (w \in walking)
  PROVE  WalkerInv(w)'
<1>1. \A S : ClosedUnderImports(S)' = (\A f \in S : ToSet(imports[f]) \subseteq S)
  BY DEF ClosedUnderImports
<1>2. Needs(root[w])' = Needs(root[w])
  BY DEF Needs, ClosedUnderImports
<1>3. Frontier(w)' /\ AtRest(w)'
  BY DEF WalkerInv, Frontier, AtRest
<1>4. Underway(w)'
  BY <1>2 DEF WalkerInv, Underway, ClosedUnderImports
<1> QED BY <1>3, <1>4 DEF WalkerInv

(* Starting a walk at rest. *)
LEMMA StartKeeps ==
  ASSUME ReflectionTypes, NEW w \in Walkers, NEW f \in Files, w \notin walking,
         \A v \in Walkers : WalkerInv(v), imports' = imports, Start(w, f)
  PROVE  /\ \A v \in Walkers : WalkerInv(v)'
         /\ seen' \in [Walkers -> SUBSET Files] /\ queue' \in [Walkers -> Seq(Files)]
         /\ walking' \in SUBSET Walkers /\ root' \in [Walkers -> Files \cup {NoFile}]
         /\ out' \in [Walkers -> SUBSET Files] /\ before' \in [Walkers -> SUBSET Files]
         /\ before'[w] = seen[w] /\ walking' = walking \cup {w}
         /\ \A v \in Walkers \ {w} : seen'[v] = seen[v] /\ before'[v] = before[v]
<1>1. /\ seen'[w] = seen[w] \cup {f} /\ out'[w] = {f} /\ root'[w] = f
      /\ queue'[w] = imports[f] /\ walking' = walking \cup {w} /\ before'[w] = seen[w]
  BY DEF Start, ReflectionTypes
<1>2. ASSUME NEW v \in Walkers \ {w} PROVE WalkerInv(v)'
  <2>1. /\ seen'[v] = seen[v] /\ queue'[v] = queue[v] /\ root'[v] = root[v]
        /\ out'[v] = out[v] /\ before'[v] = before[v]
    BY DEF Start, ReflectionTypes
  <2>2. (v \in walking') = (v \in walking)
    BY <1>1
  <2> QED BY <2>1, <2>2, Untouched
<1>3. ClosedUnderImports(seen[w])
  BY SeenClosed DEF WalkerInv, AtRest
<1>4. Frontier(w)'
  BY <1>1, <1>3 DEF Frontier, ClosedUnderImports
<1>5. AtRest(w)'
  BY <1>1 DEF AtRest
<1>6. Needs(f)' = Needs(f)
  BY DEF Needs, ClosedUnderImports
<1>7. f \in Needs(f) /\ ToSet(imports[f]) \subseteq Needs(f)
  BY NeedsClosed
<1>8. Underway(w)'
  <2>1. ClosedUnderImports(before[w])'
    BY <1>1, <1>3 DEF ClosedUnderImports
  <2>2. Needs(root[w])' = Needs(f)
    BY <1>1, <1>6
  <2> QED BY <1>1, <1>7, <2>1, <2>2 DEF Underway
<1>9. imports[f] \in Seq(Files)
  BY DEF ReflectionTypes
<1> QED BY <1>1, <1>2, <1>4, <1>5, <1>8, <1>9 DEF WalkerInv, ReflectionTypes, Start

-----------------------------------------------------------------------------
(* Looking at the next import. *)
LEMMA VisitKeeps ==
  ASSUME ReflectionInv, NEW w \in Walkers, Visit(w) PROVE ReflectionInv'
<1> DEFINE f == Head(queue[w])
           rest == Tail(queue[w])
<1>1. /\ w \in walking /\ queue[w] # <<>> /\ queue[w] \in Seq(Files)
      /\ UNCHANGED <<imports, descs, known, walking, root, before, held>>
  BY DEF Visit, ReflectionInv, ReflectionTypes
<1>2. f \in Files /\ rest \in Seq(Files) /\ ToSet(queue[w]) = {f} \cup ToSet(rest)
  BY <1>1, HeadTail
<1>3. imports[f] \in Seq(Files)
  BY <1>2 DEF ReflectionInv, ReflectionTypes
<1>4. /\ rest \o imports[f] \in Seq(Files)
      /\ ToSet(rest \o imports[f]) = ToSet(rest) \cup ToSet(imports[f])
  <2> HIDE DEF f, rest
  <2> QED BY <1>2, <1>3, ToSetConcat
<1>5. WalkerInv(w) /\ root[w] \in Files
  BY <1>1 DEF ReflectionInv, WalkerInv, Underway
<1>6. f \in Needs(root[w]) /\ ToSet(imports[f]) \subseteq Needs(root[w])
  <2>1. f \in Needs(root[w])
    BY <1>1, <1>2, <1>5 DEF WalkerInv, Underway
  <2> QED BY <1>5, <2>1, NeedsClosed DEF ReflectionInv
<1>7. Needs(root[w])' = Needs(root[w])
  BY <1>1 DEF Needs, ClosedUnderImports
<1>8. ASSUME NEW v \in Walkers, v # w PROVE WalkerInv(v)'
  <2>1. seen'[v] = seen[v] /\ queue'[v] = queue[v] /\ out'[v] = out[v]
    BY <1>8 DEF Visit, ReflectionInv, ReflectionTypes
  <2> QED BY <1>1, <2>1, Untouched DEF ReflectionInv
<1>9. CASE f \in seen[w]
  <2>1. /\ queue' = [queue EXCEPT ![w] = rest] /\ UNCHANGED <<seen, out>>
    BY <1>9 DEF Visit, Skips
  <2>2. queue'[w] = rest
    BY <2>1 DEF ReflectionInv, ReflectionTypes
  <2>3. Frontier(w)' /\ AtRest(w)'
    BY <1>1, <1>2, <1>5, <1>9, <2>1, <2>2 DEF WalkerInv, Frontier, AtRest
  <2>4. Underway(w)'
    BY <1>1, <1>2, <1>5, <1>7, <2>1, <2>2 DEF WalkerInv, Underway, ClosedUnderImports
  <2>5. ReflectionTypes'
    BY <1>1, <1>2, <2>1 DEF ReflectionInv, ReflectionTypes
  <2> QED BY <1>1, <1>8, <2>1, <2>3, <2>4, <2>5
          DEF ReflectionInv, WalkerInv, HeldInv, KnownInv, Shown
<1>10. CASE f \notin seen[w]
  <2>1. /\ seen' = [seen EXCEPT ![w] = @ \cup {f}]
        /\ out' = [out EXCEPT ![w] = @ \cup {f}]
        /\ queue' = [queue EXCEPT ![w] = rest \o imports[f]]
    BY <1>10 DEF Visit, Skips, Enqueue
  <2>2. /\ seen'[w] = seen[w] \cup {f} /\ out'[w] = out[w] \cup {f}
        /\ queue'[w] = rest \o imports[f]
    BY <2>1 DEF ReflectionInv, ReflectionTypes
  <2>3. Frontier(w)' /\ AtRest(w)'
    BY <1>1, <1>2, <1>4, <1>5, <2>2 DEF WalkerInv, Frontier, AtRest
  <2>4. Underway(w)'
    <3>1. ClosedUnderImports(before[w])'
      BY <1>1, <1>5 DEF WalkerInv, Underway, ClosedUnderImports
    <3>2. f \notin before[w]
      BY <1>1, <1>5, <1>10 DEF WalkerInv, Underway
    <3> QED BY <1>1, <1>2, <1>4, <1>5, <1>6, <1>7, <2>2, <3>1, <3>2
            DEF WalkerInv, Underway
  <2>5. ReflectionTypes'
    BY <1>1, <1>2, <1>4, <2>1 DEF ReflectionInv, ReflectionTypes
  <2>6. HeldInv' /\ KnownInv'
    <3>1. \A v \in Walkers : Shown(v)' = Shown(v)
      BY <1>1, <2>1 DEF Shown, ReflectionInv, ReflectionTypes
    <3> QED BY <1>1, <3>1 DEF ReflectionInv, HeldInv, KnownInv, Walkers
  <2> QED BY <1>8, <2>3, <2>4, <2>5, <2>6 DEF ReflectionInv, WalkerInv
<1> QED BY <1>9, <1>10

(* Ending a walk: what it yielded is what was not shown before. *)
LEMMA EndKeeps ==
  ASSUME ReflectionInv, NEW w \in Walkers, Exhausted(w), walking' = walking \ {w},
         UNCHANGED <<imports, seen, queue, root, out, before>>
  PROVE  /\ \A v \in Walkers : WalkerInv(v)'
         /\ Shown(w)' = Shown(w) \cup out[w]
         /\ \A v \in Walkers \ {w} : Shown(v)' = Shown(v)
<1>1. ASSUME NEW v \in Walkers \ {w} PROVE WalkerInv(v)'
  BY Untouched DEF ReflectionInv
<1>2. WalkerInv(w)'
  BY DEF ReflectionInv, WalkerInv, Frontier, AtRest, Underway, Exhausted
<1>3. Shown(w)' = Shown(w) \cup out[w]
  BY DEF ReflectionInv, WalkerInv, Underway, Exhausted, Shown
<1> QED BY <1>1, <1>2, <1>3 DEF Shown

(* Every step keeps the invariant. *)
LEMMA ReflectionNextInv == ReflectionInv /\ [ReflectionNext]_reflectionVars =>
    ReflectionInv'
<1> SUFFICES ASSUME ReflectionInv, [ReflectionNext]_reflectionVars PROVE ReflectionInv'
  OBVIOUS
<1>1. ASSUME AddDesc PROVE ReflectionInv'
  <2>1. /\ descs # <<>> /\ "registry" \notin walking /\ "registry" \in Walkers
        /\ Start("registry", Head(descs)) /\ descs' = Tail(descs)
        /\ UNCHANGED <<imports, known, held>>
    BY <1>1 DEF AddDesc, Walkers
  <2>2. Head(descs) \in Files /\ Tail(descs) \in Seq(Files)
    BY <2>1, HeadTail DEF ReflectionInv, ReflectionTypes
  <2>3. /\ \A v \in Walkers : WalkerInv(v)'
        /\ seen' \in [Walkers -> SUBSET Files] /\ queue' \in [Walkers -> Seq(Files)]
        /\ walking' \in SUBSET Walkers /\ root' \in [Walkers -> Files \cup {NoFile}]
        /\ out' \in [Walkers -> SUBSET Files] /\ before' \in [Walkers -> SUBSET Files]
        /\ before'["registry"] = seen["registry"] /\ walking' = walking \cup {"registry"}
        /\ \A v \in Walkers \ {"registry"} : seen'[v] = seen[v] /\ before'[v] = before[v]
    BY <2>1, <2>2, StartKeeps DEF ReflectionInv
  <2>4. \A v \in Walkers : Shown(v)' = Shown(v)
    BY <2>1, <2>3 DEF Shown
  <2>5. ReflectionTypes'
    BY <2>1, <2>2, <2>3 DEF ReflectionInv, ReflectionTypes
  <2> QED BY <2>1, <2>3, <2>4, <2>5 DEF ReflectionInv, HeldInv, KnownInv, Walkers
<1>2. ASSUME DescAdded PROVE ReflectionInv'
  <2>1. /\ Exhausted("registry") /\ known' = known \cup out["registry"]
        /\ walking' = walking \ {"registry"} /\ "registry" \in Walkers
        /\ UNCHANGED <<imports, descs, seen, queue, root, out, before, held>>
    BY <1>2 DEF DescAdded, Walkers
  <2>2. /\ \A v \in Walkers : WalkerInv(v)'
        /\ Shown("registry")' = Shown("registry") \cup out["registry"]
        /\ \A v \in Walkers \ {"registry"} : Shown(v)' = Shown(v)
    BY <2>1, EndKeeps
  <2>3. ReflectionTypes'
    BY <2>1 DEF ReflectionInv, ReflectionTypes
  <2>4. \A s \in Streams : s \in Walkers \ {"registry"}
    BY ReflectionAssumption DEF Walkers
  <2> QED BY <2>1, <2>2, <2>3, <2>4 DEF ReflectionInv, HeldInv, KnownInv
<1>3. ASSUME NEW w \in Walkers, Visit(w) PROVE ReflectionInv'
  BY <1>3, VisitKeeps
<1>4. ASSUME NEW s \in Streams, Ask(s) PROVE ReflectionInv'
  <2>1. s \notin walking /\ s \in Walkers /\ UNCHANGED <<imports, descs, known, held>>
    BY <1>4 DEF Ask, Walkers
  <2>2. CASE UNCHANGED walk
    <3>1. ReflectionTypes'
      BY <2>1, <2>2 DEF ReflectionInv, ReflectionTypes, walk
    <3>2. \A v \in Walkers : WalkerInv(v)'
      BY <2>1, <2>2, Untouched DEF ReflectionInv, walk
    <3>3. \A v \in Walkers : Shown(v)' = Shown(v)
      BY <2>2 DEF Shown, walk
    <3> QED BY <2>1, <3>1, <3>2, <3>3 DEF ReflectionInv, HeldInv, KnownInv, Walkers
  <2>3. ASSUME NEW f \in Files, Start(s, f) PROVE ReflectionInv'
    <3>1. /\ \A v \in Walkers : WalkerInv(v)'
          /\ seen' \in [Walkers -> SUBSET Files] /\ queue' \in [Walkers -> Seq(Files)]
          /\ walking' \in SUBSET Walkers /\ root' \in [Walkers -> Files \cup {NoFile}]
          /\ out' \in [Walkers -> SUBSET Files] /\ before' \in [Walkers -> SUBSET Files]
          /\ before'[s] = seen[s] /\ walking' = walking \cup {s}
          /\ \A v \in Walkers \ {s} : seen'[v] = seen[v] /\ before'[v] = before[v]
      BY <2>1, <2>3, StartKeeps DEF ReflectionInv
    <3>2. \A v \in Walkers : Shown(v)' = Shown(v)
      BY <2>1, <3>1 DEF Shown
    <3>3. ReflectionTypes'
      BY <2>1, <3>1 DEF ReflectionInv, ReflectionTypes
    <3> QED BY <2>1, <3>1, <3>2, <3>3 DEF ReflectionInv, HeldInv, KnownInv, Walkers
  <2>4. PICK f \in Files :
          \/ AskFor(s, FileNamed(f))
          \/ \E symbol \in Symbols : AskFor(s, FindFile(symbol, f))
    BY <1>4 DEF Ask
  <2>5. \A symbol : FindFile(symbol, f) \in {f, NoFile} /\ FileNamed(f) \in {f, NoFile}
    BY DEF FindFile, FileNamed
  <2>6. UNCHANGED walk \/ Start(s, f)
    BY <2>4, <2>5 DEF AskFor
  <2> QED BY <2>2, <2>3, <2>6
<1>5. ASSUME NEW s \in Streams, Answer(s) PROVE ReflectionInv'
  <2>1. /\ Exhausted(s) /\ held' = [held EXCEPT ![s] = @ \cup out[s]]
        /\ walking' = walking \ {s} /\ s \in Walkers
        /\ UNCHANGED <<imports, descs, known, seen, queue, root, out, before>>
    BY <1>5 DEF Answer, Walkers
  <2>2. /\ \A v \in Walkers : WalkerInv(v)'
        /\ Shown(s)' = Shown(s) \cup out[s]
        /\ \A v \in Walkers \ {s} : Shown(v)' = Shown(v)
    BY <2>1, EndKeeps
  <2>3. out[s] \in SUBSET Files /\ held[s] \in SUBSET Files
    BY <2>1 DEF ReflectionInv, ReflectionTypes
  <2>4. ReflectionTypes'
    BY <2>1, <2>3 DEF ReflectionInv, ReflectionTypes
  <2>5. "registry" \in Walkers \ {s}
    BY ReflectionAssumption DEF Walkers
  <2>6. KnownInv'
    BY <2>1, <2>2, <2>5 DEF ReflectionInv, KnownInv
  <2>7. ASSUME NEW t \in Streams PROVE held'[t] = Shown(t)'
    <3>1. t \in Walkers /\ held[t] = Shown(t)
      BY DEF ReflectionInv, HeldInv, Walkers
    <3> QED BY <2>1, <2>2, <3>1 DEF ReflectionInv, ReflectionTypes
  <2>8. HeldInv'
    BY <2>7 DEF HeldInv
  <2> QED BY <2>2, <2>4, <2>6, <2>8 DEF ReflectionInv
<1>6. CASE UNCHANGED reflectionVars
  <2>1. ReflectionTypes' /\ \A v \in Walkers : Shown(v)' = Shown(v)
    BY <1>6 DEF ReflectionInv, ReflectionTypes, Shown, reflectionVars, walk
  <2>2. \A v \in Walkers : WalkerInv(v)'
    BY <1>6, Untouched DEF ReflectionInv, reflectionVars, walk
  <2> QED BY <1>6, <2>1, <2>2
        DEF ReflectionInv, HeldInv, KnownInv, Walkers, reflectionVars
<1> QED BY <1>1, <1>2, <1>3, <1>4, <1>5, <1>6 DEF ReflectionNext

-----------------------------------------------------------------------------
(* The invariant gives both parts of the property. *)
LEMMA InvCorrect == ReflectionInv => ReflectionCorrect
<1> SUFFICES ASSUME ReflectionInv PROVE ReflectionCorrect
  OBVIOUS
<1>1. ASSUME NEW w \in Walkers, w \notin walking PROVE ClosedUnderImports(seen[w])
  <2>1. WalkerInv(w) /\ queue[w] = <<>>
    BY <1>1 DEF ReflectionInv, WalkerInv, AtRest
  <2> QED BY <2>1, SeenClosed
<1>2. ClientsCanBuild
  BY <1>1 DEF ReflectionInv, HeldInv, KnownInv, Shown, ClientsCanBuild, Built, Walkers
<1>3. ASSUME NEW w \in Walkers, Exhausted(w)
      PROVE  out[w] = {root[w]} \cup (Needs(root[w]) \ before[w])
  <2>1. WalkerInv(w) /\ w \in walking /\ queue[w] = <<>>
    BY <1>3 DEF ReflectionInv, Exhausted
  <2>2. ClosedUnderImports(seen[w]) /\ seen[w] \in SUBSET Files
    BY <2>1, SeenClosed DEF ReflectionInv, ReflectionTypes
  <2>3. root[w] \in seen[w]
    BY <2>1 DEF WalkerInv, Underway
  <2>4. Needs(root[w]) \subseteq seen[w]
    BY <2>2, <2>3 DEF Needs
  <2> QED BY <2>1, <2>4 DEF WalkerInv, Underway
<1>4. AnswersAreExact
  BY <1>3 DEF ReflectionInv, HeldInv, Shown, AnswersAreExact
<1> QED BY <1>2, <1>4 DEF ReflectionCorrect

(* Whatever was asked before, on this stream or on another, a client can     *)
(* build every file it was answered, and an answer repeats nothing but the   *)
(* file asked for.                                                           *)
THEOREM ReflectionIsCorrect == ReflectionSpec => []ReflectionCorrect
  BY ReflectionInitInv, ReflectionNextInv, InvCorrect, PTL DEF ReflectionSpec

-----------------------------------------------------------------------------
(* The metadata of responses: a stack of contexts. *)

\* Taking the last element off.
LEMMA FrontLast ==
  ASSUME NEW S, NEW s \in Seq(S), s # <<>>
  PROVE  /\ Front(s) \in Seq(S) /\ Len(s) \in Nat \ {0}
         /\ Len(Front(s)) = Len(s) - 1 /\ Last(s) = s[Len(s)] /\ Last(s) \in S
         /\ \A i \in 1..(Len(s) - 1) : Front(s)[i] = s[i]
<1>1. Len(s) \in Nat \ {0}
  BY EmptySeq
<1>2. s[Len(s)] \in S
  BY <1>1
<1>3. /\ Front(s) \in Seq(S) /\ Len(Front(s)) = Len(s) - 1
      /\ \A i \in 1..(Len(s) - 1) : Front(s)[i] = s[i]
  <2> DEFINE n == Len(s) - 1
  <2>1. n \in Nat /\ 1 \in Int /\ \A i \in 1..n : s[i] \in S
    BY <1>1
  <2> HIDE DEF n
  <2>2. /\ SubSeq(s, 1, n) \in Seq(S)
        /\ Len(SubSeq(s, 1, n)) = IF 1 <= n THEN n - 1 + 1 ELSE 0
        /\ \A i \in 1..n - 1 + 1 : SubSeq(s, 1, n)[i] = s[1 + i - 1]
    BY <2>1, SubSeqProperties
  <2>3. /\ Len(SubSeq(s, 1, n)) = n
        /\ \A i \in 1..n : SubSeq(s, 1, n)[i] = s[i]
    BY <2>1, <2>2
  <2> QED BY <2>2, <2>3 DEF Front, n
<1> QED BY <1>1, <1>2, <1>3 DEF Last

\* The instance has the sequences' operators of its own.
LEMMA MetadataSequences ==
  /\ \A s : Metadata!Front(s) = Front(s) /\ Metadata!Last(s) = Last(s)
  /\ \A s, e : Metadata!Contains(s, e) = Contains(s, e)
  BY DEF Metadata!Front, Metadata!Last, Metadata!Contains, Front, Last, Contains

\* What is on a stack once something is put on it.
LEMMA Pushed ==
  ASSUME NEW S, NEW s \in Seq(S), NEW e \in S
  PROVE  /\ Append(s, e) \in Seq(S) /\ Len(s) \in Nat
         /\ Len(Append(s, e)) = Len(s) + 1 /\ Append(s, e)[Len(s) + 1] = e
         /\ \A i \in 1..Len(s) : Append(s, e)[i] = s[i]
         /\ Append(s, e) # <<>>
<1>1. Append(s, e) \in Seq(S) /\ Len(Append(s, e)) = Len(s) + 1 /\ Len(s) \in Nat
  OBVIOUS
<1>2. Append(s, e) # <<>>
  BY <1>1, EmptySeq
<1> QED BY <1>1, <1>2

\* The types of the contexts and of what they show.
MetadataTypes ==
  /\ current \in Contexts \cup {NoContext}
  /\ restores \in [Contexts -> Contexts \cup {NoContext}]
  /\ headers \in [Contexts -> SUBSET Responses]
  /\ trailers \in [Contexts -> SUBSET Responses]
  /\ stack \in Seq(Contexts)
  /\ madeIn \in [Responses -> Contexts \cup {NoContext}]
  /\ stage \in [Responses -> {"new", "unary", "made", "headers", "done"}]

\* The entered contexts are distinct, and each restores the one below it.
StackInv ==
  /\ \A i, j \in 1..Len(stack) : stack[i] = stack[j] => i = j
  /\ \A i \in 1..Len(stack) :
       restores[stack[i]] = IF i = 1 THEN NoContext ELSE stack[i - 1]
  /\ Metadata!Nested

\* What a context shows is of a call that was made.
ShownInv ==
  /\ \A k \in Contexts : \A x \in headers[k] \cup trailers[k] : stage[x] # "new"
  /\ Metadata!OwnCalls

\* The invariant of the response metadata.
MetadataInv == MetadataTypes /\ StackInv /\ ShownInv

\* No context is entered and nothing is shown at first.
LEMMA MetadataInitInv == Metadata!Init => MetadataInv
<1> SUFFICES ASSUME Metadata!Init PROVE MetadataInv
  OBVIOUS
<1> USE DEF Metadata!Init
<1>1. MetadataTypes
  BY EmptySeq DEF MetadataTypes
<1>2. StackInv
  BY EmptySeq DEF StackInv, Metadata!Nested
<1>3. ShownInv
  BY DEF ShownInv, Metadata!OwnCalls
<1> QED BY <1>1, <1>2, <1>3 DEF MetadataInv

\* Entering and leaving keep the stack.
LEMMA MetadataStackStep ==
  MetadataInv /\ [Metadata!Next]_metadataVars => StackInv' /\ stack' \in Seq(Contexts)
    /\ current' \in Contexts \cup {NoContext}
    /\ restores' \in [Contexts -> Contexts \cup {NoContext}]
<1> SUFFICES ASSUME MetadataInv, [Metadata!Next]_metadataVars
             PROVE  /\ StackInv' /\ stack' \in Seq(Contexts)
                    /\ current' \in Contexts \cup {NoContext}
                    /\ restores' \in [Contexts -> Contexts \cup {NoContext}]
  OBVIOUS
<1> USE DEF MetadataInv, MetadataTypes
<1>1. ASSUME NEW k \in Contexts, Metadata!Enter(k) PROVE
          /\ StackInv' /\ stack' \in Seq(Contexts)
          /\ current' \in Contexts \cup {NoContext}
          /\ restores' \in [Contexts -> Contexts \cup {NoContext}]
  <2> DEFINE n == Len(stack)
  <2>1. /\ stack' \in Seq(Contexts) /\ n \in Nat /\ Len(stack') = n + 1
        /\ stack'[n + 1] = k /\ \A i \in 1..n : stack'[i] = stack[i]
        /\ stack' # <<>>
    BY <1>1, Pushed DEF Metadata!Enter
  <2>2. /\ restores' = [restores EXCEPT ![k] = current] /\ current' = k
        /\ \A i \in 1..n : stack[i] # k
    BY <1>1, MetadataSequences DEF Metadata!Enter, Contains
  <2>3. current = IF n = 0 THEN NoContext ELSE stack[n]
    BY EmptySeq, MetadataSequences DEF StackInv, Metadata!Nested, Last
  <2>4. \A i, j \in 1..n + 1 : stack'[i] = stack'[j] => i = j
    <3> TAKE i, j \in 1..n + 1
    <3>1. i \in 1..n \/ i = n + 1
      BY <2>1
    <3>2. j \in 1..n \/ j = n + 1
      BY <2>1
    <3> HIDE DEF n
    <3> QED BY <2>1, <2>2, <3>1, <3>2 DEF StackInv, n
  <2>5. ASSUME NEW i \in 1..n + 1
        PROVE  restores'[stack'[i]] = IF i = 1 THEN NoContext ELSE stack'[i - 1]
    <3>1. CASE i = n + 1
      <4>1. restores'[stack'[i]] = current
        BY <2>1, <2>2, <3>1
      <4>2. n # 0 => stack'[n] = stack[n]
        BY <2>1
      <4> HIDE DEF n
      <4> QED BY <2>1, <2>3, <3>1, <4>1, <4>2
    <3>2. CASE i \in 1..n
      <4>1. restores'[stack'[i]] = restores[stack[i]]
        <5>1. stack'[i] = stack[i] /\ stack[i] # k /\ stack[i] \in Contexts
          BY <2>1, <2>2, <3>2
        <5> QED BY <2>2, <5>1
      <4>2. i # 1 => stack'[i - 1] = stack[i - 1]
        BY <2>1, <3>2
      <4> QED BY <3>2, <4>1, <4>2 DEF StackInv
    <3> HIDE DEF n
    <3> QED BY <2>1, <3>1, <3>2
  <2>6. Metadata!Nested'
    BY <2>1, <2>2, MetadataSequences DEF Metadata!Nested, Last
  <2> HIDE DEF n
  <2> QED BY <2>1, <2>2, <2>4, <2>5, <2>6 DEF StackInv
<1>2. ASSUME Metadata!Exit PROVE
          /\ StackInv' /\ stack' \in Seq(Contexts)
          /\ current' \in Contexts \cup {NoContext}
          /\ restores' \in [Contexts -> Contexts \cup {NoContext}]
  <2> DEFINE n == Len(stack)
  <2>1. /\ stack' \in Seq(Contexts) /\ n \in Nat \ {0} /\ Len(stack') = n - 1
        /\ Last(stack) = stack[n] /\ stack[n] \in Contexts
        /\ \A i \in 1..(n - 1) : stack'[i] = stack[i]
    BY <1>2, FrontLast, MetadataSequences DEF Metadata!Exit
  <2>2. /\ restores' = [restores EXCEPT ![stack[n]] = NoContext]
        /\ current' = restores[stack[n]]
    BY <1>2, <2>1, MetadataSequences DEF Metadata!Exit, Metadata!Reset
  <2>3. current' = IF n = 1 THEN NoContext ELSE stack[n - 1]
    BY <2>1, <2>2 DEF StackInv
  <2> HIDE DEF n
  <2>4. \A i, j \in 1..n - 1 : stack'[i] = stack'[j] => i = j
    BY <2>1 DEF StackInv, n
  <2>5. ASSUME NEW i \in 1..n - 1
        PROVE  restores'[stack'[i]] = IF i = 1 THEN NoContext ELSE stack'[i - 1]
    <3>1. stack[i] # stack[n] /\ stack'[i] = stack[i] /\ stack[i] \in Contexts
          /\ restores[stack[i]] = (IF i = 1 THEN NoContext ELSE stack[i - 1])
      BY <2>1 DEF StackInv, n
    <3>2. i # 1 => stack'[i - 1] = stack[i - 1]
      BY <2>1
    <3> QED BY <2>2, <3>1, <3>2
  <2>6. Metadata!Nested'
    <3>1. CASE n = 1
      BY <2>1, <2>3, <3>1, EmptySeq DEF Metadata!Nested
    <3>2. CASE n # 1
      <4>1. stack' # <<>> /\ stack'[n - 1] = stack[n - 1]
        BY <2>1, <3>2
      <4> QED BY <2>1, <2>3, <3>2, <4>1, MetadataSequences DEF Metadata!Nested, Last
    <3> QED BY <3>1, <3>2
  <2> QED BY <2>1, <2>2, <2>4, <2>5, <2>6 DEF StackInv
<1>3. CASE UNCHANGED <<current, restores, stack>>
  BY <1>3 DEF StackInv, Metadata!Nested
<1> QED BY <1>1, <1>2, <1>3 DEF Metadata!Next, Metadata!CallUnary, Metadata!CallStream,
    Metadata!Iterate, Metadata!Call, metadataVars

\* What a context is shown is of a call that is in it, or of a stream.
LEMMA MetadataShownStep ==
  MetadataInv /\ [Metadata!Next]_metadataVars => ShownInv'
    /\ headers' \in [Contexts -> SUBSET Responses]
    /\ trailers' \in [Contexts -> SUBSET Responses]
    /\ madeIn' \in [Responses -> Contexts \cup {NoContext}]
    /\ stage' \in [Responses -> {"new", "unary", "made", "headers", "done"}]
<1> SUFFICES ASSUME MetadataInv, [Metadata!Next]_metadataVars
             PROVE  /\ ShownInv'
                    /\ headers' \in [Contexts -> SUBSET Responses]
                    /\ trailers' \in [Contexts -> SUBSET Responses]
                    /\ madeIn' \in [Responses -> Contexts \cup {NoContext}]
                    /\ stage' \in [Responses -> {"new", "unary", "made", "headers",
                          "done"}]
  OBVIOUS
<1> USE DEF MetadataInv, MetadataTypes, ShownInv, Metadata!OwnCalls
<1>1. CASE UNCHANGED <<headers, trailers, madeIn, stage>>
  BY <1>1
<1>2. ASSUME NEW x \in Responses, Metadata!CallUnary(x)
      PROVE  /\ ShownInv'
             /\ headers' \in [Contexts -> SUBSET Responses]
             /\ trailers' \in [Contexts -> SUBSET Responses]
             /\ madeIn' \in [Responses -> Contexts \cup {NoContext}]
             /\ stage' \in [Responses -> {"new", "unary", "made", "headers", "done"}]
  BY <1>2 DEF Metadata!CallUnary, Metadata!Call, Metadata!Headers
<1>3. ASSUME NEW x \in Responses, Metadata!CallStream(x)
      PROVE  /\ ShownInv'
             /\ headers' \in [Contexts -> SUBSET Responses]
             /\ trailers' \in [Contexts -> SUBSET Responses]
             /\ madeIn' \in [Responses -> Contexts \cup {NoContext}]
             /\ stage' \in [Responses -> {"new", "unary", "made", "headers", "done"}]
  BY <1>3 DEF Metadata!CallStream, Metadata!Call
<1>4. ASSUME NEW x \in Responses, Metadata!Iterate(x)
      PROVE  /\ ShownInv'
             /\ headers' \in [Contexts -> SUBSET Responses]
             /\ trailers' \in [Contexts -> SUBSET Responses]
             /\ madeIn' \in [Responses -> Contexts \cup {NoContext}]
             /\ stage' \in [Responses -> {"new", "unary", "made", "headers", "done"}]
  BY <1>4 DEF Metadata!Iterate, Metadata!Headers, Metadata!Trailers
<1> QED BY <1>1, <1>2, <1>3, <1>4 DEF Metadata!Next, Metadata!Exit, Metadata!Enter,
    Metadata!callVars, metadataVars

\* A step of the parts is one of this part, or leaves it alone.
LEMMA MetadataSteps ==
  /\ PartsInit => Metadata!Init
  /\ [PartsNext]_allVars => [Metadata!Next]_metadataVars
<1>1. PartsInit => Metadata!Init
  BY DEF PartsInit
<1>2. [PartsNext]_allVars => [Metadata!Next]_metadataVars
  BY DEF PartsNext, Runs, Unless, allVars
<1> QED BY <1>1, <1>2

\* Contexts nest however they are entered and left.
THEOREM MetadataIsCorrect == PartsSpec => []MetadataCorrect
<1>1. PartsInit => MetadataInv
  BY MetadataSteps, MetadataInitInv
<1>2. MetadataInv /\ [PartsNext]_allVars => MetadataInv'
  <2>1. MetadataInv /\ [Metadata!Next]_metadataVars => MetadataInv'
    BY MetadataStackStep, MetadataShownStep DEF MetadataInv, MetadataTypes
  <2> QED BY <2>1, MetadataSteps
<1>3. MetadataInv => MetadataCorrect
  BY DEF MetadataInv, StackInv, ShownInv, MetadataCorrect, Metadata!MetadataCorrect
<1> QED BY <1>1, <1>2, <1>3, PTL DEF PartsSpec

-----------------------------------------------------------------------------
(* Telemetry: a stack of open calls, while they end innermost first. *)

\* Putting something new on a stack of distinct elements.
LEMMA PushedOnce ==
  ASSUME NEW S, NEW s \in Seq(S), NEW e \in S, NEW r, r = Append(s, e),
         \A i, j \in 1..Len(s) : s[i] = s[j] => i = j, \A i \in 1..Len(s) : s[i] # e
  PROVE  /\ \A i, j \in 1..Len(r) : r[i] = r[j] => i = j
         /\ \A y : (\E i \in 1..Len(r) : r[i] = y) <=>
               (\E i \in 1..Len(s) : s[i] = y) \/ y = e
         /\ \A i \in 1..Len(r) : i # 1 => r[i - 1] = s[i - 1]
<1> DEFINE n == Len(s)
<1>1. n \in Nat /\ Len(r) = n + 1 /\ r[n + 1] = e /\ \A i \in 1..n : r[i] = s[i]
  BY Pushed
<1>2. 1..Len(r) = 1..n \cup {n + 1}
  BY <1>1
<1> HIDE DEF n
<1>3. ASSUME NEW i \in 1..Len(r), NEW j \in 1..Len(r), r[i] = r[j] PROVE i = j
  <2>1. i \in 1..n \/ i = n + 1
    BY <1>2
  <2>2. j \in 1..n \/ j = n + 1
    BY <1>2
  <2> QED BY <1>1, <1>3, <2>1, <2>2 DEF n
<1>4. ASSUME NEW y
      PROVE  (\E i \in 1..Len(r) : r[i] = y) <=> (\E i \in 1..n : s[i] = y) \/ y = e
  <2>1. ASSUME NEW i \in 1..Len(r), r[i] = y PROVE (\E k \in 1..n : s[k] = y) \/ y = e
    <3>1. i \in 1..n \/ i = n + 1
      BY <1>2
    <3> QED BY <1>1, <2>1, <3>1
  <2>2. ASSUME NEW i \in 1..n, s[i] = y PROVE \E k \in 1..Len(r) : r[k] = y
    <3>1. i \in 1..Len(r) /\ r[i] = y
      BY <1>1, <1>2, <2>2
    <3> QED BY <3>1
  <2>3. ASSUME y = e PROVE \E k \in 1..Len(r) : r[k] = y
    <3>1. n + 1 \in 1..Len(r) /\ r[n + 1] = y
      BY <1>1, <1>2, <2>3
    <3> QED BY <3>1
  <2> QED BY <2>1, <2>2, <2>3
<1>5. ASSUME NEW i \in 1..Len(r), i # 1 PROVE r[i - 1] = s[i - 1]
  <2>1. i - 1 \in 1..n
    BY <1>1, <1>5
  <2> QED BY <1>1, <2>1
<1> QED BY <1>3, <1>4, <1>5 DEF n

\* Taking the last of distinct elements off.
LEMMA PoppedOnce ==
  ASSUME NEW S, NEW s \in Seq(S), s # <<>>, NEW r, r = Front(s),
         \A i, j \in 1..Len(s) : s[i] = s[j] => i = j
  PROVE  /\ \A i, j \in 1..Len(r) : r[i] = r[j] => i = j
         /\ \A y : (\E i \in 1..Len(r) : r[i] = y)
                  <=> (\E i \in 1..Len(s) : s[i] = y) /\ y # s[Len(s)]
<1> DEFINE n == Len(s)
<1>1. n \in Nat \ {0} /\ Len(r) = n - 1 /\ \A i \in 1..(n - 1) : r[i] = s[i]
  BY FrontLast
<1>2. 1..n = 1..Len(r) \cup {n} /\ n \notin 1..Len(r) /\ n \in 1..n
  BY <1>1
<1>3. \A i, j \in 1..n : s[i] = s[j] => i = j
  OBVIOUS
<1> HIDE DEF n
<1>4. ASSUME NEW i \in 1..Len(r), NEW j \in 1..Len(r), r[i] = r[j] PROVE i = j
  <2>1. r[i] = s[i] /\ r[j] = s[j] /\ i \in 1..n /\ j \in 1..n
    BY <1>1, <1>2
  <2> QED BY <1>3, <1>4, <2>1
<1>5. ASSUME NEW y
      PROVE  (\E i \in 1..Len(r) : r[i] = y) <=> (\E i \in 1..n : s[i] = y) /\ y # s[n]
  <2>1. ASSUME NEW i \in 1..Len(r), r[i] = y PROVE (\E k \in 1..n : s[k] = y) /\ y # s[n]
    <3>1. r[i] = s[i] /\ i \in 1..n /\ i # n
      BY <1>1, <1>2
    <3> QED BY <1>2, <1>3, <2>1, <3>1
  <2>2. ASSUME NEW i \in 1..n, s[i] = y, y # s[n] PROVE \E k \in 1..Len(r) : r[k] = y
    <3>1. i \in 1..Len(r)
      BY <1>2, <2>2
    <3>2. r[i] = y
      BY <1>1, <2>2, <3>1
    <3> QED BY <3>1, <3>2
  <2> QED BY <2>1, <2>2
<1> QED BY <1>4, <1>5 DEF n

\* What can be current in a context.
Spans == Calls \cup {NoSpan, Ambient}

\* The types of the spans and of what the calls keep.
SpanTypes ==
  /\ span \in [Tasks -> Spans] /\ first \in [Tasks -> {NoSpan, Ambient}]
  /\ state \in [Calls -> {"new", "open", "ended"}]
  /\ kind \in [Calls -> {"client", "server"}] /\ task \in [Calls -> Tasks]
  /\ token \in [Calls -> Spans] /\ parent \in [Calls -> Spans]
  /\ carrier \in [Calls -> Spans]
  /\ recorded \in [Calls -> SUBSET Telemetry!Outcomes]
  /\ status \in [Calls -> Telemetry!Outcomes \cup {NoSpan}]
  /\ nested \in [Tasks -> BOOLEAN]

\* The open calls of task t in the order they started: each put away the span
\* of the one before it, and the last one's is current.
InOrder(s, t) ==
  /\ \A i, j \in 1..Len(s) : s[i] = s[j] => i = j
  /\ \A x \in Calls : x \in Telemetry!Open(t) <=> \E i \in 1..Len(s) : s[i] = x
  /\ span[t] = IF Len(s) = 0 THEN first[t] ELSE s[Len(s)]
  /\ \A i \in 1..Len(s) : token[s[i]] = IF i = 1 THEN first[t] ELSE s[i - 1]

OrderInv == \A t \in Tasks : nested[t] => \E s \in Seq(Calls) : InOrder(s, t)

\* What is current in a task, or put away by a call of it, is the span of a call
\* of that task, or was there first.
PlaceInv ==
  /\ \A t \in Tasks : span[t] \in {x \in Calls : task[x] = t} \cup {first[t]}
  /\ \A x \in Calls : state[x] = "open" =>
       token[x] \in {y \in Calls : task[y] = task[x]} \cup {first[task[x]]}

\* A call that has not started has nothing; one that has ended has one outcome.
RecordInv ==
  /\ \A x \in Calls : state[x] = "new" => /\ parent[x] = NoSpan /\ carrier[x] = NoSpan
                                         /\ kind[x] = "client"
  /\ \A x \in Calls : recorded[x] = IF state[x] = "ended" THEN {status[x]} ELSE {}

\* The invariant of telemetry.
SpanInv == SpanTypes /\ OrderInv /\ PlaceInv /\ RecordInv /\ Telemetry!TraceConnected

\* Nothing is open at first.
LEMMA SpanInitInv == Telemetry!Init => SpanInv
<1> SUFFICES ASSUME Telemetry!Init PROVE SpanInv
  OBVIOUS
<1> USE DEF Telemetry!Init
<1>1. SpanTypes
  BY DEF SpanTypes, Spans
<1>2. OrderInv
  <2> SUFFICES ASSUME NEW t \in Tasks PROVE \E s \in Seq(Calls) : InOrder(s, t)
    BY DEF OrderInv
  <2>1. <<>> \in Seq(Calls) /\ Len(<<>>) = 0
    BY EmptySeq
  <2>2. InOrder(<<>>, t)
    BY <2>1 DEF InOrder, Telemetry!Open
  <2> QED BY <2>1, <2>2
<1>3. PlaceInv
  BY DEF PlaceInv
<1>4. RecordInv
  BY DEF RecordInv
<1>5. Telemetry!TraceConnected
  BY SpansAssumption DEF Telemetry!TraceConnected
<1> QED BY <1>1, <1>2, <1>3, <1>4, <1>5 DEF SpanInv

\* A call that starts comes last among the open calls of its task.
LEMMA StartOrder ==
  ASSUME SpanTypes, OrderInv, NEW x \in Calls, state[x] = "new", Telemetry!Attach(x),
         UNCHANGED <<first, task, nested>>
  PROVE  OrderInv'
<1> USE DEF SpanTypes, Telemetry!Attach
<1> SUFFICES ASSUME NEW t \in Tasks, nested[t] PROVE \E s \in Seq(Calls) : InOrder(s, t)'
  BY DEF OrderInv
<1>1. PICK s \in Seq(Calls) : InOrder(s, t)
  BY DEF OrderInv
<1> DEFINE n == Len(s)
<1>2. n \in Nat /\ \A i \in 1..n : s[i] \in Calls /\ state[s[i]] = "open"
  <2>1. n \in Nat /\ \A i \in 1..n : s[i] \in Calls
    OBVIOUS
  <2> QED BY <1>1, <2>1 DEF InOrder, Telemetry!Open
<1>3. \A i \in 1..n : s[i] # x /\ token'[s[i]] = token[s[i]]
  BY <1>2
<1>4. CASE task[x] # t
  <2>1. Telemetry!Open(t)' = Telemetry!Open(t) /\ span'[t] = span[t]
    BY <1>4 DEF Telemetry!Open
  <2>2. InOrder(s, t)'
    BY <1>1, <1>3, <2>1 DEF InOrder
  <2> QED BY <2>2
<1>5. CASE task[x] = t
  <2> DEFINE r == Append(s, x)
  <2>1. /\ r \in Seq(Calls) /\ Len(r) = n + 1 /\ r[n + 1] = x
        /\ \A i \in 1..n : r[i] = s[i]
    BY Pushed
  <2>2. Telemetry!Open(t)' = Telemetry!Open(t) \cup {x}
    BY <1>5 DEF Telemetry!Open
  <2>3. span'[t] = x /\ token'[x] = span[t]
    BY <1>5
  <2> HIDE DEF n
  <2>4. 1..(n + 1) = (1..n) \cup {n + 1}
    BY <1>2
  <2>5. /\ \A i, j \in 1..n : s[i] = s[j] => i = j
        /\ \A y \in Calls : y \in Telemetry!Open(t) <=> \E i \in 1..n : s[i] = y
        /\ span[t] = IF n = 0 THEN first[t] ELSE s[n]
        /\ \A i \in 1..n : token[s[i]] = IF i = 1 THEN first[t] ELSE s[i - 1]
    BY <1>1 DEF InOrder, n
  <2>6. /\ \A i, j \in 1..(n + 1) : r[i] = r[j] => i = j
        /\ \A y : (\E i \in 1..(n + 1) : r[i] = y) <=> (\E i \in 1..n : s[i] = y) \/ y = x
        /\ \A i \in 1..(n + 1) : i # 1 => r[i - 1] = s[i - 1]
    BY <1>3, <2>1, <2>5, PushedOnce DEF n
  <2> HIDE DEF r, SpanTypes, Telemetry!Attach
  <2>7. \A y \in Calls : y \in Telemetry!Open(t)' <=> \E i \in 1..(n + 1) : r[i] = y
    BY <2>2, <2>5, <2>6
  <2>8. ASSUME NEW i \in 1..(n + 1)
        PROVE  token'[r[i]] = IF i = 1 THEN first[t] ELSE r[i - 1]
    <3>1. CASE i = n + 1
      <4>1. (n + 1) - 1 = n /\ (n + 1 = 1 <=> n = 0)
        BY <1>2
      <4>2. token'[r[i]] = span[t]
        BY <2>1, <2>3, <3>1
      <4> QED BY <2>5, <2>6, <3>1, <4>1, <4>2
    <3>2. CASE i \in 1..n
      BY <1>3, <2>1, <2>5, <2>6, <3>2
    <3> QED BY <2>4, <3>1, <3>2
  <2>9. InOrder(r, t)'
    BY <1>2, <2>1, <2>3, <2>6, <2>7, <2>8 DEF InOrder
  <2> QED BY <2>1, <2>9
<1> QED BY <1>4, <1>5

\* A call that ends is the last of its task, or the task is nested no more.
LEMMA EndOrder ==
  ASSUME SpanTypes, OrderInv, NEW x \in Calls, Telemetry!End(x)
  PROVE  OrderInv'
<1> USE DEF SpanTypes, Telemetry!End, Telemetry!Detach
<1> SUFFICES ASSUME NEW t \in Tasks, nested'[t] PROVE \E s \in Seq(Calls) : InOrder(s, t)'
  BY DEF OrderInv
<1>0. nested[t]
  OBVIOUS
<1>1. PICK s \in Seq(Calls) : InOrder(s, t)
  BY <1>0 DEF OrderInv
<1> DEFINE n == Len(s)
<1>2. n \in Nat /\ \A i \in 1..n : s[i] \in Calls /\ task[s[i]] = t /\
      state[s[i]] = "open"
  <2>1. n \in Nat /\ \A i \in 1..n : s[i] \in Calls
    OBVIOUS
  <2> QED BY <1>1, <2>1 DEF InOrder, Telemetry!Open
<1>4. CASE task[x] # t
  <2>1. Telemetry!Open(t)' = Telemetry!Open(t) /\ span'[t] = span[t]
    BY <1>4 DEF Telemetry!Open
  <2>2. InOrder(s, t)'
    BY <1>1, <2>1 DEF InOrder
  <2> QED BY <2>2
<1>5. CASE task[x] = t
  <2> DEFINE r == Front(s)
  <2>1. span[t] = x /\ x \in Telemetry!Open(t)
    BY <1>5 DEF Telemetry!Open
  <2> HIDE DEF n
  <2>5. /\ \A i, j \in 1..n : s[i] = s[j] => i = j
        /\ \A y \in Calls : y \in Telemetry!Open(t) <=> \E i \in 1..n : s[i] = y
        /\ span[t] = IF n = 0 THEN first[t] ELSE s[n]
        /\ \A i \in 1..n : token[s[i]] = IF i = 1 THEN first[t] ELSE s[i - 1]
    BY <1>1 DEF InOrder, n
  <2>6. n # 0 /\ s[n] = x
    BY <1>2, <2>1, <2>5
  <2>7. s # <<>> /\ r \in Seq(Calls) /\
        Len(r) = n - 1 /\ \A i \in 1..(n - 1) : r[i] = s[i]
    <3>1. s # <<>>
      BY <2>6, EmptySeq DEF n
    <3> QED BY <3>1, FrontLast DEF n
  <2>13. /\ \A i, j \in 1..Len(r) : r[i] = r[j] => i = j
         /\ \A y : (\E i \in 1..Len(r) : r[i] = y) <=>
               (\E i \in 1..n : s[i] = y) /\ y # s[n]
    BY <2>5, <2>7, PoppedOnce DEF n
  <2> HIDE DEF r
  <2>2. Telemetry!Open(t)' = Telemetry!Open(t) \ {x}
    BY <1>5 DEF Telemetry!Open
  <2>3. span'[t] = token[x] /\ token' = token /\ first' = first
    BY <1>5
  <2>4. 1..n = (1..(n - 1)) \cup {n} /\ n \notin 1..(n - 1) /\ n - 1 \in Nat
    BY <1>2, <2>6
  <2>8. \A i, j \in 1..(n - 1) : r[i] = r[j] => i = j
    BY <2>7, <2>13
  <2>9. \A y \in Calls : y \in Telemetry!Open(t)' <=> \E i \in 1..(n - 1) : r[i] = y
    BY <2>2, <2>5, <2>6, <2>7, <2>13
  <2>10. \A i \in 1..(n - 1) : token'[r[i]] = IF i = 1 THEN first[t] ELSE r[i - 1]
    <3> TAKE i \in 1..(n - 1)
    <3>1. i # 1 => r[i - 1] = s[i - 1]
      BY <2>4, <2>7
    <3> QED BY <2>3, <2>4, <2>5, <2>7, <3>1
  <2>11. span'[t] = IF n - 1 = 0 THEN first[t] ELSE r[n - 1]
    <3>1. n - 1 # 0 => r[n - 1] = s[n - 1]
      BY <2>4, <2>7
    <3>2. token[x] = IF n = 1 THEN first[t] ELSE s[n - 1]
      BY <1>2, <2>4, <2>5, <2>6
    <3> QED BY <1>2, <2>3, <3>1, <3>2
  <2>12. InOrder(r, t)'
    BY <2>3, <2>7, <2>8, <2>9, <2>10, <2>11 DEF InOrder
  <2> QED BY <2>7, <2>12
<1> QED BY <1>4, <1>5

\* Every hook keeps the invariant.
LEMMA SpanStep == SpanInv /\ [Telemetry!Next]_telemetryVars => SpanInv'
<1> SUFFICES ASSUME SpanInv, [Telemetry!Next]_telemetryVars PROVE SpanInv'
  OBVIOUS
<1> USE DEF SpanInv, SpanTypes, Spans
<1>1. ASSUME NEW x \in Calls, Telemetry!StartClient(x) PROVE SpanInv'
  <2> USE <1>1 DEF Telemetry!StartClient
  <2>1. OrderInv'
    BY StartOrder
  <2> USE DEF Telemetry!Attach
  <2>2. SpanTypes'
    OBVIOUS
  <2>3. PlaceInv'
    BY DEF PlaceInv
  <2>4. RecordInv'
    BY DEF RecordInv
  <2>5. Telemetry!TraceConnected'
    <3>1. ASSUME NEW y \in Calls PROVE
            /\ state'[y] # "new" /\ first'[task'[y]] = Ambient => parent'[y] # NoSpan
            /\ kind'[y] = "server" /\ carrier'[y] # NoSpan => parent'[y] # NoSpan
            /\ \A k \in Calls : parent'[y] = k /\ task'[k] # task'[y] => carrier'[y] = k
      BY SpansAssumption DEF PlaceInv, Telemetry!TraceConnected
    <3> QED BY <2>4, <3>1 DEF RecordInv, Telemetry!TraceConnected
  <2> QED BY <2>1, <2>2, <2>3, <2>4, <2>5
<1>2. ASSUME NEW x \in Calls, Telemetry!StartServer(x) PROVE SpanInv'
  <2> USE <1>2 DEF Telemetry!StartServer
  <2>1. OrderInv'
    BY StartOrder
  <2> USE DEF Telemetry!Attach
  <2>0. PICK k \in Spans :
          /\ carrier' = [carrier EXCEPT ![x] = k]
          /\ parent' = [parent EXCEPT ![x] = Telemetry!ServerParent(span[task[x]], k)]
    <3>1. PICK k \in {NoSpan} \cup {carrier[j] : j \in {j \in Calls : kind[j] = "client"
                                                      /\ state[j] = "open"}} :
            /\ carrier' = [carrier EXCEPT ![x] = k]
            /\ parent' = [parent EXCEPT ![x] = Telemetry!ServerParent(span[task[x]], k)]
      OBVIOUS
    <3>2. k \in Spans
      OBVIOUS
    <3> QED BY <3>1, <3>2
  <2>2. SpanTypes'
    BY <2>0 DEF Telemetry!ServerParent
  <2>3. PlaceInv'
    BY DEF PlaceInv
  <2>4. RecordInv'
    BY <2>0 DEF RecordInv
  <2>5. Telemetry!TraceConnected'
    <3>1. ASSUME NEW y \in Calls PROVE
            /\ state'[y] # "new" /\ first'[task'[y]] = Ambient => parent'[y] # NoSpan
            /\ kind'[y] = "server" /\ carrier'[y] # NoSpan => parent'[y] # NoSpan
            /\ \A j \in Calls : parent'[y] = j /\ task'[j] # task'[y] => carrier'[y] = j
      BY <2>0, SpansAssumption DEF PlaceInv, Telemetry!TraceConnected,
         Telemetry!ServerParent
    <3> QED BY <2>4, <3>1 DEF RecordInv, Telemetry!TraceConnected
  <2> QED BY <2>1, <2>2, <2>3, <2>4, <2>5
<1>3. ASSUME NEW x \in Calls, Telemetry!End(x) PROVE SpanInv'
  <2> USE <1>3
  <2>1. OrderInv'
    BY EndOrder
  <2> USE DEF Telemetry!End, Telemetry!Detach
  <2>2. SpanTypes'
    OBVIOUS
  <2>3. PlaceInv'
    BY DEF PlaceInv
  <2>4. RecordInv'
    BY DEF RecordInv
  <2>5. Telemetry!TraceConnected'
    <3>1. ASSUME NEW y \in Calls PROVE
            /\ state'[y] # "new" /\ first'[task'[y]] = Ambient => parent'[y] # NoSpan
            /\ kind'[y] = "server" /\ carrier'[y] # NoSpan => parent'[y] # NoSpan
            /\ \A j \in Calls : parent'[y] = j /\ task'[j] # task'[y] => carrier'[y] = j
      <4>1. /\ state'[y] # "new" => state[y] # "new"
            /\ UNCHANGED <<first, task, parent, kind, carrier>>
        OBVIOUS
      <4> QED BY <4>1 DEF Telemetry!TraceConnected
    <3> QED BY <2>4, <3>1 DEF RecordInv, Telemetry!TraceConnected
  <2> QED BY <2>1, <2>2, <2>3, <2>4, <2>5
<1>4. CASE UNCHANGED telemetryVars
  BY <1>4 DEF telemetryVars, OrderInv, InOrder, PlaceInv, RecordInv, Telemetry!Open,
     Telemetry!TraceConnected
<1> QED BY <1>1, <1>2, <1>3, <1>4 DEF Telemetry!Next

\* The invariant says what is promised.
LEMMA SpansCorrect == SpanInv => TelemetryCorrect
<1> SUFFICES ASSUME SpanInv PROVE Telemetry!ContextRestored
  BY DEF SpanInv, TelemetryCorrect, Telemetry!TelemetryCorrect
<1> SUFFICES ASSUME NEW t \in Tasks, nested[t]
             PROVE  /\ Telemetry!Open(t) = {} => span[t] = first[t]
                    /\ span[t] \in Telemetry!Open(t) \cup {first[t]}
  BY DEF Telemetry!ContextRestored
<1>1. PICK s \in Seq(Calls) : InOrder(s, t)
  BY DEF SpanInv, OrderInv
<1>2. CASE Len(s) = 0
  BY <1>1, <1>2 DEF InOrder
<1>3. CASE Len(s) # 0
  <2>1. Len(s) \in 1..Len(s) /\ s[Len(s)] \in Calls
    BY <1>3
  <2> QED BY <1>1, <1>3, <2>1 DEF InOrder
<1> QED BY <1>2, <1>3

\* Every hook keeps the invariant.
\* A step of the parts is a step of this one, or leaves it alone.
LEMMA SpanSteps ==
  /\ PartsInit => Telemetry!Init
  /\ [PartsNext]_allVars => [Telemetry!Next]_telemetryVars
<1>1. PartsInit => Telemetry!Init
  BY DEF PartsInit
<1>2. [PartsNext]_allVars => [Telemetry!Next]_telemetryVars
  BY DEF PartsNext, Runs, Unless, allVars
<1> QED BY <1>1, <1>2

\* OpenTelemetryInterceptor leaves a task's context as it found it when the calls
\* of the task ended innermost first, records each call once and traces it under
\* the call it was made from, for any calls, tasks and assignment of one to the
\* other.
THEOREM TelemetryIsCorrect == PartsSpec => []TelemetryCorrect
<1>1. PartsInit => SpanInv
  BY SpanSteps, SpanInitInv
<1>2. SpanInv /\ [PartsNext]_allVars => SpanInv'
  BY SpanSteps, SpanStep
<1> QED BY <1>1, <1>2, SpansCorrect, PTL DEF PartsSpec

-----------------------------------------------------------------------------
(* Induction over the natural numbers, by a least counterexample. *)

\* A set of numbers has a least one.
LEMMA Least ==
  ASSUME NEW T \in SUBSET Nat, T # {}
  PROVE  \E x \in T : \A y \in T : x <= y
<1> DEFINE R == OpToRel(<, Nat)
<1>1. IsWellFoundedOn(R, Nat)
  BY NatLessThanWellFounded
<1>2. \A x, y \in Nat : y < x => <<y, x>> \in R
  BY DEF OpToRel
<1> HIDE DEF R
<1>3. PICK x \in T : \A y \in T : ~(<<y, x>> \in R)
  BY <1>1, WFMin
<1>4. ASSUME NEW y \in T PROVE x <= y
  <2>1. x \in Nat /\ y \in Nat
    OBVIOUS
  <2>2. ~(y < x)
    BY <1>2, <1>3, <2>1
  <2> QED BY <2>1, <2>2
<1> QED BY <1>4

\* A set that has 0 and, with a number, the next one, has all of them.
LEMMA SetInduction ==
  ASSUME NEW S, 0 \in S, \A n \in Nat : n \in S => n + 1 \in S
  PROVE  Nat \subseteq S
<1> SUFFICES ASSUME Nat \ S # {} PROVE FALSE
  OBVIOUS
<1>1. PICK x \in Nat \ S : \A y \in Nat \ S : x <= y
  BY Least
<1>2. x # 0 /\ x - 1 \in Nat /\ x - 1 \notin Nat \ S
  BY <1>1
<1> QED BY <1>1, <1>2

-----------------------------------------------------------------------------
(* Instrumentation: wrappers around wrappers. *)

\* However many wrappers there are around a constructor, they do what one does.
LEMMA ThroughIs ==
  ASSUME NEW n \in Nat, NEW l, Otel!Wrapped(Otel!Wrapped(l)) = Otel!Wrapped(l)
  PROVE  Otel!Through(n, l) = IF n = 0 THEN l ELSE Otel!Wrapped(l)
<1> DEFINE After(f) == f = [k \in 0..n |-> IF k = 0 THEN l ELSE Otel!Wrapped(f[k - 1])]
           g == CHOOSE f : After(f)
           h == [k \in 0..n |-> IF k = 0 THEN l ELSE Otel!Wrapped(l)]
<1>1. Otel!Through(n, l) = g[n]
  BY DEF Otel!Through
<1>2. After(h)
  <2>1. \A k \in 0..n : k # 0 => Otel!Wrapped(h[k - 1]) = Otel!Wrapped(l)
    OBVIOUS
  <2> QED BY <2>1
<1>3. After(g)
  BY <1>2
<1> HIDE DEF g, h
<1> DEFINE S == {k \in Nat : k <= n => g[k] = IF k = 0 THEN l ELSE Otel!Wrapped(l)}
<1>4. 0 \in S
  BY <1>3
<1>5. ASSUME NEW k \in Nat, k \in S PROVE k + 1 \in S
  <2>1. k + 1 <= n => g[k + 1] = Otel!Wrapped(g[k])
    <3> SUFFICES ASSUME k + 1 <= n PROVE g[k + 1] = Otel!Wrapped(g[k])
      OBVIOUS
    <3>1. k + 1 \in 0..n /\ k + 1 # 0 /\ (k + 1) - 1 = k
      OBVIOUS
    <3> QED BY <1>3, <3>1
  <2> QED BY <1>5, <2>1
<1> HIDE DEF S
<1>6. Nat \subseteq S
  BY <1>4, <1>5, SetInduction
<1> QED BY <1>1, <1>6 DEF S

\* What the wrapper makes of each list of interceptors a caller may pass.
LEMMA WrappedIs ==
  /\ Otel!Wrapped(<<>>) = <<"otel">> /\ Otel!Wrapped(<<"user">>) = <<"otel", "user">>
  /\ \A l \in {<<"otel">>, <<"user", "otel">>, <<"otel", "user">>} : Otel!Wrapped(l) = l
<1> USE DEF Otel!Wrapped, Otel!ToSet
<1>1. Otel!Wrapped(<<>>) = <<"otel">>
  OBVIOUS
<1>2. Otel!Wrapped(<<"user">>) = <<"otel", "user">>
  <2>1. "otel" \notin Otel!ToSet(<<"user">>)
    <3> SUFFICES ASSUME NEW i \in DOMAIN <<"user">>, <<"user">>[i] = "otel" PROVE FALSE
      OBVIOUS
    <3>1. i = 1
      OBVIOUS
    <3> QED BY <3>1
  <2>2. <<"otel">> \o <<"user">> = <<"otel", "user">>
    <3> DEFINE S == {"otel", "user"}
               x == <<"otel">>
               y == <<"user">>
               z == <<"otel", "user">>
    <3>1. x \in Seq(S) /\ y \in Seq(S) /\ z \in Seq(S)
      OBVIOUS
    <3>2. Len(x) = 1 /\ Len(y) = 1 /\ Len(z) = 2 /\ x[1] = z[1] /\ y[1] = z[2]
      OBVIOUS
    <3> HIDE DEF S, x, y, z
    <3>3. /\ x \o y \in Seq(S) /\ Len(x \o y) = 2
          /\ (x \o y)[1] = z[1] /\ (x \o y)[2] = z[2]
      <4>1. /\ x \o y \in Seq(S) /\ Len(x \o y) = Len(x) + Len(y)
            /\ \A i \in 1..Len(x) + Len(y) :
                 (x \o y)[i] = IF i <= Len(x) THEN x[i] ELSE y[i - Len(x)]
        BY <3>1, ConcatProperties
      <4> QED BY <3>2, <4>1
    <3>4. x \o y = z
      BY <3>1, <3>2, <3>3, SeqEqual
    <3> QED BY <3>4 DEF x, y, z
  <2> QED BY <2>1, <2>2
<1>3. Otel!Wrapped(<<"otel">>) = <<"otel">>
  <2>1. 1 \in DOMAIN <<"otel">> /\ <<"otel">>[1] = "otel"
    OBVIOUS
  <2> QED BY <2>1
<1>4. Otel!Wrapped(<<"user", "otel">>) = <<"user", "otel">>
  <2>1. 2 \in DOMAIN <<"user", "otel">> /\ <<"user", "otel">>[2] = "otel"
    OBVIOUS
  <2> QED BY <2>1
<1>5. Otel!Wrapped(<<"otel", "user">>) = <<"otel", "user">>
  <2>1. 1 \in DOMAIN <<"otel", "user">> /\ <<"otel", "user">>[1] = "otel"
    OBVIOUS
  <2> QED BY <2>1
<1> QED BY <1>1, <1>2, <1>3, <1>4, <1>5

\* The types of what the instrumentor keeps.
OtelTypes ==
  /\ active \in BOOLEAN /\ imported \in SUBSET Otel!Modules
  /\ hooks \in [Otel!Modules -> Nat] /\ patches \in [Otel!Modules -> Nat]

\* While instrumented, a module is patched, or has a hook that will patch it.
HookedInv ==
  active => /\ \A m \in imported : patches[m] > 0
            /\ \A m \in Otel!Modules \ imported : hooks[m] > 0

\* What was created has the interceptors it was passed, wrapped once or not.
CreatedInv ==
  \/ created = Otel!Nothing
  \/ /\ created.passed \in Otel!Passed
     /\ created.gets \in {created.passed, Otel!Wrapped(created.passed)}

\* The invariant of the instrumentor.
OtelInv == OtelTypes /\ HookedInv /\ CreatedInv

\* Nothing is hooked, patched or created at first.
LEMMA OtelInitInv == Otel!Init => OtelInv
<1> SUFFICES ASSUME Otel!Init PROVE OtelInv
  OBVIOUS
<1> USE DEF Otel!Init
<1>1. active \in BOOLEAN /\ imported \in SUBSET Otel!Modules
  OBVIOUS
<1>2. hooks \in [Otel!Modules -> Nat] /\ patches \in [Otel!Modules -> Nat]
  OBVIOUS
<1>3. HookedInv
  BY DEF HookedInv
<1>4. CreatedInv
  BY DEF CreatedInv
<1> QED BY <1>1, <1>2, <1>3, <1>4 DEF OtelInv, OtelTypes

\* Each step of instrumenting, importing and creating keeps the invariant; what is
\* created goes through as many wrappers as its module has.
LEMMA OtelStep == OtelInv /\ [Otel!Next]_otelVars => OtelInv'
<1> SUFFICES ASSUME OtelInv, [Otel!Next]_otelVars PROVE OtelInv'
  OBVIOUS
<1> USE DEF OtelInv, OtelTypes
<1>1. ASSUME Otel!Instrument PROVE OtelInv'
  BY <1>1 DEF Otel!Instrument, HookedInv, CreatedInv
<1>2. ASSUME Otel!Uninstrument PROVE OtelInv'
  <2> USE <1>2 DEF Otel!Uninstrument
  <2>1. patches' \in [Otel!Modules -> Nat]
    <3>1. \A m \in Otel!Modules :
            /\ patches[m] \in Nat
            /\ patches[m] > 0 => patches[m] - 1 \in Nat
      OBVIOUS
    <3> QED BY <3>1
  <2>2. HookedInv'
    BY DEF HookedInv
  <2>3. CreatedInv'
    BY DEF CreatedInv
  <2> QED BY <2>1, <2>2, <2>3
<1>3. ASSUME NEW m \in Otel!Modules, Otel!Import(m) PROVE OtelInv'
  BY <1>3 DEF Otel!Import, HookedInv, CreatedInv
<1>4. ASSUME NEW m \in Otel!Modules, Otel!Create(m) PROVE OtelInv'
  <2>1. PICK l \in Otel!Passed :
          created' = [by |-> m, passed |-> l, gets |-> Otel!Through(patches[m], l)]
    BY <1>4 DEF Otel!Create
  <2>2. Otel!Wrapped(Otel!Wrapped(l)) = Otel!Wrapped(l)
    BY WrappedIs DEF Otel!Passed
  <2>3. Otel!Through(patches[m], l) \in {l, Otel!Wrapped(l)}
    BY <2>2, ThroughIs
  <2>4. CreatedInv'
    BY <2>1, <2>3 DEF CreatedInv
  <2> QED BY <1>4, <2>4 DEF Otel!Create, HookedInv
<1>5. CASE UNCHANGED otelVars
  BY <1>5 DEF otelVars, HookedInv, CreatedInv
<1> QED BY <1>1, <1>2, <1>3, <1>4, <1>5 DEF Otel!Next

\* The invariant says what is promised.
LEMMA OtelTracesOnce == OtelInv => TracedOnce
<1> SUFFICES ASSUME OtelInv PROVE TracedOnce
  OBVIOUS
<1>1. CASE created = Otel!Nothing
  BY <1>1 DEF OtelInv, HookedInv, TracedOnce, Otel!TracedOnce, Otel!Tracers, Otel!Nothing,
     Otel!ToSet
<1>2. CASE created # Otel!Nothing
  <2> DEFINE l == created.passed
             w == Otel!Wrapped(l)
  <2>1. l \in {<<>>, <<"user">>, <<"otel">>, <<"user", "otel">>} /\
        created.gets \in {l, w}
    BY <1>2 DEF OtelInv, CreatedInv, Otel!Passed
  <2>2. /\ \A i, j \in DOMAIN l : l[i] = "otel" /\ l[j] = "otel" => i = j
        /\ \A i, j \in DOMAIN w : w[i] = "otel" /\ w[j] = "otel" => i = j
        /\ w # l => w = <<"otel">> \o l
        /\ "otel" \in Otel!ToSet(l) => w = l
    <3> USE WrappedIs
    <3>1. CASE l = <<>>
      BY <3>1 DEF Otel!ToSet
    <3>2. CASE l = <<"user">>
      BY <3>2 DEF Otel!ToSet
    <3>3. CASE l = <<"otel">>
      BY <3>3
    <3>4. CASE l = <<"user", "otel">>
      BY <3>4
    <3> QED BY <2>1, <3>1, <3>2, <3>3, <3>4
  <2> QED BY <2>1, <2>2 DEF OtelInv, HookedInv, TracedOnce, Otel!TracedOnce, Otel!Tracers
<1> QED BY <1>1, <1>2

\* Each step of instrumenting, importing and creating keeps the invariant; what is
\* created goes through as many wrappers as its module has.
\* A step of the parts is a step of this one, or leaves it alone.
LEMMA OtelSteps ==
  /\ PartsInit => Otel!Init
  /\ [PartsNext]_allVars => [Otel!Next]_otelVars
<1>1. PartsInit => Otel!Init
  BY DEF PartsInit
<1>2. [PartsNext]_allVars => [Otel!Next]_otelVars
  BY DEF PartsNext, Runs, Unless, allVars
<1> QED BY <1>1, <1>2

\* Whatever was instrumented when, and whatever a caller passed: an object traces
\* each call at most once (ConnectInstrumentor), for any number of toggles.
THEOREM TracesOnce == PartsSpec => []TracedOnce
<1>1. PartsInit => OtelInv
  BY OtelSteps, OtelInitInv
<1>2. OtelInv /\ [PartsNext]_allVars => OtelInv'
  BY OtelSteps, OtelStep
<1> QED BY <1>1, <1>2, OtelTracesOnce, PTL DEF PartsSpec

-----------------------------------------------------------------------------
(* Sums over finite sets: they exist, and do not depend on the order. *)

\* What a sum over a set is computed with: the sums over its subsets, each from
\* the one without some element.
Summed(f, s, g) ==
  IF s = {} THEN 0
  ELSE LET some == CHOOSE x \in s : TRUE IN f[some] + g[s \ {some}]
Sums(f, S) == CHOOSE g : g = [s \in SUBSET S |-> Summed(f, s, g)]

\* The community modules' sum is computed so.
LEMMA SumIs ==
  ASSUME NEW f, NEW S
  PROVE  Bytes!SumFunctionOnSet(f, S) = Sums(f, S)[S]
BY DEF Bytes!SumFunctionOnSet, Bytes!FoldFunctionOnSet, Bytes!MapThenFoldSet, Sums, Summed

\* A smaller set is left when an element is taken.
LEMMA Without ==
  ASSUME NEW s, IsFiniteSet(s), NEW x \in s
  PROVE  /\ IsFiniteSet(s \ {x}) /\ Cardinality(s) \in Nat \ {0}
         /\ Cardinality(s \ {x}) = Cardinality(s) - 1
<1>1. IsFiniteSet(s \ {x}) /\ Cardinality(s \ {x}) = Cardinality(s) - 1
  BY FS_RemoveElement
<1>2. Cardinality(s) \in Nat /\ Cardinality(s \ {x}) \in Nat
  BY <1>1, FS_CardinalityType
<1> QED BY <1>1, <1>2

\* The sums exist, for every finite set.
LEMMA SumsExist ==
  ASSUME NEW f, NEW S, IsFiniteSet(S)
  PROVE  Sums(f, S) = [s \in SUBSET S |-> Summed(f, s, Sums(f, S))]
<1> DEFINE Upto(n) == {s \in SUBSET S : Cardinality(s) <= n}
           T == {n \in Nat : \E g : g = [s \in Upto(n) |-> Summed(f, s, g)]}
<1>0. \A s \in SUBSET S : IsFiniteSet(s) /\ Cardinality(s) \in Nat
                          /\ Cardinality(s) <= Cardinality(S)
  BY FS_Subset, FS_CardinalityType
<1>1. 0 \in T
  <2> DEFINE g == [s \in Upto(0) |-> 0]
  <2>1. \A s \in Upto(0) : s = {}
    BY <1>0, FS_EmptySet
  <2>2. g = [s \in Upto(0) |-> Summed(f, s, g)]
    BY <2>1 DEF Summed
  <2> QED BY <2>2
<1>2. ASSUME NEW n \in Nat, n \in T PROVE n + 1 \in T
  <2>1. PICK g : g = [s \in Upto(n) |-> Summed(f, s, g)]
    BY <1>2
  <2> DEFINE h == [s \in Upto(n + 1) |-> Summed(f, s, g)]
  <2>2. ASSUME NEW s \in Upto(n + 1) PROVE Summed(f, s, h) = Summed(f, s, g)
    <3>1. CASE s = {}
      BY <3>1 DEF Summed
    <3>2. CASE s # {}
      <4> DEFINE x == CHOOSE x \in s : TRUE
                 u == s \ {x}
      <4>1. x \in s
        BY <3>2
      <4>2. u \in SUBSET S /\ Cardinality(u) = Cardinality(s) - 1 /\
            Cardinality(s) \in Nat
            /\ Cardinality(u) \in Nat
        BY <1>0, <4>1, Without
      <4> HIDE DEF x, u
      <4>3. u \in Upto(n) /\ u \in Upto(n + 1)
        BY <4>2
      <4>4. h[u] = Summed(f, u, g) /\ g[u] = Summed(f, u, g)
        BY <2>1, <4>3
      <4>5. Summed(f, s, h) = f[x] + h[u] /\ Summed(f, s, g) = f[x] + g[u]
        BY <3>2 DEF Summed, x, u
      <4> QED BY <4>4, <4>5
    <3> QED BY <3>1, <3>2
  <2>3. h = [s \in Upto(n + 1) |-> Summed(f, s, h)]
    BY <2>2
  <2> HIDE DEF h
  <2>4. \E k : k = [s \in Upto(n + 1) |-> Summed(f, s, k)]
    BY <2>3
  <2> HIDE DEF Upto
  <2> QED BY <2>4
<1> HIDE DEF T
<1>3. Cardinality(S) \in T
  BY <1>0, <1>1, <1>2, SetInduction
<1>4. Upto(Cardinality(S)) = SUBSET S
  BY <1>0
<1>5. \E g : g = [s \in SUBSET S |-> Summed(f, s, g)]
  BY <1>3, <1>4 DEF T
<1> QED BY <1>5 DEF Sums

\* The sum over a set depends on no set around it.
LEMMA SumsAgree ==
  ASSUME NEW f, NEW S, IsFiniteSet(S), NEW t \in SUBSET S
  PROVE  Sums(f, S)[t] = Sums(f, t)[t]
<1> DEFINE g == Sums(f, S)
           h == Sums(f, t)
           T == {n \in Nat : \A s \in SUBSET t : Cardinality(s) <= n => g[s] = h[s]}
<1>0. /\ \A s \in SUBSET S : IsFiniteSet(s) /\ Cardinality(s) \in Nat
      /\ \A s \in SUBSET t : s \in SUBSET S
  BY FS_Subset, FS_CardinalityType
<1>1. /\ \A s \in SUBSET S : g[s] = Summed(f, s, g)
      /\ \A s \in SUBSET t : h[s] = Summed(f, s, h)
  <2>1. g = [s \in SUBSET S |-> Summed(f, s, g)] /\
        h = [s \in SUBSET t |-> Summed(f, s, h)]
    BY <1>0, SumsExist
  <2> HIDE DEF g, h
  <2> QED BY <2>1
<1> HIDE DEF g, h
<1>2. 0 \in T
  <2> SUFFICES ASSUME NEW s \in SUBSET t, Cardinality(s) <= 0 PROVE g[s] = h[s]
    OBVIOUS
  <2>1. s = {}
    BY <1>0, FS_EmptySet
  <2> QED BY <1>0, <1>1, <2>1 DEF Summed
<1>3. ASSUME NEW n \in Nat, n \in T PROVE n + 1 \in T
  <2> SUFFICES ASSUME NEW s \in SUBSET t, Cardinality(s) <= n + 1 PROVE g[s] = h[s]
    OBVIOUS
  <2>1. CASE s = {}
    BY <1>0, <1>1, <2>1 DEF Summed
  <2>2. CASE s # {}
    <3> DEFINE x == CHOOSE x \in s : TRUE
               u == s \ {x}
    <3>1. x \in s
      BY <2>2
    <3>2. /\ u \in SUBSET t /\ Cardinality(u) = Cardinality(s) - 1
          /\ Cardinality(s) \in Nat /\ Cardinality(u) \in Nat
      BY <1>0, <3>1, Without
    <3> HIDE DEF x, u
    <3>3. g[u] = h[u]
      BY <1>3, <3>2
    <3>4. Summed(f, s, g) = f[x] + g[u] /\ Summed(f, s, h) = f[x] + h[u]
      BY <2>2 DEF Summed, x, u
    <3> QED BY <1>0, <1>1, <3>3, <3>4
  <2> QED BY <2>1, <2>2
<1> HIDE DEF T
<1>4. Cardinality(t) \in T
  BY <1>0, <1>2, <1>3, SetInduction
<1>5. g[t] = h[t]
  BY <1>0, <1>4 DEF T
<1> QED BY <1>5 DEF g, h

\* The sum over a set.
SumOf(f, S) == Sums(f, S)[S]

\* Taking the element it takes.
LEMMA SumTakes ==
  ASSUME NEW f, NEW S, IsFiniteSet(S)
  PROVE  /\ S = {} => SumOf(f, S) = 0
         /\ S # {} => \E x \in S : SumOf(f, S) = f[x] + SumOf(f, S \ {x})
<1> DEFINE g == Sums(f, S)
           x == CHOOSE x \in S : TRUE
<1>1. g = [s \in SUBSET S |-> Summed(f, s, g)]
  BY SumsExist
<1> HIDE DEF g
<1>2. g[S] = Summed(f, S, g)
  BY <1>1
<1>3. CASE S = {}
  BY <1>2, <1>3 DEF SumOf, Summed, g
<1>4. CASE S # {}
  <2>1. x \in S /\ g[S] = f[x] + g[S \ {x}]
    BY <1>2, <1>4 DEF Summed
  <2> HIDE DEF x
  <2>2. g[S \ {x}] = SumOf(f, S \ {x})
    BY SumsAgree DEF SumOf, g
  <2> QED BY <1>4, <2>1, <2>2 DEF SumOf, g
<1> QED BY <1>3, <1>4

\* In whatever order it is taken, a sum of integers is the same.
LEMMA SumInAnyOrder ==
  ASSUME NEW f, NEW S, IsFiniteSet(S), \A x \in S : f[x] \in Int
  PROVE  /\ SumOf(f, S) \in Int
         /\ \A y \in S : SumOf(f, S) = f[y] + SumOf(f, S \ {y})
<1> DEFINE Holds(s) == /\ SumOf(f, s) \in Int
                       /\ \A y \in s : SumOf(f, s) = f[y] + SumOf(f, s \ {y})
           T == {n \in Nat : \A s \in SUBSET S : Cardinality(s) <= n => Holds(s)}
<1>0. \A s \in SUBSET S : IsFiniteSet(s) /\ Cardinality(s) \in Nat
  BY FS_Subset, FS_CardinalityType
<1>1. ASSUME NEW s \in SUBSET S, s = {} PROVE Holds(s)
  BY <1>0, <1>1, SumTakes
<1>2. 0 \in T
  <2> SUFFICES ASSUME NEW s \in SUBSET S, Cardinality(s) <= 0 PROVE Holds(s)
    OBVIOUS
  <2>1. s = {}
    BY <1>0, FS_EmptySet
  <2> QED BY <1>1, <2>1
<1>3. ASSUME NEW n \in Nat, n \in T PROVE n + 1 \in T
  <2> SUFFICES ASSUME NEW s \in SUBSET S, Cardinality(s) <= n + 1, s # {} PROVE Holds(s)
    BY <1>1
  <2>1. ASSUME NEW z \in s PROVE Holds(s \ {z})
    <3>1. Cardinality(s \ {z}) = Cardinality(s) - 1 /\ Cardinality(s) \in Nat
      BY <1>0, Without
    <3>2. s \ {z} \in SUBSET S /\ Cardinality(s \ {z}) <= n
      BY <3>1
    <3> HIDE DEF Holds
    <3> QED BY <1>3, <3>2
  <2>2. PICK x \in s : SumOf(f, s) = f[x] + SumOf(f, s \ {x})
    BY <1>0, SumTakes
  <2>3. SumOf(f, s) \in Int
    BY <2>1, <2>2
  <2>4. ASSUME NEW y \in s PROVE SumOf(f, s) = f[y] + SumOf(f, s \ {y})
    <3>1. CASE y = x
      BY <2>2, <3>1
    <3>2. CASE y # x
      <4> DEFINE r == (s \ {x}) \ {y}
      <4>1. r = (s \ {y}) \ {x} /\ y \in s \ {x} /\ x \in s \ {y}
        BY <3>2
      <4>2. SumOf(f, s \ {x}) = f[y] + SumOf(f, r)
        BY <2>1, <4>1
      <4>3. SumOf(f, s \ {y}) = f[x] + SumOf(f, r)
        BY <2>1, <4>1
      <4>4. SumOf(f, r) \in Int
        <5>1. r \in SUBSET S /\ Cardinality(r) <= n
          <6>1. /\ Cardinality(s \ {x}) = Cardinality(s) - 1 /\ Cardinality(s) \in Nat
                /\ IsFiniteSet(s \ {x})
            BY <1>0, Without
          <6>2. Cardinality(r) = Cardinality(s \ {x}) - 1 /\ Cardinality(s \ {x}) \in Nat
            BY <4>1, <6>1, Without
          <6> QED BY <6>1, <6>2
        <5> QED BY <1>3, <5>1
      <4> HIDE DEF r
      <4>5. f[x] \in Int /\ f[y] \in Int
        OBVIOUS
      <4> QED BY <2>2, <4>2, <4>3, <4>4, <4>5
    <3> QED BY <3>1, <3>2
  <2> QED BY <2>3, <2>4
<1> HIDE DEF T, Holds
<1>4. Cardinality(S) \in T
  BY <1>0, <1>2, <1>3, SetInduction
<1>5. Holds(S)
  BY <1>0, <1>4 DEF T
<1> QED BY <1>5 DEF Holds

\* The sums of the first elements of a sequence of sizes.
LEMMA SumsGrow ==
  ASSUME NEW s \in Seq(Nat)
  PROVE  /\ SumOf(s, 1..0) = 0
         /\ \A k \in 0..Len(s) : SumOf(s, 1..k) \in Nat
         /\ \A k \in 1..Len(s) : SumOf(s, 1..k) = SumOf(s, 1..(k - 1)) + s[k]
         /\ \A j, k \in 0..Len(s) : j <= k => SumOf(s, 1..j) <= SumOf(s, 1..k)
<1>0. Len(s) \in Nat /\ \A i \in 1..Len(s) : s[i] \in Nat
  OBVIOUS
<1>1. SumOf(s, 1..0) = 0
  <2>1. 1..0 = {} /\ IsFiniteSet({})
    BY FS_EmptySet
  <2> QED BY <2>1, SumTakes
<1>2. ASSUME NEW k \in 1..Len(s)
      PROVE  SumOf(s, 1..k) \in Int /\ SumOf(s, 1..k) = SumOf(s, 1..(k - 1)) + s[k]
  <2>0. k \in Int /\ k - 1 \in Int /\ 1 \in Int
    BY <1>0
  <2>1. IsFiniteSet(1..k) /\ \A i \in 1..k : s[i] \in Int
    <3>1. IsFiniteSet(1..k)
      BY <2>0, FS_Interval
    <3> QED BY <1>0, <3>1
  <2>2. (1..k) \ {k} = 1..(k - 1) /\ k \in 1..k
    BY <1>0
  <2>3. SumOf(s, 1..k) \in Int /\ SumOf(s, 1..k) = s[k] + SumOf(s, 1..(k - 1))
    BY <2>1, <2>2, SumInAnyOrder
  <2>4. SumOf(s, 1..(k - 1)) \in Int
    <3>1. IsFiniteSet(1..(k - 1))
      BY <2>0, FS_Interval
    <3>2. \A i \in 1..(k - 1) : s[i] \in Int
      BY <1>0
    <3> QED BY <3>1, <3>2, SumInAnyOrder
  <2> QED BY <1>0, <2>3, <2>4
<1> DEFINE T == {k \in Nat : k <= Len(s) =>
                   /\ SumOf(s, 1..k) \in Nat
                   /\ \A j \in 0..k : SumOf(s, 1..j) <= SumOf(s, 1..k)}
<1>3. 0 \in T
  <2>1. \A j \in 0..0 : j = 0
    OBVIOUS
  <2> QED BY <1>1, <2>1
<1>4. ASSUME NEW k \in Nat, k \in T PROVE k + 1 \in T
  <2> SUFFICES ASSUME k + 1 <= Len(s)
               PROVE  /\ SumOf(s, 1..(k + 1)) \in Nat
                      /\ \A j \in 0..(k + 1) : SumOf(s, 1..j) <= SumOf(s, 1..(k + 1))
    OBVIOUS
  <2>1. k + 1 \in 1..Len(s) /\ (k + 1) - 1 = k /\ k <= Len(s)
    BY <1>0
  <2>2. SumOf(s, 1..(k + 1)) = SumOf(s, 1..k) + s[k + 1] /\ s[k + 1] \in Nat
    BY <1>0, <1>2, <2>1
  <2>3. SumOf(s, 1..k) \in Nat /\ \A j \in 0..k : SumOf(s, 1..j) <= SumOf(s, 1..k)
    BY <1>4, <2>1
  <2>4. ASSUME NEW j \in 0..k PROVE SumOf(s, 1..j) \in Int
    <3>1. CASE j = 0
      BY <1>1, <3>1
    <3>2. CASE j # 0
      <4>1. j \in 1..Len(s)
        BY <1>0, <2>1, <3>2
      <4> QED BY <1>2, <4>1
    <3> QED BY <3>1, <3>2
  <2>5. \A j \in 0..(k + 1) : j = k + 1 \/ j \in 0..k
    OBVIOUS
  <2> QED BY <2>2, <2>3, <2>4, <2>5
<1> HIDE DEF T
<1>5. Nat \subseteq T
  BY <1>3, <1>4, SetInduction
<1>6. \A k \in 0..Len(s) : k \in T
  BY <1>0, <1>5
<1>7. \A k \in 0..Len(s) : /\ SumOf(s, 1..k) \in Nat
                            /\ \A j \in 0..k : SumOf(s, 1..j) <= SumOf(s, 1..k)
  BY <1>0, <1>6 DEF T
<1>8. \A j, k \in 0..Len(s) : j <= k => j \in 0..k
  BY <1>0
<1> QED BY <1>1, <1>2, <1>7, <1>8

-----------------------------------------------------------------------------
(* Decompression. *)

\* The decompressed size of a message, up to some member.
SizeUpto(k) == SumOf(input.sizes, 1..k)

\* All members, and those up to the one that is read: what follows the last is
\* taken for another.
Count == Len(input.sizes)
Here == IF member > Count THEN Count ELSE member

\* The types, how many members each algorithm has, and where only gzip goes.
BytesTypes ==
  /\ algorithm \in Bytes!Algorithms /\ input.ends \in Bytes!Ends(algorithm)
  /\ input.sizes \in Seq(Nat) /\ Count \in Nat \ {0}
  /\ algorithm \in {"identity", "br"} => Count = 1
  /\ input.ends = "empty" => Count = 1 /\ input.sizes[1] = 0
  /\ limit # NoLimit => limit \in Nat
  /\ member \in 1..(Count + 1) /\ pending \in Nat /\ total \in Nat
  /\ algorithm # "gzip" => member = 1
  /\ member > Count => pending = 0 /\ input.ends \in {"garbage", "padding"}

\* While a limited loop runs, what is held and what is still to come of the
\* member are the members so far, and what is held is within the limit.
LoopInv ==
  result = "pending" /\ limit # NoLimit /\ algorithm # "identity" =>
    total <= limit /\ total + pending = SizeUpto(Here)

\* The invariant of decompression.
BytesInv == BytesTypes /\ LoopInv /\ DecompressionCorrect

\* The sums over the members of a message.
LEMMA SizesGrow ==
  ASSUME BytesTypes
  PROVE  /\ SizeUpto(1) = input.sizes[1]
         /\ \A k \in 1..Count : input.sizes[k] \in Nat /\ SizeUpto(k) \in Nat
         /\ \A k \in 1..Count : SizeUpto(k) <= SizeUpto(Count)
         /\ \A k \in 1..Count :
              k + 1 <= Count => SizeUpto(k + 1) = SizeUpto(k) + input.sizes[k + 1]
<1> DEFINE n == Count
<1>1. n \in Nat \ {0}
  BY DEF BytesTypes
<1>2. /\ SizeUpto(0) = 0
      /\ \A k \in 0..n : SizeUpto(k) \in Nat
      /\ \A k \in 1..n : SizeUpto(k) = SizeUpto(k - 1) + input.sizes[k]
      /\ \A j, k \in 0..n : j <= k => SizeUpto(j) <= SizeUpto(k)
  BY SumsGrow DEF BytesTypes, SizeUpto, Count
<1>3. \A k \in 1..n : input.sizes[k] \in Nat
  BY DEF BytesTypes, Count
<1> HIDE DEF n, SizeUpto
<1>4. SizeUpto(1) = input.sizes[1]
  BY <1>1, <1>2, <1>3
<1>5. \A k \in 1..n : k + 1 <= n => SizeUpto(k + 1) = SizeUpto(k) + input.sizes[k + 1]
  <2> SUFFICES ASSUME NEW k \in 1..n, k + 1 <= n
               PROVE  SizeUpto(k + 1) = SizeUpto(k) + input.sizes[k + 1]
    OBVIOUS
  <2>1. k + 1 \in 1..n /\ (k + 1) - 1 = k
    BY <1>1
  <2> QED BY <1>2, <2>1
<1>6. \A k \in 1..n : SizeUpto(k) <= SizeUpto(n)
  BY <1>1, <1>2
<1> QED BY <1>1, <1>2, <1>3, <1>4, <1>5, <1>6 DEF n

\* The sizes that the properties and the library's success speak of.
LEMMA SizeIs ==
  /\ Bytes!Size = SizeUpto(Count)
  /\ Bytes!Read = SizeUpto(IF algorithm = "zstd" THEN 1 ELSE Count)
<1>1. \A k : SizeUpto(k) = Bytes!SumFunctionOnSet(input.sizes, 1..k)
  BY SumIs DEF SizeUpto, SumOf
<1> QED BY <1>1 DEF Bytes!Size, Bytes!Read, Bytes!LastMember, Count

\* Nothing is held at first.
LEMMA BytesInitInv == Bytes!Init => BytesInv
<1> SUFFICES ASSUME Bytes!Init PROVE BytesInv
  OBVIOUS
<1> USE DEF Bytes!Init
<1>1. BytesTypes
  <2>1. /\ input.sizes \in Bytes!Sizes(algorithm) /\ input.ends \in Bytes!Ends(algorithm)
        /\ input.ends = "empty" => input.sizes = <<0>>
    OBVIOUS
  <2>2. PICK n \in 1..(IF algorithm \in {"gzip", "zstd"} THEN MaxMembers ELSE 1) :
          input.sizes \in [1..n -> 0..MaxSize]
    BY <2>1 DEF Bytes!Sizes
  <2>3. n \in Nat \ {0} /\ 0..MaxSize \subseteq Nat
    BY <2>2, BytesAssumption
  <2>4. input.sizes \in Seq(Nat) /\ Count = n
    BY <2>2, <2>3 DEF Count
  <2>5. algorithm \in {"identity", "br"} => n = 1
    BY <2>2
  <2>6. input.sizes[1] \in Nat
    BY <2>3, <2>4 DEF Count
  <2>7. input.ends = "empty" => Count = 1 /\ input.sizes[1] = 0
    BY <2>1 DEF Count
  <2> QED BY <2>1, <2>3, <2>4, <2>5, <2>6, <2>7, BytesAssumption DEF BytesTypes
<1>2. limit # NoLimit => limit \in Nat
  BY BytesAssumption
<1>3. LoopInv
  <2>1. Count \in Nat \ {0}
    BY <1>1 DEF BytesTypes
  <2>2. Here = 1
    BY <2>1 DEF Here
  <2>3. SizeUpto(1) = input.sizes[1] /\ input.sizes[1] \in Nat
    BY <1>1, <2>1, SizesGrow
  <2> QED BY <1>2, <2>2, <2>3 DEF LoopInv
<1>4. DecompressionCorrect
  BY <1>2 DEF DecompressionCorrect, Bytes!DecompressionCorrect
<1> QED BY <1>1, <1>3, <1>4 DEF BytesInv

\* Decompressing at once keeps the invariant.
LEMMA UnlimitedStep == BytesInv /\ Bytes!Unlimited => BytesInv'
<1> SUFFICES ASSUME BytesInv, Bytes!Unlimited PROVE BytesInv'
  OBVIOUS
<1>1. /\ UNCHANGED <<algorithm, input, limit, member, pending>>
      /\ limit = NoLimit /\ algorithm # "identity"
      /\ \/ Bytes!Decodes /\ result' = "ok" /\ total' = Bytes!Read
         \/ ~Bytes!Decodes /\ result' = "invalid_argument" /\ total' = total
  BY DEF Bytes!Unlimited
<1>2. Count' = Count /\ Bytes!Size' = Bytes!Size /\ Bytes!LastMember = Count
      /\ Bytes!LastMember' = Count
  BY <1>1 DEF Count, Bytes!Size, Bytes!LastMember
<1>3. /\ Bytes!Size = SizeUpto(Count) /\ SizeUpto(1) = input.sizes[1]
      /\ Bytes!Read = IF algorithm = "zstd" THEN input.sizes[1] ELSE Bytes!Size
      /\ Bytes!Read \in Nat /\ Count \in Nat \ {0}
  BY SizesGrow, SizeIs DEF BytesInv, BytesTypes
<1>4. BytesTypes'
  BY <1>1, <1>2, <1>3 DEF BytesInv, BytesTypes
<1>5. LoopInv'
  BY <1>1 DEF LoopInv
<1>6. CASE Bytes!Decodes
  <2>1. result' = "ok" /\ total' = Bytes!Read
    BY <1>1, <1>6
  <2>2. Bytes!Succeeds'
    BY <1>1, <1>2, <1>3, <1>6, <2>1 DEF Bytes!Succeeds, Bytes!Decodes
  <2> QED BY <1>1, <1>4, <1>5, <2>1, <2>2 DEF BytesInv, DecompressionCorrect,
             Bytes!DecompressionCorrect
<1>7. CASE ~Bytes!Decodes
  <2>1. result' = "invalid_argument"
    BY <1>1, <1>7
  <2>2. /\ input.ends # "whole"
        /\ algorithm = "gzip" => input.ends \notin {"padding", "empty"}
        /\ algorithm = "zstd" => input.ends = "corrupt" /\ Count = 1
    BY <1>2, <1>3, <1>7 DEF Bytes!Decodes
  <2> QED BY <1>1, <1>2, <1>4, <1>5, <2>1, <2>2 DEF BytesInv, DecompressionCorrect,
             Bytes!DecompressionCorrect
<1> QED BY <1>6, <1>7

\* Identity compares the length of the message as it is.
LEMMA IdentityStep == BytesInv /\ Bytes!Identity => BytesInv'
<1> SUFFICES ASSUME BytesInv, Bytes!Identity PROVE BytesInv'
  OBVIOUS
<1>1. /\ UNCHANGED <<algorithm, input, limit, member, pending>> /\ algorithm = "identity"
      /\ total' = input.sizes[1]
      /\ \/ result' = "resource_exhausted" /\ limit # NoLimit /\ total' > limit
         \/ result' = "ok" /\ (limit # NoLimit => ~(total' > limit))
  BY DEF Bytes!Identity
<1>2. Count = 1 /\ input.ends = "whole" /\ (limit # NoLimit => limit \in Nat)
  BY <1>1 DEF BytesInv, BytesTypes, Bytes!Ends
<1>3. Bytes!Size' = Bytes!Size /\ Bytes!Size = input.sizes[1] /\ input.sizes[1] \in Nat
  <2>1. Bytes!Size' = Bytes!Size
    BY <1>1 DEF Bytes!Size, Bytes!LastMember
  <2> QED BY <1>2, <2>1, SizesGrow, SizeIs DEF BytesInv
<1>4. BytesTypes'
  BY <1>1, <1>3 DEF BytesInv, BytesTypes, Count
<1>5. LoopInv' /\ DecompressionCorrect'
  BY <1>1, <1>2, <1>3 DEF LoopInv, DecompressionCorrect, Bytes!DecompressionCorrect,
     Bytes!Succeeds
<1> QED BY <1>4, <1>5 DEF BytesInv

\* One turn of a loop keeps the invariant.
LEMMA LimitedStep == BytesInv /\ Bytes!Limited => BytesInv'
<1> SUFFICES ASSUME BytesInv, Bytes!Limited PROVE BytesInv'
  OBVIOUS
<1> DEFINE size == SizeUpto(Count)
<1>1. /\ UNCHANGED <<algorithm, input, limit>> /\ limit # NoLimit /\ limit \in Nat
      /\ algorithm \in {"gzip", "br", "zstd"} /\ result = "pending" /\ Bytes!Turn
  BY DEF Bytes!Limited, Bytes!Pending, BytesInv, BytesTypes, Bytes!Algorithms
<1>2. /\ Count' = Count /\ Bytes!LastMember = Count /\ Bytes!LastMember' = Count
      /\ Bytes!Size' = size /\ \A k : SizeUpto(k)' = SizeUpto(k)
  <2>1. Bytes!Size = size
    BY SizeIs
  <2> QED BY <1>1, <2>1 DEF Count, Bytes!Size, Bytes!LastMember, SizeUpto
<1>3. /\ Count \in Nat \ {0} /\ SizeUpto(1) = input.sizes[1]
      /\ \A k \in 1..Count : /\ input.sizes[k] \in Nat /\ SizeUpto(k) \in Nat
                             /\ SizeUpto(k) <= size
      /\ \A k \in 1..Count :
           k + 1 <= Count => SizeUpto(k + 1) = SizeUpto(k) + input.sizes[k + 1]
  BY SizesGrow DEF BytesInv, BytesTypes
<1>4. /\ total \in Nat /\ pending \in Nat /\ total <= limit /\ member \in 1..(Count + 1)
      /\ total + pending = SizeUpto(Here) /\ Here \in 1..Count
      /\ algorithm # "gzip" => member = 1
      /\ algorithm = "br" => Count = 1
      /\ input.ends = "empty" => Count = 1 /\ input.sizes[1] = 0
      /\ member > Count => pending = 0 /\ input.ends \in {"garbage", "padding"}
  BY <1>1, <1>3 DEF BytesInv, BytesTypes, LoopInv, Here
<1>5. Bytes!Ask \in Nat \ {0} /\ total + Bytes!Ask = limit + 1
  BY <1>1, <1>4 DEF Bytes!Ask
<1>6. size \in Nat /\ SizeUpto(Here) \in Nat /\ SizeUpto(Here) <= size
  BY <1>3, <1>4
<1> HIDE DEF size
<1>7. CASE Bytes!NoInput /\ Bytes!Stops("ok")
  <2>1. /\ algorithm = "gzip" /\ input.ends = "empty" /\ result' = "ok"
        /\ UNCHANGED <<member, pending, total>>
    BY <1>7 DEF Bytes!NoInput, Bytes!Stops
  <2>2. total = 0 /\ size = 0
    BY <1>3, <1>4, <2>1 DEF Here, size
  <2>3. BytesTypes' /\ LoopInv'
    BY <1>1, <2>1 DEF BytesInv, BytesTypes, LoopInv, Count
  <2>4. DecompressionCorrect'
    BY <1>1, <1>2, <2>1, <2>2 DEF DecompressionCorrect, Bytes!DecompressionCorrect,
       Bytes!Succeeds
  <2> QED BY <2>3, <2>4 DEF BytesInv
<1>8. CASE ~Bytes!NoInput /\ Bytes!Refuses
  <2>1. /\ Bytes!Faulty /\ result' = "invalid_argument"
        /\ UNCHANGED <<member, pending, total>>
    BY <1>8 DEF Bytes!Refuses, Bytes!Stops
  <2>2. /\ input.ends # "whole" /\ (algorithm = "gzip" => input.ends # "empty")
        /\ algorithm = "zstd" => input.ends = "corrupt" /\ Count = 1
    BY <1>1, <1>2, <1>3, <1>4, <1>8, <2>1 DEF Bytes!Faulty, Bytes!NoInput
  <2>3. BytesTypes' /\ LoopInv'
    BY <1>1, <2>1 DEF BytesInv, BytesTypes, LoopInv, Count
  <2>4. DecompressionCorrect'
    BY <1>1, <1>2, <1>4, <2>1, <2>2 DEF DecompressionCorrect, Bytes!DecompressionCorrect
  <2> QED BY <2>3, <2>4 DEF BytesInv
<1>9. CASE /\ ~Bytes!NoInput
           /\ \E given \in Bytes!Given :
                /\ Bytes!Faulty => given < pending \/ given = Bytes!Ask
                /\ total' = total + given
                /\ \/ Bytes!TooLarge(given) \/ Bytes!Continues(given)
                   \/ Bytes!NextMember(given) \/ Bytes!Ended(given)
  <2>1. PICK given \in Bytes!Given :
          /\ Bytes!Faulty => given < pending \/ given = Bytes!Ask
          /\ total' = total + given
          /\ \/ Bytes!TooLarge(given) \/ Bytes!Continues(given)
             \/ Bytes!NextMember(given) \/ Bytes!Ended(given)
    BY <1>9
  <2>2. /\ given \in Nat /\ given <= pending /\ given <= Bytes!Ask
        /\ pending > 0 => given > 0
    BY <1>4, <1>5 DEF Bytes!Given
  <2>3. total' \in Nat /\ total' <= limit + 1
    BY <1>1, <1>4, <1>5, <2>1, <2>2
  <2>4. CASE Bytes!TooLarge(given)
    <3>1. /\ total' > limit /\ result' = "resource_exhausted"
          /\ pending' = pending - given /\ member' = member
      BY <2>1, <2>4 DEF Bytes!TooLarge
    <3>2. size > limit
      BY <1>1, <1>4, <1>6, <2>1, <2>2, <3>1
    <3>3. pending' \in Nat /\ (member > Count => pending' = 0)
      BY <1>4, <2>2, <3>1
    <3>4. BytesTypes' /\ LoopInv'
      BY <1>1, <2>3, <3>1, <3>3 DEF BytesInv, BytesTypes, LoopInv, Count
    <3>5. DecompressionCorrect'
      BY <1>1, <1>2, <2>3, <3>1, <3>2 DEF DecompressionCorrect, Bytes!DecompressionCorrect
    <3> QED BY <3>4, <3>5 DEF BytesInv
  <2>5. CASE Bytes!Continues(given)
    <3>1. /\ total' <= limit /\ pending' = pending - given
          /\ member' = member /\ result' = "pending"
      BY <1>1, <2>1, <2>5 DEF Bytes!Continues
    <3>2. /\ pending' \in Nat /\ (member > Count => pending' = 0)
          /\ total' + pending' = SizeUpto(Here)
      BY <1>4, <2>1, <2>2, <3>1
    <3>3. BytesTypes'
      BY <1>1, <2>3, <3>1, <3>2 DEF BytesInv, BytesTypes, Count
    <3>4. LoopInv'
      <4>1. SizeUpto(Here)' = SizeUpto(Here)
        BY <1>1, <1>2, <3>1 DEF Here, SizeUpto
      <4> QED BY <1>1, <3>1, <3>2, <4>1 DEF LoopInv
    <3>5. DecompressionCorrect'
      BY <1>1, <2>3, <3>1 DEF DecompressionCorrect, Bytes!DecompressionCorrect
    <3> QED BY <3>3, <3>4, <3>5 DEF BytesInv
  <2>6. CASE Bytes!NextMember(given)
    <3>1. /\ total' <= limit /\ given = pending /\ algorithm = "gzip" /\ result' = "pending"
          /\ member' = member + 1
          /\ pending' = IF member < Count THEN input.sizes[member'] ELSE 0
          /\ member < Count \/ input.ends \in {"garbage", "padding"}
      BY <1>1, <1>2, <2>1, <2>6 DEF Bytes!NextMember, Bytes!AtEnd, Bytes!MoreInput
    <3>2. member <= Count
      <4>1. member > Count => Bytes!Faulty /\ given = 0
        BY <1>2, <1>4, <3>1 DEF Bytes!Faulty
      <4> QED BY <1>3, <1>4, <1>5, <2>1, <3>1, <4>1
    <3>3. Here = member
      BY <1>3, <1>4, <3>2 DEF Here
    <3>4. /\ pending' \in Nat /\ member' \in 1..(Count + 1)
          /\ member' > Count => pending' = 0 /\ input.ends \in {"garbage", "padding"}
      BY <1>3, <1>4, <3>1, <3>2
    <3>5. total' + pending' = SizeUpto(IF member' > Count THEN Count ELSE member')
      <4>1. total' = SizeUpto(member)
        BY <1>4, <2>1, <3>1, <3>3
      <4>2. CASE member < Count
        <5>1. member + 1 \in 1..Count /\ SizeUpto(member + 1) = SizeUpto(member) + pending'
          BY <1>3, <1>4, <3>1, <4>2
        <5> QED BY <1>3, <1>4, <3>1, <4>1, <4>2, <5>1
      <4>3. CASE member = Count
        BY <1>3, <1>4, <2>3, <3>1, <4>1, <4>3
      <4> QED BY <1>3, <1>4, <3>2, <4>2, <4>3
    <3>6. BytesTypes'
      BY <1>1, <1>2, <2>3, <3>1, <3>4 DEF BytesInv, BytesTypes
    <3>7. LoopInv'
      <4>1. SizeUpto(Here)' = SizeUpto(IF member' > Count THEN Count ELSE member')
        BY <1>1, <1>2 DEF Here, SizeUpto
      <4> QED BY <1>1, <3>1, <3>5, <4>1 DEF LoopInv
    <3>8. DecompressionCorrect'
      BY <1>1, <2>3, <3>1 DEF DecompressionCorrect, Bytes!DecompressionCorrect
    <3> QED BY <3>6, <3>7, <3>8 DEF BytesInv
  <2>7. CASE Bytes!Ended(given)
    <3>1. /\ total' <= limit /\ pending' = pending - given /\ member' = member
          /\ IF algorithm = "zstd" THEN given = 0 ELSE given = pending
          /\ algorithm = "gzip" => member >= Count /\ input.ends \notin {"garbage", "padding"}
          /\ result' = IF algorithm = "zstd" \/ input.ends = "whole"
                       THEN "ok" ELSE "invalid_argument"
      BY <1>1, <1>2, <1>3, <1>4, <2>1, <2>7 DEF Bytes!Ended, Bytes!AtEnd, Bytes!MoreInput
    <3>2. given = pending /\ total' = SizeUpto(Here)
      BY <1>4, <2>1, <2>2, <3>1
    <3>3. ~Bytes!Faulty \/ given = Bytes!Ask
      BY <2>1, <2>2, <3>2
    <3>4. /\ algorithm = "zstd" => total' = input.sizes[1]
          /\ algorithm # "zstd" => total' = size
      BY <1>1, <1>3, <1>4, <3>1, <3>2 DEF Here, size
    <3>5. algorithm = "zstd" /\ input.ends = "corrupt" => Count > 1
      BY <1>2, <1>3, <1>4, <1>5, <3>1, <3>3 DEF Bytes!Faulty
    <3>6. pending' \in Nat /\ (member > Count => pending' = 0)
      BY <1>4, <2>2, <3>1
    <3>7. BytesTypes' /\ LoopInv'
      BY <1>1, <2>3, <3>1, <3>6 DEF BytesInv, BytesTypes, LoopInv, Count
    <3>8. CASE result' = "ok"
      <4>1. Bytes!Succeeds'
        BY <1>1, <1>2, <3>1, <3>4, <3>5, <3>8 DEF Bytes!Succeeds
      <4>2. DecompressionCorrect'
        BY <1>1, <2>3, <3>1, <3>8, <4>1 DEF DecompressionCorrect, Bytes!DecompressionCorrect
      <4> QED BY <3>7, <4>2 DEF BytesInv
    <3>9. CASE result' = "invalid_argument"
      <4>1. algorithm # "zstd" /\ input.ends # "whole"
        BY <3>1, <3>9
      <4>2. algorithm = "gzip" => input.ends # "empty"
        BY <1>9 DEF Bytes!NoInput
      <4>3. DecompressionCorrect'
        BY <1>1, <2>3, <3>1, <3>9, <4>1, <4>2 DEF DecompressionCorrect,
           Bytes!DecompressionCorrect
      <4> QED BY <3>7, <4>3 DEF BytesInv
    <3> QED BY <3>1, <3>8, <3>9
  <2> QED BY <2>1, <2>4, <2>5, <2>6, <2>7
<1> QED BY <1>1, <1>7, <1>8, <1>9 DEF Bytes!Turn

\* Every step of decompression keeps the invariant.
LEMMA BytesStep == BytesInv /\ [Bytes!Next]_bytesVars => BytesInv'
<1> SUFFICES ASSUME BytesInv, [Bytes!Next]_bytesVars PROVE BytesInv'
  OBVIOUS
<1>1. CASE UNCHANGED bytesVars
  <2>1. /\ Bytes!Size' = Bytes!Size /\ Bytes!LastMember' = Bytes!LastMember
        /\ Bytes!Succeeds' <=> Bytes!Succeeds
    BY <1>1 DEF bytesVars, Bytes!Size, Bytes!LastMember, Bytes!Succeeds
  <2>2. BytesTypes'
    BY <1>1 DEF bytesVars, BytesInv, BytesTypes, Count
  <2>3. SizeUpto(Here)' = SizeUpto(Here)
    BY <1>1 DEF bytesVars, SizeUpto, Here, Count
  <2>4. LoopInv'
    BY <1>1, <2>3 DEF bytesVars, BytesInv, LoopInv
  <2>5. DecompressionCorrect'
    <3>1. UNCHANGED <<algorithm, input, limit, total, result>>
      BY <1>1 DEF bytesVars
    <3>2. Bytes!DecompressionCorrect
      BY DEF BytesInv, DecompressionCorrect
    <3> QED BY <2>1, <3>1, <3>2 DEF DecompressionCorrect, Bytes!DecompressionCorrect
  <2> QED BY <2>2, <2>4, <2>5 DEF BytesInv
<1> QED BY <1>1, UnlimitedStep, IdentityStep, LimitedStep DEF Bytes!Next

\* The invariant says what is promised.
LEMMA BytesSaid == BytesInv => DecompressionCorrect
BY DEF BytesInv

\* A step of the parts is a step of this one, or leaves it alone.
LEMMA BytesSteps ==
  /\ PartsInit => Bytes!Init
  /\ [PartsNext]_allVars => [Bytes!Next]_bytesVars
<1>1. PartsInit => Bytes!Init
  BY DEF PartsInit
<1>2. [PartsNext]_allVars => [Bytes!Next]_bytesVars
  BY DEF PartsNext, Runs, Unless, allVars
<1> QED BY <1>1, <1>2

\* Decompression under read_max_bytes holds at most a byte more than the limit and
\* says what is true of the message, for any sizes, number of members and limits.
THEOREM DecompressionIsCorrect == PartsSpec => []DecompressionCorrect
<1>1. PartsInit => BytesInv
  BY BytesSteps, BytesInitInv
<1>2. BytesInv /\ [PartsNext]_allVars => BytesInv'
  BY BytesSteps, BytesStep
<1> QED BY <1>1, <1>2, BytesSaid, PTL DEF PartsSpec

-----------------------------------------------------------------------------
(* A client understands what the server meant.                               *)

\* The statuses a handler may end with, and what travels as gRPC's of one.
Statuses == Exchange!Errors \cup {Exchange!Ok}
Status(e) == Exchange!StatusTrailers(user.trailers, e)
Nothing == [headers |-> {}, trailers |-> {}]

\* The types of what the call, the server and the handler chose.
ExchangeTypes ==
    /\ call \in Exchange!Requests /\ server \in Exchange!Servers
    /\ user \in Exchange!UserMetadata /\ messages \in Nat /\ got \in Nat
    /\ DOMAIN wire = DOMAIN Exchange!NoResponse /\ DOMAIN metadata = DOMAIN Nothing
    /\ pc \in {"route", "negotiate", "handler", "running", "headers", "frames", "done"}

\* The compression of the response is one that the client accepts.
Acceptable == \E i \in DOMAIN call.accept : call.accept[i] = chosen

\* A message and the end of a stream, as they are written.
Message == [encoding |-> chosen]
End == [end |-> IF call.kind = "connect" THEN meant ELSE Status(meant),
        names |-> user.trailers, encoding |-> chosen]

\* The head of a stream's response, with n messages and nothing else yet to read.
Headed == /\ wire.http = 200 /\ wire.type = call.kind /\ wire.encoding = chosen
          /\ wire.headers = user.headers /\ wire.status = Exchange!NoStatus
Messages(n) == \A i \in 1..n : wire.frames[i] = Message
Begun(n) ==
    /\ Headed /\ wire.trailers = Exchange!NoStatus
    /\ wire.frames \in Seq({Message}) /\ Messages(n) /\ Len(wire.frames) = n

\* A response is one of five: a bare HTTP error, Connect's error in JSON, gRPC's in
\* headers alone, the single message of a unary call, or a stream with its end, of
\* which the messages got are gone.
HttpError ==
    /\ meant \in {Exchange!Http(404), Exchange!Http(415)} /\ user = Nothing
    /\ wire.http = meant.http /\ wire.type # "json"
JsonError ==
    /\ ~Exchange!Grpc /\ meant \in Exchange!Errors
    /\ wire.http # 200 /\ wire.type = "json" /\ wire.frames[1] = meant
    /\ wire.headers = Exchange!ContextHeaders
TrailersOnly ==
    /\ Exchange!Grpc /\ meant \in Exchange!Errors /\ got = 0
    /\ wire.http = 200 /\ wire.type = call.kind /\ wire.encoding = Exchange!None
    /\ wire.headers = user.headers /\ wire.status = Status(meant)
    /\ wire.frames = <<>> /\ wire.trailers = Exchange!NoStatus
Single ==
    /\ Exchange!Unary /\ meant = Exchange!Ok /\ messages = 1
    /\ wire.http = 200 /\ wire.type = "unary" /\ wire.encoding = chosen
    /\ wire.headers = Exchange!ContextHeaders
Stream ==
    /\ ~Exchange!Unary /\ meant \in Statuses /\ Headed /\ got <= messages
    /\ wire.frames \in Seq({Message, End})
    /\ Messages(messages - got)
    /\ IF call.kind = "grpc"
       THEN /\ Len(wire.frames) = messages - got /\ wire.trailers = Status(meant)
       ELSE /\ Len(wire.frames) = messages - got + 1
            /\ wire.frames[messages - got + 1] = End
            /\ wire.trailers = Exchange!NoStatus

\* What the response is at each step of the exchange.
ExchangeInv ==
    /\ ExchangeTypes
    /\ pc \in {"route", "negotiate", "handler"} =>
         user = Nothing /\ messages = 0 /\ wire = Exchange!NoResponse
    /\ pc \in {"route", "negotiate", "handler", "running", "headers"} => got = 0
    /\ pc \in {"handler", "running"} => Acceptable
    /\ pc = "running" => IF Exchange!Unary \/ messages = 0
                         THEN messages = 0 /\ wire = Exchange!NoResponse
                         ELSE Begun(messages)
    /\ pc = "headers" =>
         \/ HttpError \/ JsonError \/ TrailersOnly \/ (Acceptable /\ (Single \/ Stream))
    /\ pc = "frames" => /\ TrailersOnly \/ Stream
                        /\ user.headers \subseteq metadata.headers
    /\ pc = "done" => ExchangeHonest

-----------------------------------------------------------------------------
(* Codes and statuses.                                                       *)

\* The table of codes.
LEMMA CodesAre ==
  /\ DOMAIN Exchange!CodeTable = 1..16
  /\ \A i \in 1..16 : Exchange!CodeTable[i] # "ok"
  BY DEF Exchange!CodeTable

\* An error, and the stale one of a proxy, is told from success and from an HTTP
\* error, and its code survives the way into a gRPC status and back.
LEMMA ErrorIs ==
  ASSUME NEW e \in Exchange!Errors \cup {Exchange!Stale}
  PROVE  /\ e = Exchange!Error(e.code, e.message, e.details) /\ e.code # "ok"
         /\ e # Exchange!Ok /\ ~Exchange!IsHttp(e)
         /\ Exchange!GrpcStatus(e.code) \in 1..16
         /\ Exchange!FromGrpc(Exchange!GrpcStatus(e.code)) = e.code
<1>1. PICK i \in 1..16 : Exchange!CodeTable[i] = e.code
  <2>1. CASE e \in Exchange!Errors
    BY <2>1, CodesAre DEF Exchange!Errors, Exchange!Range
  <2>2. CASE e = Exchange!Stale
    BY <2>2 DEF Exchange!Stale, Exchange!Error, Exchange!CodeTable
  <2> QED BY <2>1, <2>2
<1>2. e = Exchange!Error(e.code, e.message, e.details)
  BY DEF Exchange!Errors, Exchange!Error, Exchange!Stale
<1>3. e.code # "ok"
  BY <1>1, CodesAre
<1>4. e # Exchange!Ok
  <2>1. Exchange!Ok.code = "ok"
    BY DEF Exchange!Ok, Exchange!Error
  <2> QED BY <2>1, <1>3
<1>5. ~Exchange!IsHttp(e)
  <2>1. "code" \in DOMAIN e
    BY <1>2 DEF Exchange!Error
  <2> QED BY <2>1 DEF Exchange!IsHttp
<1>6. /\ Exchange!GrpcStatus(e.code) \in 1..16
      /\ Exchange!CodeTable[Exchange!GrpcStatus(e.code)] = e.code
  <2>1. \E k \in DOMAIN Exchange!CodeTable : Exchange!CodeTable[k] = e.code
    BY <1>1, CodesAre
  <2> QED BY <2>1, CodesAre DEF Exchange!GrpcStatus
<1> QED BY <1>2, <1>3, <1>4, <1>5, <1>6 DEF Exchange!FromGrpc

\* Connect's HTTP status of an error is not that of a success.
LEMMA HttpStatusIs == \A code : Exchange!HttpStatus(code) # 200
  BY DEF Exchange!HttpStatus

\* The statuses that stand for the two HTTP errors of the server.
LEMMA FromHttpIs ==
  /\ Exchange!FromHttp(404) = "unimplemented"
  /\ Exchange!FromHttp(415) = "unknown"
  BY DEF Exchange!FromHttp

\* What gRPC's trailers of a status say: that status, unless a user's trailers of
\* reserved names stand where an error has no message or no details; never a success
\* of a failure.
LEMMA VerdictIs ==
  ASSUME NEW e \in Statuses
  PROVE  /\ Status(e).status # Exchange!Missing /\ Status(e).names = user.trailers
         /\ \/ Exchange!GrpcVerdict(Status(e)) = e
            \/ /\ Exchange!Reserved \in user.trailers /\ e \in Exchange!Errors
               /\ e.message = "" \/ ~e.details
         /\ Exchange!GrpcVerdict(Status(e)) = Exchange!Ok => e = Exchange!Ok
<1> DEFINE t == Status(e)
<1>1. /\ t.status = IF e = Exchange!Ok THEN 0 ELSE Exchange!GrpcStatus(e.code)
      /\ t.names = user.trailers
      /\ t.message = IF e # Exchange!Ok /\ e.message # "" THEN e.message
                     ELSE IF Exchange!Reserved \in user.trailers
                     THEN Exchange!Stale.message ELSE ""
      /\ t.bin = IF e # Exchange!Ok /\ e.details THEN e
                 ELSE IF Exchange!Reserved \in user.trailers THEN Exchange!Stale
                 ELSE Exchange!Ok
  BY DEF Status, Exchange!StatusTrailers
<1> HIDE DEF t
<1>2. CASE e = Exchange!Ok
  <2>1. t.status = 0
    BY <1>1, <1>2
  <2>2. Exchange!GrpcVerdict(t) = Exchange!Ok
    BY <2>1 DEF Exchange!GrpcVerdict, Exchange!Missing
  <2>3. t.status # Exchange!Missing
    BY <2>1 DEF Exchange!Missing
  <2> QED BY <1>1, <1>2, <2>2, <2>3 DEF t
<1>3. CASE e \in Exchange!Errors
  <2>1. /\ t.status \in 1..16 /\ Exchange!FromGrpc(t.status) = e.code
        /\ t.status # Exchange!Missing /\ t.status # 0
    <3>1. t.status = Exchange!GrpcStatus(e.code)
      BY <1>1, <1>3, ErrorIs
    <3> QED BY <1>3, <3>1, ErrorIs DEF Exchange!Missing
  <2>3. CASE t.bin # Exchange!Ok
    <3>1. Exchange!GrpcVerdict(t) = Exchange!Error(
              Exchange!FromGrpc(Exchange!GrpcStatus(t.bin.code)), t.bin.message,
              t.bin.details)
      BY <2>1, <2>3 DEF Exchange!GrpcVerdict
    <3>2. t.bin \in Exchange!Errors \cup {Exchange!Stale}
      BY <1>1, <1>3, <2>3
    <3>3. Exchange!GrpcVerdict(t) = t.bin
      BY <3>1, <3>2, ErrorIs
    <3>4. t.bin = e \/ (~e.details /\ Exchange!Reserved \in user.trailers)
      BY <1>1, <2>3, <1>3, ErrorIs
    <3>5. t.bin # Exchange!Ok /\ e # Exchange!Ok
      BY <1>3, <2>3, ErrorIs
    <3> QED BY <1>1, <1>3, <2>1, <2>3, <3>3, <3>4, <3>5 DEF t
  <2>4. CASE t.bin = Exchange!Ok
    <3>1. Exchange!GrpcVerdict(t) = Exchange!Error(e.code, t.message, FALSE)
      BY <2>1, <2>4 DEF Exchange!GrpcVerdict
    <3>2. ~e.details /\ Exchange!Reserved \notin user.trailers
      BY <1>1, <1>3, <2>4, ErrorIs DEF Exchange!Errors
    <3>3. t.message = e.message /\ e.details = FALSE
      BY <1>1, <1>3, <3>2, ErrorIs DEF Exchange!Errors
    <3>4. Exchange!GrpcVerdict(t) = e
      BY <1>3, <3>1, <3>3, ErrorIs
    <3>5. e # Exchange!Ok
      BY <1>3, ErrorIs
    <3> QED BY <1>1, <1>3, <2>1, <3>4, <3>5 DEF t
  <2> QED BY <2>3, <2>4
<1> QED BY <1>2, <1>3 DEF Statuses

\* The errors of the server itself are errors a handler may end with as well.
LEMMA OwnErrors ==
  /\ Exchange!Error("unknown", "text", FALSE) \in Exchange!Errors
  /\ Exchange!Error("invalid_argument", "text", FALSE) \in Exchange!Errors
  /\ Exchange!Unsupported \in Exchange!Errors
<1>1. /\ Exchange!CodeTable[2] = "unknown" /\ Exchange!CodeTable[3] = "invalid_argument"
      /\ Exchange!CodeTable[12] = "unimplemented"
  BY DEF Exchange!CodeTable
<1>2. {"unknown", "invalid_argument", "unimplemented"} \subseteq
        Exchange!Range(Exchange!CodeTable)
  BY <1>1, CodesAre DEF Exchange!Range
<1> QED BY <1>2 DEF Exchange!Unsupported, Exchange!Error, Exchange!Errors

\* Bare HTTP errors are told from success.
LEMMA HttpIs ==
  ASSUME NEW n
  PROVE  /\ Exchange!IsHttp(Exchange!Http(n)) /\ Exchange!Http(n).http = n
         /\ Exchange!Http(n) # Exchange!Ok
  BY DEF Exchange!IsHttp, Exchange!Http, Exchange!Ok, Exchange!Error

\* What is refused before there is a handler.
LEMMA RejectionIs ==
  \/ Exchange!Rejection = Exchange!Ok
  \/ Exchange!Rejection \in {Exchange!Http(404), Exchange!Http(415)}
  \/ Exchange!Rejection \in Exchange!Errors
<1>1. CASE ~server.endpoint
  BY <1>1 DEF Exchange!Rejection
<1>2. CASE server.endpoint /\ call.kind = "grpc" /\ ~server.trailers
  BY <1>2, OwnErrors DEF Exchange!Rejection
<1>3. CASE server.endpoint /\ ~(call.kind = "grpc" /\ ~server.trailers)
  <2>1. CASE ~Exchange!Grpc /\ call.timeout = "eleven_digits"
    BY <1>3, <2>1, OwnErrors DEF Exchange!Rejection
  <2>2. CASE ~(~Exchange!Grpc /\ call.timeout = "eleven_digits")
    <3>1. Exchange!Rejection = IF call.codec \notin server.codecs
                               THEN Exchange!Http(415) ELSE Exchange!Ok
      BY <1>3, <2>2, Zenon DEF Exchange!Rejection
    <3> QED BY <3>1
  <2> QED BY <2>1, <2>2
<1> QED BY <1>1, <1>2, <1>3

\* The response to an error is Connect's JSON or gRPC's trailers alone.
LEMMA Responds ==
  ASSUME NEW e \in Exchange!Errors, meant' = e, wire' = Exchange!ErrorResponse(e),
         call' = call, user' = user, got' = 0
  PROVE  /\ DOMAIN wire' = DOMAIN Exchange!NoResponse
         /\ (JsonError \/ TrailersOnly)'
<1>1. ~Exchange!IsHttp(e)
  BY ErrorIs
<1>2. CASE Exchange!Grpc
  <2>1. wire' = Exchange!TrailersOnly(e)
    BY <1>1, <1>2 DEF Exchange!ErrorResponse
  <2>2. wire'.status = Status(e)
    BY <2>1 DEF Exchange!TrailersOnly, Exchange!NoResponse, Status
  <2>3. TrailersOnly'
    BY <1>2, <2>1, <2>2 DEF TrailersOnly, Exchange!TrailersOnly, Exchange!NoResponse,
       Exchange!Grpc, Status
  <2> QED BY <2>1, <2>3 DEF Exchange!TrailersOnly, Exchange!NoResponse
<1>3. CASE ~Exchange!Grpc
  <2>1. wire' = [Exchange!NoResponse EXCEPT
                    !.http = Exchange!HttpStatus(e.code), !.type = "json",
                    !.headers = Exchange!ContextHeaders, !.frames = <<e>>]
    BY <1>1, <1>3 DEF Exchange!ErrorResponse, Exchange!Json
  <2>2. /\ wire'.http = Exchange!HttpStatus(e.code) /\ wire'.type = "json"
        /\ wire'.headers = Exchange!ContextHeaders /\ wire'.frames = <<e>>
        /\ DOMAIN wire' = DOMAIN Exchange!NoResponse
    BY <2>1 DEF Exchange!NoResponse
  <2>3. Exchange!ContextHeaders' = Exchange!ContextHeaders
    BY DEF Exchange!ContextHeaders
  <2>4. JsonError'
    BY <1>3, <2>2, <2>3, HttpStatusIs DEF JsonError, Exchange!Grpc
  <2> QED BY <2>2, <2>4
<1> QED BY <1>2, <1>3

\* A server's HTTP error is a response without a body.
LEMMA RespondsBare ==
  ASSUME NEW e \in {Exchange!Http(404), Exchange!Http(415)},
         meant' = e, wire' = Exchange!ErrorResponse(e), user' = Nothing
  PROVE  DOMAIN wire' = DOMAIN Exchange!NoResponse /\ HttpError'
<1>1. wire' = [Exchange!NoResponse EXCEPT !.http = e.http,
                                          !.headers = Exchange!ContextHeaders]
  BY HttpIs DEF Exchange!ErrorResponse
<1> QED BY <1>1 DEF HttpError, Exchange!NoResponse, Exchange!None

\* negotiate_compression answers with a compression the client accepts, as identity
\* is one of them.
LEMMA Negotiated ==
  ASSUME call \in Exchange!Requests
  PROVE  \E i \in DOMAIN call.accept :
             call.accept[i] = Exchange!NegotiateCompression(call.accept)
<1> DEFINE accept == call.accept
           T == {i \in DOMAIN accept : Exchange!Suits(accept, i)}
<1>1. /\ accept \in Seq(STRING) /\ DOMAIN accept = 1..Len(accept) /\ Len(accept) \in Nat
      /\ \E i \in DOMAIN accept : accept[i] = "identity"
  BY IdentityAssumption DEF Exchange!Requests
<1>2. CASE T = {}
  <2>1. Exchange!NegotiateCompression(accept) = "identity"
    BY <1>2 DEF Exchange!NegotiateCompression
  <2> QED BY <1>1, <2>1
<1>3. CASE T # {}
  <2>1. PICK k \in T : \A j \in T : k <= j
    <3>1. T \in SUBSET Nat
      BY <1>1
    <3> HIDE DEF T
    <3> QED BY <1>3, <3>1, Least
  <2>2. k \in DOMAIN accept /\ Exchange!Suits(accept, k) /\ k \in 1..Len(accept)
    BY <1>1, <2>1
  <2>3. ASSUME NEW j \in 1..(k - 1) PROVE ~Exchange!Suits(accept, j)
    <3>1. j \in DOMAIN accept /\ ~(k <= j)
      BY <1>1, <2>2
    <3> QED BY <2>1, <3>1
  <2>4. \E m \in DOMAIN accept :
          Exchange!Suits(accept, m) /\ \A j \in 1..(m - 1) : ~Exchange!Suits(accept, j)
    BY <2>2, <2>3
  <2> QED BY <2>4 DEF Exchange!NegotiateCompression
<1> QED BY <1>2, <1>3

\* Before an exchange starts, nothing is meant, sent or read.
LEMMA ExchangeInitInv == Exchange!Init => ExchangeInv
<1> SUFFICES ASSUME Exchange!Init PROVE ExchangeInv
  OBVIOUS
<1>1. ExchangeTypes
  <2>1. user \in Exchange!UserMetadata
    BY DEF Exchange!Init, Exchange!UserMetadata
  <2> QED BY <2>1 DEF ExchangeTypes, Exchange!Init, Nothing
<1>2. pc = "route" /\ user = Nothing /\ messages = 0 /\ got = 0
      /\ wire = Exchange!NoResponse
  BY DEF Exchange!Init, Nothing
<1> QED BY <1>1, <1>2 DEF ExchangeInv

\* Routing refuses with a response that says so.
LEMMA RouteKeeps == ExchangeInv /\ Exchange!Route => ExchangeInv'
<1> SUFFICES ASSUME ExchangeInv, Exchange!Route PROVE ExchangeInv'
  OBVIOUS
<1>1. /\ ExchangeTypes /\ user = Nothing /\ messages = 0 /\ got = 0
      /\ wire = Exchange!NoResponse
      /\ UNCHANGED <<call, server, chosen, user, messages, metadata, got, verdict>>
  BY DEF ExchangeInv, Exchange!Route
<1>2. CASE Exchange!Rejection = Exchange!Ok
  <2>1. pc' = "negotiate" /\ wire' = wire
    BY <1>2 DEF Exchange!Route
  <2>2. ExchangeTypes'
    BY <1>1, <2>1 DEF ExchangeTypes, Exchange!Requests, Exchange!Servers,
       Exchange!UserMetadata
  <2> QED BY <1>1, <2>1, <2>2 DEF ExchangeInv, Nothing
<1>3. CASE Exchange!Rejection # Exchange!Ok
  <2> DEFINE e == Exchange!Rejection
  <2>1. meant' = e /\ wire' = Exchange!ErrorResponse(e) /\ pc' = "headers"
    BY <1>3 DEF Exchange!Route, Exchange!Answer
  <2>2. e \in {Exchange!Http(404), Exchange!Http(415)} \/ e \in Exchange!Errors
    BY <1>3, RejectionIs
  <2> HIDE DEF e
  <2>3. /\ DOMAIN wire' = DOMAIN Exchange!NoResponse
        /\ HttpError' \/ (JsonError \/ TrailersOnly)'
    BY <1>1, <2>1, <2>2, Responds, RespondsBare
  <2>4. ExchangeTypes'
    BY <1>1, <2>1, <2>3 DEF ExchangeTypes
  <2> QED BY <1>1, <2>1, <2>3, <2>4 DEF ExchangeInv
<1> QED BY <1>2, <1>3

\* What a stream writes on: its head, with the messages so far.
LEMMA HeadIs ==
  ASSUME user' = user, call' = call, messages \in Nat,
         \/ messages = 0 /\ wire = Exchange!NoResponse
         \/ /\ Begun(messages) /\ chosen' = chosen
            /\ DOMAIN wire = DOMAIN Exchange!NoResponse
  PROVE  LET h == Exchange!Head_ IN
         /\ h.http = 200 /\ h.type = call.kind /\ h.encoding = chosen'
         /\ h.headers = user.headers /\ h.status = Exchange!NoStatus
         /\ h.trailers = Exchange!NoStatus /\ DOMAIN h = DOMAIN Exchange!NoResponse
         /\ h.frames \in Seq({Message'}) /\ Len(h.frames) = messages
         /\ \A i \in 1..messages : h.frames[i] = Message'
<1> DEFINE h == Exchange!Head_
<1>1. CASE messages = 0 /\ wire = Exchange!NoResponse
  <2>1. h = [Exchange!NoResponse EXCEPT !.http = 200, !.type = call.kind,
                                        !.encoding = chosen', !.headers = user.headers]
    BY <1>1 DEF Exchange!Head_, Exchange!NoResponse
  <2> HIDE DEF h
  <2>2. /\ h.http = 200 /\ h.type = call.kind /\ h.encoding = chosen'
        /\ h.headers = user.headers /\ h.status = Exchange!NoStatus
        /\ h.trailers = Exchange!NoStatus /\ DOMAIN h = DOMAIN Exchange!NoResponse
        /\ h.frames = <<>>
    BY <2>1 DEF Exchange!NoResponse
  <2>3. h.frames \in Seq({Message'}) /\ Len(h.frames) = messages
        /\ \A i \in 1..messages : h.frames[i] = Message'
    BY <1>1, <2>2
  <2> QED BY <2>2, <2>3 DEF h
<1>2. CASE /\ Begun(messages) /\ chosen' = chosen
           /\ DOMAIN wire = DOMAIN Exchange!NoResponse
  <2>1. h = wire
    BY <1>2 DEF Begun, Headed, Exchange!Head_
  <2>2. Message' = Message
    BY <1>2 DEF Message
  <2> HIDE DEF h
  <2>3. /\ h.http = 200 /\ h.type = call.kind /\ h.encoding = chosen'
        /\ h.headers = user.headers /\ h.status = Exchange!NoStatus
        /\ h.trailers = Exchange!NoStatus /\ DOMAIN h = DOMAIN Exchange!NoResponse
    BY <1>2, <2>1 DEF Begun, Headed
  <2>4. /\ h.frames \in Seq({Message'}) /\ Len(h.frames) = messages
        /\ \A i \in 1..messages : h.frames[i] = Message'
    BY <1>2, <2>1, <2>2 DEF Begun, Messages
  <2> QED BY <2>3, <2>4 DEF h
<1> QED BY <1>1, <1>2

\* A sequence is one over a larger set as well, and so it is with one more at its end.
LEMMA Longer ==
  ASSUME NEW S, NEW T, S \subseteq T, NEW s \in Seq(S), NEW x \in T
  PROVE  /\ Append(s, x) \in Seq(T) /\ Len(Append(s, x)) = Len(s) + 1
         /\ \A i \in 1..Len(s) : Append(s, x)[i] = s[i]
         /\ Append(s, x)[Len(s) + 1] = x /\ s \in Seq(T) /\ Len(s) \in Nat
<1>1. s \in Seq(T)
  BY ElementOfSeq
<1> QED BY <1>1, AppendProperties

\* However far a stream got, what ends it is a complete response.
LEMMA EndsStream ==
  ASSUME NEW e \in Statuses, call \in Exchange!Requests, ~Exchange!Unary,
         messages \in Nat,
         \/ messages = 0 /\ wire = Exchange!NoResponse
         \/ /\ Begun(messages) /\ chosen' = chosen
            /\ DOMAIN wire = DOMAIN Exchange!NoResponse,
         meant' = e, wire' = Exchange!EndStream(e),
         call' = call, user' = user, messages' = messages, got' = 0
  PROVE  DOMAIN wire' = DOMAIN Exchange!NoResponse /\ Stream'
<1> DEFINE h == Exchange!Head_
<1>1. /\ h.http = 200 /\ h.type = call.kind /\ h.encoding = chosen'
      /\ h.headers = user.headers /\ h.status = Exchange!NoStatus
      /\ h.trailers = Exchange!NoStatus /\ DOMAIN h = DOMAIN Exchange!NoResponse
      /\ h.frames \in Seq({Message'}) /\ Len(h.frames) = messages
      /\ \A i \in 1..messages : h.frames[i] = Message'
  BY HeadIs
<1>2. Status(e)' = Status(e) /\ (Exchange!Unary)' = Exchange!Unary
  BY DEF Status, Exchange!Unary, Exchange!StatusTrailers
<1>3. CASE call.kind = "grpc"
  <2>1. wire' = [h EXCEPT !.trailers = Status(e)]
    BY <1>3 DEF Exchange!EndStream, Status
  <2> HIDE DEF h
  <2>2. /\ wire'.http = 200 /\ wire'.type = call.kind /\ wire'.encoding = chosen'
        /\ wire'.headers = user.headers /\ wire'.status = Exchange!NoStatus
        /\ wire'.trailers = Status(e) /\ DOMAIN wire' = DOMAIN Exchange!NoResponse
        /\ wire'.frames = h.frames
    BY <1>1, <2>1 DEF Exchange!NoResponse
  <2>3. h.frames \in Seq({Message', End'})
    BY <1>1, Longer
  <2>4. Headed' /\ (Messages(messages - got))'
    BY <1>1, <2>2 DEF Headed, Messages
  <2> QED BY <1>1, <1>2, <1>3, <2>2, <2>3, <2>4 DEF Stream, Statuses
<1>4. CASE call.kind # "grpc"
  <2> DEFINE frame == Exchange!EndFrame(IF Exchange!Grpc THEN Status(e) ELSE e)
  <2>1. wire' = [h EXCEPT !.frames = Append(@, frame)]
    BY <1>4 DEF Exchange!EndStream, Status
  <2>5. frame = End'
    <3>1. (call.kind = "connect") = ~Exchange!Grpc
      BY <1>4 DEF Exchange!Grpc, Exchange!Unary, Exchange!Requests, Exchange!Kinds
    <3>2. Status(meant)' = Status(e)
      BY DEF Status
    <3> QED BY <3>1, <3>2 DEF Exchange!EndFrame, End
  <2> HIDE DEF frame
  <2> HIDE DEF h
  <2>2. /\ wire'.http = 200 /\ wire'.type = call.kind /\ wire'.encoding = chosen'
        /\ wire'.headers = user.headers /\ wire'.status = Exchange!NoStatus
        /\ wire'.trailers = Exchange!NoStatus
        /\ DOMAIN wire' = DOMAIN Exchange!NoResponse
        /\ wire'.frames = Append(h.frames, frame)
    BY <1>1, <2>1 DEF Exchange!NoResponse
  <2>3. /\ wire'.frames \in Seq({Message', End'}) /\ Len(wire'.frames) = messages + 1
        /\ \A i \in 1..messages : wire'.frames[i] = Message'
        /\ wire'.frames[messages + 1] = End'
    BY <1>1, <2>2, <2>5, Longer
  <2>4. Headed' /\ (Messages(messages - got))'
    BY <1>1, <2>2, <2>3 DEF Headed, Messages
  <2> QED BY <1>1, <1>2, <1>4, <2>2, <2>3, <2>4 DEF Stream, Statuses
<1> QED BY <1>3, <1>4

\* Negotiation chooses what the client accepts, or refuses what it sends.
LEMMA NegotiateKeeps == ExchangeInv /\ Exchange!Negotiate => ExchangeInv'
<1> SUFFICES ASSUME ExchangeInv, Exchange!Negotiate PROVE ExchangeInv'
  OBVIOUS
<1>1. /\ ExchangeTypes /\ user = Nothing /\ messages = 0 /\ got = 0
      /\ wire = Exchange!NoResponse
      /\ UNCHANGED <<call, server, user, messages, metadata, got, verdict>>
      /\ chosen' = Exchange!NegotiateCompression(call.accept)
  BY DEF ExchangeInv, Exchange!Negotiate
<1>2. Acceptable'
  BY <1>1, Negotiated DEF ExchangeTypes, Acceptable
<1>3. CASE call.send \in server.compressions
  <2>1. pc' = "handler" /\ wire' = wire
    BY <1>3 DEF Exchange!Negotiate
  <2>2. ExchangeTypes'
    BY <1>1, <2>1 DEF ExchangeTypes
  <2> QED BY <1>1, <1>2, <2>1, <2>2 DEF ExchangeInv, Nothing
<1>4. CASE call.send \notin server.compressions
  <2> DEFINE e == Exchange!Unsupported
  <2>1. /\ meant' = e /\ pc' = "headers"
        /\ wire' = IF Exchange!Unary THEN Exchange!ErrorResponse(e)
                   ELSE Exchange!EndStream(e)
    BY <1>4 DEF Exchange!Negotiate, Exchange!Answer
  <2>2. e \in Exchange!Errors /\ e \in Statuses
    BY OwnErrors DEF Statuses
  <2> HIDE DEF e
  <2>3. /\ DOMAIN wire' = DOMAIN Exchange!NoResponse
        /\ (JsonError \/ TrailersOnly)' \/ Stream'
    <3>1. CASE Exchange!Unary
      BY <1>1, <2>1, <2>2, <3>1, Responds
    <3>2. CASE ~Exchange!Unary
      BY <1>1, <2>1, <2>2, <3>2, EndsStream DEF ExchangeTypes
    <3> QED BY <3>1, <3>2
  <2>4. ExchangeTypes'
    BY <1>1, <2>1, <2>3 DEF ExchangeTypes
  <2> QED BY <1>1, <1>2, <2>1, <2>3, <2>4 DEF ExchangeInv
<1> QED BY <1>3, <1>4

\* The handler sets metadata before it sends anything.
LEMMA SetMetadataKeeps == ExchangeInv /\ Exchange!SetMetadata => ExchangeInv'
<1> SUFFICES ASSUME ExchangeInv, Exchange!SetMetadata PROVE ExchangeInv'
  OBVIOUS
<1>1. /\ ExchangeTypes /\ messages = 0 /\ got = 0 /\ wire = Exchange!NoResponse
      /\ Acceptable /\ user' \in Exchange!UserMetadata /\ pc' = "running"
      /\ UNCHANGED <<call, server, chosen, meant, messages, wire, metadata, got, verdict>>
  BY DEF ExchangeInv, Exchange!SetMetadata
<1>2. ExchangeTypes' /\ Acceptable'
  <2>1. (Exchange!UserMetadata)' = Exchange!UserMetadata
    BY DEF Exchange!UserMetadata
  <2> QED BY <1>1, <2>1 DEF ExchangeTypes, Acceptable
<1>3. (Exchange!Unary \/ messages = 0)'
  BY <1>1
<1> QED BY <1>1, <1>2, <1>3 DEF ExchangeInv

\* A message goes behind those before.
LEMMA SendMessageKeeps == ExchangeInv /\ Exchange!SendMessage => ExchangeInv'
<1> SUFFICES ASSUME ExchangeInv, Exchange!SendMessage PROVE ExchangeInv'
  OBVIOUS
<1> DEFINE h == Exchange!Head_
<1>1. /\ ExchangeTypes /\ got = 0 /\ Acceptable /\ pc = "running" /\ pc' = "running"
      /\ ~Exchange!Unary /\ messages' = messages + 1 /\ messages \in Nat
      /\ chosen' = chosen
      /\ UNCHANGED <<call, server, user, meant, metadata, got, verdict>>
      /\ wire' = [h EXCEPT !.frames = Append(@, [encoding |-> chosen])]
      /\ (messages = 0 /\ wire = Exchange!NoResponse) \/ Begun(messages)
      /\ DOMAIN wire = DOMAIN Exchange!NoResponse
  BY DEF ExchangeInv, ExchangeTypes, Exchange!SendMessage
<1>2. [encoding |-> chosen] = Message'
  BY <1>1 DEF Message
<1>3. /\ h.http = 200 /\ h.type = call.kind /\ h.encoding = chosen'
      /\ h.headers = user.headers /\ h.status = Exchange!NoStatus
      /\ h.trailers = Exchange!NoStatus /\ DOMAIN h = DOMAIN Exchange!NoResponse
      /\ h.frames \in Seq({Message'}) /\ Len(h.frames) = messages
      /\ \A i \in 1..messages : h.frames[i] = Message'
  BY <1>1, HeadIs
<1> HIDE DEF h
<1>4. /\ wire'.http = 200 /\ wire'.type = call.kind /\ wire'.encoding = chosen'
      /\ wire'.headers = user.headers /\ wire'.status = Exchange!NoStatus
      /\ wire'.trailers = Exchange!NoStatus
      /\ DOMAIN wire' = DOMAIN Exchange!NoResponse
      /\ wire'.frames = Append(h.frames, [encoding |-> chosen])
  BY <1>1, <1>3 DEF Exchange!NoResponse
<1>5. /\ wire'.frames \in Seq({Message'}) /\ Len(wire'.frames) = messages'
      /\ \A i \in 1..messages' : wire'.frames[i] = Message'
  BY <1>1, <1>2, <1>3, <1>4, Longer
<1>6. Begun(messages)'
  BY <1>1, <1>4, <1>5 DEF Begun, Headed, Messages
<1>7. ExchangeTypes' /\ Acceptable' /\ messages' # 0 /\ (~Exchange!Unary)'
  BY <1>1, <1>4 DEF ExchangeTypes, Acceptable, Exchange!Unary
<1> QED BY <1>1, <1>6, <1>7 DEF ExchangeInv

\* Whatever the handler ends with is a complete response.
LEMMA HandlerEndsKeeps == ExchangeInv /\ Exchange!HandlerEnds => ExchangeInv'
<1> SUFFICES ASSUME ExchangeInv, Exchange!HandlerEnds PROVE ExchangeInv'
  OBVIOUS
<1>1. /\ ExchangeTypes /\ got = 0 /\ Acceptable /\ messages \in Nat
      /\ chosen' = chosen /\ UNCHANGED <<call, server, user, metadata, got>>
      /\ IF Exchange!Unary \/ messages = 0
         THEN messages = 0 /\ wire = Exchange!NoResponse ELSE Begun(messages)
      /\ DOMAIN wire = DOMAIN Exchange!NoResponse
  BY DEF ExchangeInv, ExchangeTypes, Exchange!HandlerEnds
<1>2. PICK e \in Statuses :
        /\ meant' = e /\ pc' = "headers"
        /\ wire' = IF ~Exchange!Unary THEN Exchange!EndStream(e)
                   ELSE IF e = Exchange!Ok THEN Exchange!UnaryResponse
                   ELSE Exchange!ErrorResponse(e)
        /\ messages' = IF Exchange!Unary /\ e = Exchange!Ok THEN 1 ELSE messages
  BY DEF Exchange!HandlerEnds, Exchange!Answer, Statuses
<1>3. /\ DOMAIN wire' = DOMAIN Exchange!NoResponse
      /\ (JsonError \/ TrailersOnly)' \/ Single' \/ Stream'
  <2>1. CASE ~Exchange!Unary
    BY <1>1, <1>2, <2>1, EndsStream DEF ExchangeTypes
  <2>2. CASE Exchange!Unary /\ e = Exchange!Ok
    <3>1. wire' = Exchange!UnaryResponse /\ messages' = 1
      BY <1>2, <2>2
    <3>2. /\ wire'.http = 200 /\ wire'.type = "unary" /\ wire'.encoding = chosen
          /\ wire'.headers = Exchange!ContextHeaders
          /\ DOMAIN wire' = DOMAIN Exchange!NoResponse
      BY <3>1 DEF Exchange!UnaryResponse, Exchange!NoResponse
    <3>3. /\ (Exchange!Unary)' = Exchange!Unary
          /\ Exchange!ContextHeaders' = Exchange!ContextHeaders
      BY <1>1 DEF Exchange!Unary, Exchange!ContextHeaders
    <3> QED BY <1>1, <1>2, <2>2, <3>1, <3>2, <3>3 DEF Single
  <2>3. CASE Exchange!Unary /\ e # Exchange!Ok
    BY <1>1, <1>2, <2>3, Responds DEF Statuses
  <2> QED BY <2>1, <2>2, <2>3
<1>4. ExchangeTypes' /\ Acceptable'
  BY <1>1, <1>2, <1>3 DEF ExchangeTypes, Acceptable
<1> QED BY <1>1, <1>2, <1>3, <1>4 DEF ExchangeInv

\* What a stream or trailers alone have as headers reaches the client; and so do the
\* trailers that a response without an end has among its headers.
LEMMA ReceivedIs ==
  ASSUME user \in Exchange!UserMetadata
  PROVE  /\ wire.headers = user.headers =>
               user.headers \subseteq Exchange!Received.headers
         /\ wire.headers = Exchange!ContextHeaders =>
              /\ user.headers \subseteq Exchange!Received.headers
              /\ user.trailers \subseteq Exchange!Received.trailers
         /\ DOMAIN Exchange!Received = DOMAIN Nothing
<1>1. /\ user.headers \subseteq {Exchange!Header(n) : n \in MetadataNames}
      /\ user.trailers \subseteq MetadataNames \cup {Exchange!Reserved}
  BY DEF Exchange!UserMetadata
<1>2. \A m, n : Exchange!Header(m) # Exchange!Prefixed(n)
  BY DEF Exchange!Header, Exchange!Prefixed
<1>3. \A h \in user.headers : \A n : h # Exchange!Prefixed(n)
  BY <1>1, <1>2
<1>4. user.headers \subseteq wire.headers =>
      user.headers \subseteq Exchange!Received.headers
  BY <1>3 DEF Exchange!Received
<1>5. wire.headers = Exchange!ContextHeaders => user.headers \subseteq wire.headers
  BY DEF Exchange!ContextHeaders
<1>6. wire.headers = Exchange!ContextHeaders =>
        user.trailers \subseteq Exchange!Received.trailers
  BY <1>1 DEF Exchange!ContextHeaders, Exchange!Received, Exchange!Trailers
<1>7. DOMAIN Exchange!Received = DOMAIN Nothing
  BY DEF Exchange!Received, Nothing
<1> QED BY <1>4, <1>5, <1>6, <1>7

\* Reading the headers of a response, or all of it when there is no more.
LEMMA ReadHeadersKeeps == ExchangeInv /\ Exchange!ReadHeaders => ExchangeInv'
<1> SUFFICES ASSUME ExchangeInv, Exchange!ReadHeaders PROVE ExchangeInv'
  OBVIOUS
<1>1. /\ ExchangeTypes /\ got = 0 /\ metadata' = Exchange!Received
      /\ UNCHANGED <<call, server, chosen, user, meant, messages, wire>>
      /\ \/ HttpError \/ JsonError \/ TrailersOnly \/ (Acceptable /\ (Single \/ Stream))
  BY DEF ExchangeInv, Exchange!ReadHeaders
<1>2. user \in Exchange!UserMetadata /\ call.kind \in Exchange!Kinds
  BY <1>1 DEF ExchangeTypes, Exchange!Requests
<1>3. ASSUME pc' \in {"frames", "done"}, got' \in Nat PROVE ExchangeTypes'
  <2>1. (Exchange!UserMetadata)' = Exchange!UserMetadata
    BY DEF Exchange!UserMetadata
  <2> QED BY <1>1, <1>2, <1>3, <2>1, ReceivedIs DEF ExchangeTypes
<1>4. ASSUME wire.http # 200
      PROVE  verdict' = Exchange!FromResponse(wire) /\ pc' = "done" /\ got' = 0
  BY <1>4 DEF Exchange!ReadHeaders
<1>5. (Exchange!Grpc)' = Exchange!Grpc
  BY <1>1 DEF Exchange!Grpc
<1>6. CASE HttpError
  <2>1. wire.http # 200 /\ wire.http = meant.http /\ wire.type # "json"
    BY <1>6, HttpIs DEF HttpError
  <2>2. verdict' = Exchange!Error(Exchange!FromHttp(wire.http), "phrase", FALSE)
    BY <1>4, <2>1 DEF Exchange!FromResponse
  <2>3. verdict'.code = Exchange!FromHttp(wire.http) /\ Exchange!Ok.code = "ok"
    BY <2>2 DEF Exchange!Error, Exchange!Ok
  <2>4. \/ meant = Exchange!Http(404) /\ verdict'.code = "unimplemented"
        \/ meant = Exchange!Http(415) /\ verdict'.code = "unknown"
    BY <1>6, <2>1, <2>3, HttpIs, FromHttpIs DEF HttpError
  <2>5. user.headers = {} /\ user.trailers = {} /\ verdict' # Exchange!Ok
    BY <1>6, <2>3, <2>4 DEF HttpError, Nothing
  <2>6. ExchangeHonest'
    BY <1>1, <2>4, <2>5 DEF ExchangeHonest, Exchange!ExchangeHonest
  <2> QED BY <1>3, <1>4, <2>1, <2>6 DEF ExchangeInv
<1>7. CASE JsonError
  <2>1. verdict' = meant /\ pc' = "done" /\ got' = 0
    BY <1>4, <1>7 DEF JsonError, Exchange!FromResponse
  <2>2. /\ meant # Exchange!Ok /\ user.headers \subseteq metadata'.headers
        /\ user.trailers \subseteq metadata'.trailers
    BY <1>1, <1>2, <1>7, ReceivedIs, ErrorIs DEF JsonError
  <2>3. ExchangeHonest'
    BY <1>1, <2>1, <2>2 DEF ExchangeHonest, Exchange!ExchangeHonest
  <2> QED BY <1>3, <2>1, <2>3 DEF ExchangeInv
<1>8. ASSUME ~Exchange!Unary, wire.http = 200, wire.type = call.kind,
             wire.headers = user.headers, (TrailersOnly \/ Stream)',
             wire.encoding # Exchange!None =>
               \E i \in DOMAIN call.accept : call.accept[i] = wire.encoding
      PROVE  ExchangeInv'
  <2>1. ~Exchange!Invalid(call.kind)
    BY <1>8 DEF Exchange!Invalid, Exchange!Contains
  <2>2. pc' = "frames" /\ got' = 0
    BY <1>8, <2>1 DEF Exchange!ReadHeaders
  <2>3. user.headers \subseteq metadata'.headers
    BY <1>1, <1>2, <1>8, ReceivedIs
  <2> QED BY <1>1, <1>3, <1>8, <2>2, <2>3 DEF ExchangeInv
<1>9. CASE TrailersOnly
  <2>1. ~Exchange!Unary /\ wire.http = 200 /\ got' = 0
    BY <1>9 DEF TrailersOnly, Exchange!Grpc, Exchange!Unary, Exchange!ReadHeaders
  <2>2. TrailersOnly'
    BY <1>1, <1>5, <1>9, <2>1 DEF TrailersOnly, Status
  <2> QED BY <1>8, <1>9, <2>1, <2>2 DEF TrailersOnly
<1>10. CASE Acceptable /\ Single
  <2>1. ~Exchange!Invalid("unary")
    BY <1>10 DEF Single, Acceptable, Exchange!Invalid, Exchange!Contains
  <2>2. verdict' = meant /\ got' = messages /\ pc' = "done" /\ messages = 1
    BY <1>10, <2>1 DEF Single, Exchange!ReadHeaders
  <2>3. /\ user.headers \subseteq metadata'.headers
        /\ user.trailers \subseteq metadata'.trailers
    BY <1>1, <1>2, <1>10, ReceivedIs DEF Single
  <2>4. ExchangeHonest'
    BY <1>1, <2>2, <2>3 DEF ExchangeHonest, Exchange!ExchangeHonest
  <2> QED BY <1>3, <2>2, <2>4 DEF ExchangeInv
<1>11. CASE Acceptable /\ Stream
  <2>1. ~Exchange!Unary /\ wire.http = 200 /\ got' = got
    BY <1>1, <1>11 DEF Stream, Headed, Exchange!ReadHeaders
  <2>2. Stream'
    BY <1>1, <1>11, <2>1 DEF Stream, Headed, Messages, Message, End, Status,
       Exchange!Unary
  <2> QED BY <1>8, <1>11, <2>1, <2>2 DEF Stream, Headed, Acceptable
<1> QED BY <1>1, <1>6, <1>7, <1>9, <1>10, <1>11

\* What the end of a stream tells, or the trailers alone: the promise to the client.
LEMMA EndIsHonest ==
  ASSUME ExchangeInv, pc = "frames", got \in Nat, meant \in Statuses,
         UNCHANGED <<call, server, chosen, user, meant, messages, got>>,
         got = messages \/ meant # Exchange!Ok,
         \/ call.kind = "connect" /\ verdict' = meant
         \/ Exchange!Grpc /\ verdict' = Exchange!GrpcVerdict(Status(meant)),
         Exchange!AddTrailers(user.trailers), DOMAIN wire' = DOMAIN wire, pc' = "done"
  PROVE  ExchangeInv'
<1>1. /\ ExchangeTypes /\ user.headers \subseteq metadata.headers
      /\ DOMAIN metadata = DOMAIN Nothing
  BY DEF ExchangeInv, ExchangeTypes
<1>2. /\ metadata'.headers = metadata.headers /\ DOMAIN metadata' = DOMAIN metadata
      /\ metadata'.trailers = metadata.trailers \cup user.trailers
  BY <1>1 DEF Exchange!AddTrailers, Nothing
<1>3. /\ verdict' = Exchange!Ok => meant = Exchange!Ok
      /\ \/ verdict' = meant
         \/ /\ Exchange!Grpc /\ Exchange!Reserved \in user.trailers
            /\ meant \in Exchange!Errors /\ (meant.message = "" \/ ~meant.details)
  BY VerdictIs, ErrorIs
<1>4. (Exchange!Grpc)' = Exchange!Grpc /\ (Exchange!UserMetadata)' = Exchange!UserMetadata
  BY DEF Exchange!Grpc, Exchange!UserMetadata
<1>5. ExchangeHonest'
  BY <1>1, <1>2, <1>3, <1>4 DEF ExchangeHonest, Exchange!ExchangeHonest
<1>6. ExchangeTypes'
  BY <1>1, <1>2, <1>4 DEF ExchangeTypes
<1> QED BY <1>5, <1>6 DEF ExchangeInv

\* Each message of a stream is read as one, and its end as what was meant.
LEMMA ReadFrameKeeps == ExchangeInv /\ Exchange!ReadFrame => ExchangeInv'
<1> SUFFICES ASSUME ExchangeInv, Exchange!ReadFrame PROVE ExchangeInv'
  OBVIOUS
<1>1. /\ ExchangeTypes /\ pc = "frames" /\ wire.frames # <<>> /\ Stream
      /\ user.headers \subseteq metadata.headers /\ got \in Nat /\ messages \in Nat
      /\ wire' = [wire EXCEPT !.frames = Tail(@)]
      /\ UNCHANGED <<call, server, chosen, user, meant, messages>>
      /\ DOMAIN wire = DOMAIN Exchange!NoResponse /\ call.kind \in Exchange!Kinds
  BY DEF ExchangeInv, ExchangeTypes, Exchange!ReadFrame, TrailersOnly, Exchange!Requests
<1>2. /\ wire'.http = wire.http /\ wire'.type = wire.type
      /\ wire'.encoding = wire.encoding /\ wire'.headers = wire.headers
      /\ wire'.status = wire.status /\ wire'.trailers = wire.trailers
      /\ DOMAIN wire' = DOMAIN wire /\ wire'.frames = Tail(wire.frames)
  BY <1>1 DEF Exchange!NoResponse
<1> DEFINE n == messages - got
<1>3. /\ wire.frames \in Seq({Message, End}) /\ wire.encoding = chosen
      /\ \A i \in 1..n : wire.frames[i] = Message
      /\ n \in Nat /\ Len(wire.frames) \in Nat /\ meant \in Statuses
      /\ Head(wire.frames) = wire.frames[1] /\ ~Exchange!Unary
      /\ call.kind = "grpc" => Len(wire.frames) = n
      /\ call.kind # "grpc" => Len(wire.frames) = n + 1 /\ wire.frames[n + 1] = End
  BY <1>1 DEF Stream, Headed, Messages
<1>4. /\ wire'.frames \in Seq({Message, End}) /\ Len(wire'.frames) = Len(wire.frames) - 1
      /\ \A i \in 1..(Len(wire.frames) - 1) : wire'.frames[i] = wire.frames[i + 1]
  BY <1>1, <1>2, <1>3, HeadTailProperties
<1>5. CASE n > 0
  <2>1. Head(wire.frames) = Message
    BY <1>3, <1>5
  <2>2. ~Exchange!IsEnd(Message) /\ Message.encoding = wire.encoding
    BY <1>3 DEF Message, Exchange!IsEnd
  <2>3. got' = got + 1 /\ UNCHANGED <<verdict, pc, metadata>>
    BY <2>1, <2>2 DEF Exchange!ReadFrame
  <2>4. Message' = Message /\ End' = End /\ Status(meant)' = Status(meant)
    BY <1>1 DEF Message, End, Status
  <2>5. messages' - got' = n - 1 /\ got' <= messages' /\ n - 1 \in Nat
    BY <1>1, <1>3, <1>5, <2>3
  <2> HIDE DEF n
  <2>6. ASSUME NEW i \in 1..(n - 1) PROVE wire'.frames[i] = Message
    <3>1. i + 1 \in 1..n /\ i \in 1..(Len(wire.frames) - 1)
      BY <1>3, <1>5
    <3>2. wire'.frames[i] = wire.frames[i + 1]
      BY <1>4, <3>1
    <3> QED BY <1>3, <3>1, <3>2
  <2>7. IF call.kind = "grpc"
        THEN Len(wire'.frames) = n - 1
        ELSE Len(wire'.frames) = (n - 1) + 1 /\ wire'.frames[(n - 1) + 1] = End
    <3>1. CASE call.kind = "grpc"
      BY <1>3, <1>4, <3>1
    <3>2. CASE call.kind # "grpc"
      <4>1. Len(wire'.frames) = n /\ n \in 1..(Len(wire.frames) - 1)
        BY <1>3, <1>4, <1>5, <3>2
      <4>2. wire'.frames[n] = End
        BY <1>3, <1>4, <3>2, <4>1
      <4>3. (n - 1) + 1 = n
        BY <1>3
      <4> QED BY <3>2, <4>1, <4>2, <4>3
    <3> QED BY <3>1, <3>2
  <2>8. Stream'
    <3>1. Headed' /\ (~Exchange!Unary)' /\ meant' \in Statuses
      BY <1>1, <1>2, <1>3 DEF Stream, Headed, Exchange!Unary
    <3>2. Messages(messages - got)'
      BY <2>4, <2>5, <2>6 DEF Messages
    <3>3. IF call'.kind = "grpc" THEN wire'.trailers = Status(meant)'
          ELSE wire'.trailers = Exchange!NoStatus
      BY <1>1, <1>2, <2>4 DEF Stream
    <3>4. Statuses' = Statuses
      BY DEF Statuses
    <3> QED BY <1>1, <1>4, <2>4, <2>5, <2>7, <3>1, <3>2, <3>3, <3>4 DEF Stream
  <2>9. ExchangeTypes'
    BY <1>1, <1>2, <2>3 DEF ExchangeTypes
  <2> QED BY <1>1, <2>3, <2>8, <2>9 DEF ExchangeInv
<1>6. CASE n = 0
  <2>1. call.kind # "grpc" /\ Head(wire.frames) = End /\ got = messages
    BY <1>1, <1>3, <1>6, EmptySeq
  <2>2. /\ Exchange!IsEnd(End) /\ End.encoding = wire.encoding
        /\ End.names = user.trailers
        /\ End.end = IF call.kind = "connect" THEN meant ELSE Status(meant)
    BY <1>3 DEF End, Exchange!IsEnd
  <2>3. /\ verdict' = IF Exchange!Grpc THEN Exchange!GrpcVerdict(End.end) ELSE End.end
        /\ Exchange!AddTrailers(user.trailers) /\ pc' = "done" /\ UNCHANGED got
    BY <2>1, <2>2 DEF Exchange!ReadFrame
  <2>4. Exchange!Grpc <=> call.kind # "connect"
    BY <1>1, <1>3, <2>1 DEF Exchange!Grpc, Exchange!Unary, Exchange!Kinds
  <2>5. \/ call.kind = "connect" /\ verdict' = meant
        \/ Exchange!Grpc /\ verdict' = Exchange!GrpcVerdict(Status(meant))
    BY <2>2, <2>3, <2>4
  <2> QED BY <1>1, <1>2, <1>3, <2>1, <2>3, <2>5, EndIsHonest
<1> QED BY <1>3, <1>5, <1>6

\* The end of a response without an end message: gRPC's trailers, or its headers.
LEMMA ReadEndKeeps == ExchangeInv /\ Exchange!ReadEnd => ExchangeInv'
<1> SUFFICES ASSUME ExchangeInv, Exchange!ReadEnd PROVE ExchangeInv'
  OBVIOUS
<1>1. /\ ExchangeTypes /\ pc = "frames" /\ wire.frames = <<>> /\ pc' = "done"
      /\ TrailersOnly \/ Stream
      /\ got \in Nat /\ messages \in Nat
      /\ UNCHANGED <<call, server, chosen, user, meant, messages, wire, got>>
  BY DEF ExchangeInv, ExchangeTypes, Exchange!ReadEnd
<1> DEFINE t == IF wire.trailers.status = Exchange!Missing /\ Exchange!InHeaders
                THEN wire.status ELSE wire.trailers
<1>2. /\ verdict' = IF Exchange!Grpc THEN Exchange!GrpcVerdict(t) ELSE Exchange!Internal
      /\ Exchange!AddTrailers(t.names)
  BY DEF Exchange!ReadEnd
<1>3. CASE TrailersOnly
  <2>1. meant \in Statuses /\ Exchange!Grpc /\ meant # Exchange!Ok
    BY <1>3, ErrorIs DEF TrailersOnly, Statuses
  <2>2. t = Status(meant)
    <3>1. wire.trailers.status = Exchange!Missing
      <4>1. wire.trailers = Exchange!NoStatus
        BY <1>3 DEF TrailersOnly
      <4>2. Exchange!NoStatus.status = Exchange!Missing
        BY DEF Exchange!NoStatus
      <4> QED BY <4>1, <4>2
    <3> QED BY <1>3, <3>1 DEF TrailersOnly, Exchange!InHeaders
  <2> HIDE DEF t
  <2> QED BY <1>1, <1>2, <2>1, <2>2, VerdictIs, EndIsHonest
<1>4. CASE Stream
  <2>1. /\ call.kind = "grpc" /\ meant \in Statuses /\ got = messages
        /\ wire.trailers = Status(meant)
    <3>1. Len(wire.frames) = 0 /\ got <= messages
      BY <1>1, <1>4 DEF Stream
    <3> QED BY <1>1, <1>4, <3>1 DEF Stream
  <2>2. t = Status(meant) /\ Exchange!Grpc
    BY <2>1, VerdictIs DEF Exchange!Grpc
  <2> HIDE DEF t
  <2> QED BY <1>1, <1>2, <2>1, <2>2, VerdictIs, EndIsHonest
<1> QED BY <1>1, <1>3, <1>4

\* Every step of an exchange keeps the invariant.
LEMMA ExchangeStep == ExchangeInv /\ [Exchange!Next]_exchangeVars => ExchangeInv'
<1> SUFFICES ASSUME ExchangeInv, [Exchange!Next]_exchangeVars PROVE ExchangeInv'
  OBVIOUS
<1>1. CASE Exchange!Next
  BY <1>1, RouteKeeps, NegotiateKeeps, SetMetadataKeeps, SendMessageKeeps,
     HandlerEndsKeeps, ReadHeadersKeeps, ReadFrameKeeps, ReadEndKeeps DEF Exchange!Next
<1>2. CASE UNCHANGED exchangeVars
  <2>1. /\ UNCHANGED <<call, server, pc, chosen, user, meant, messages, wire, metadata,
              got>>
        /\ UNCHANGED verdict
    BY <1>2 DEF exchangeVars
  <2>2. ExchangeTypes' /\ Acceptable' = Acceptable /\ Begun(messages)' = Begun(messages)
    BY <2>1 DEF ExchangeInv, ExchangeTypes, Acceptable, Begun, Headed, Messages, Message,
       Exchange!UserMetadata
  <2>3. HttpError' = HttpError /\ JsonError' = JsonError /\ TrailersOnly' = TrailersOnly
    BY <2>1 DEF HttpError, JsonError, TrailersOnly, Status, Exchange!Grpc,
       Exchange!ContextHeaders
  <2>4. Single' = Single /\ Stream' = Stream /\ (Exchange!Unary)' = Exchange!Unary
    BY <2>1 DEF Single, Stream, Headed, Messages, Message, End, Status, Exchange!Unary,
       Exchange!ContextHeaders
  <2>5. ExchangeHonest' = ExchangeHonest
    BY <2>1 DEF ExchangeHonest, Exchange!ExchangeHonest, Exchange!Grpc
  <2> QED BY <2>1, <2>2, <2>3, <2>4, <2>5 DEF ExchangeInv
<1> QED BY <1>1, <1>2

\* A step of the parts is a step of this one, or leaves it alone.
LEMMA ExchangeSteps ==
  /\ PartsInit => Exchange!Init
  /\ [PartsNext]_allVars => [Exchange!Next]_exchangeVars
<1>1. PartsInit => Exchange!Init
  BY DEF PartsInit
<1>2. [PartsNext]_allVars => [Exchange!Next]_exchangeVars
  BY DEF PartsNext, Runs, Unless, allVars
<1> QED BY <1>1, <1>2

\* The client understands what the server meant over every protocol, however early the
\* call failed: the code, the message and the details, all messages of a success and all
\* metadata, for any compressions on either side, any metadata and any number of messages.
THEOREM ExchangesAreHonest == PartsSpec => []ExchangeHonest
<1>1. PartsInit => ExchangeInv
  BY ExchangeSteps, ExchangeInitInv
<1>2. ExchangeInv /\ [PartsNext]_allVars => ExchangeInv'
  BY ExchangeSteps, ExchangeStep
<1>3. ExchangeInv => ExchangeHonest
  BY DEF ExchangeInv, ExchangeTypes, ExchangeHonest, Exchange!ExchangeHonest
<1> QED BY <1>1, <1>2, <1>3, PTL DEF PartsSpec
=============================================================================
