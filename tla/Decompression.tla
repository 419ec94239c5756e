---------------------------- MODULE Decompression ----------------------------
(***************************************************************************)
(* Decompression of one message under read_max_bytes: the loops around the  *)
(* incremental decompressors of zlib, brotli and zstandard.  They ask for   *)
(* one byte more than the limit, so that a message over the limit is        *)
(* noticed before it is held in full.  What the libraries do with input     *)
(* that is cut short, corrupt, or followed by something is external.        *)
(***************************************************************************)
EXTENDS Naturals, Sequences, Functions

CONSTANTS MaxSize,      \* bound on the decompressed size of a member
          MaxMembers,   \* bound on the members of a message
          Limits,       \* values of read_max_bytes
          NoLimit       \* read_max_bytes is None

VARIABLES
    algorithm,  \* "identity", "gzip", "br" or "zstd"
    input,      \* the bytes each member holds, and how the input ends
    limit,      \* read_max_bytes
    member,     \* the member that is read
    left,       \* bytes of it that are still to come
    total,      \* bytes that are held
    result      \* "pending", "ok", "resource_exhausted" or "invalid_argument"

vars == <<algorithm, input, limit, member, left, total, result>>

Algorithms == {"identity", "gzip", "br", "zstd"}
\* The last member is whole, cut short, or corrupt after the bytes it holds; it is
\* followed by garbage, or by zero bytes, which mean something to gzip alone; or
\* there is no input at all.
Ends(a) == CASE a = "identity" -> {"whole"}
             [] a = "gzip" -> {"whole", "cut", "corrupt", "garbage", "padding", "empty"}
             [] OTHER -> {"whole", "cut", "corrupt", "garbage", "empty"}
\* Members of gzip and frames of zstandard; brotli's stream is one.
Sizes(a) == UNION {[1..n -> 0..MaxSize] : n \in 1..(IF a \in {"gzip", "zstd"} THEN MaxMembers ELSE 1)}
Init ==
    /\ algorithm \in Algorithms
    /\ input \in [sizes : Sizes(algorithm), ends : Ends(algorithm)]
    /\ input.ends = "empty" => input.sizes = <<0>>
    /\ limit \in Limits \cup {NoLimit}
    /\ member = 1 /\ left = input.sizes[1] /\ total = 0 /\ result = "pending"

LastMember == Len(input.sizes)
Pending == result = "pending"
Stops(outcome) == result' = outcome /\ UNCHANGED <<member, left, total>>
-----------------------------------------------------------------------------
\* gzip.decompress reads all members, and zero bytes after the last; the reader of
\* zstandard takes the first frame, as far as it goes.
Decodes ==
    \/ input.ends = "whole"
    \/ algorithm = "gzip" /\ input.ends \in {"padding", "empty"}
    \/ algorithm = "zstd" /\ (LastMember > 1 \/ input.ends # "corrupt")
Read == SumFunctionOnSet(input.sizes, 1..(IF algorithm = "zstd" THEN 1 ELSE LastMember))
\* Without a limit the library decompresses all at once; identity compares the
\* length it has.
Unlimited ==
    /\ Pending /\ algorithm # "identity" /\ limit = NoLimit
    /\ \/ Decodes /\ result' = "ok" /\ total' = Read
       \/ ~Decodes /\ result' = "invalid_argument" /\ UNCHANGED total
    /\ UNCHANGED <<algorithm, input, limit, member, left>>
Identity ==
    /\ Pending /\ algorithm = "identity"
    /\ total' = input.sizes[1]
    /\ result' = IF limit # NoLimit /\ total' > limit THEN "resource_exhausted" ELSE "ok"
    /\ UNCHANGED <<algorithm, input, limit, member, left>>
-----------------------------------------------------------------------------
\* What a decompressor is asked for, and what one call gives: something, if it
\* has anything; zlib takes 0 for no limit at all.
Ask_ToLimit == limit - total
Ask == limit + 1 - total
Given ==
    {out \in 0..left : IF algorithm = "gzip" /\ Ask = 0 THEN out = left
                       ELSE out <= Ask /\ (left > 0 /\ Ask > 0 => out > 0)}

\* The call that gets to the end of what is to come raises.  What follows a gzip
\* member is taken for the next one, so it raises in a call of its own.
Faulty ==
    \/ member > LastMember
    \/ member = LastMember /\ input.ends = "corrupt"
    \/ algorithm = "br" /\ input.ends = "garbage"
Refuses == Faulty /\ left <= Ask /\ Stops("invalid_argument")

\* gzip's loop does not start without input.
NoInput == algorithm = "gzip" /\ input.ends = "empty"

\* Too much is held, which is looked at before anything else.
TooLarge(out) ==
    /\ total + out > limit
    /\ result' = "resource_exhausted"
    /\ left' = left - out /\ UNCHANGED member

\* The member ends: zstandard's reader then gives nothing, the others tell.
AtEnd(out) == IF algorithm = "zstd" THEN out = 0 ELSE out = left
Continues(out) ==
    /\ total + out <= limit /\ ~AtEnd(out)
    /\ left' = left - out /\ UNCHANGED <<member, result>>

MoreInput == member < LastMember \/ input.ends \in {"garbage", "padding"}
NextMember(out) ==
    /\ total + out <= limit /\ AtEnd(out)
    /\ algorithm = "gzip" /\ MoreInput
    /\ member' = member + 1
    /\ left' = IF member < LastMember THEN input.sizes[member'] ELSE 0
    /\ UNCHANGED result

\* Nothing more comes: the input is whole, or was cut short, which zstandard's
\* reader does not tell.
Ended(out) ==
    /\ total + out <= limit /\ AtEnd(out)
    /\ ~(algorithm = "gzip" /\ MoreInput)
    /\ result' = IF algorithm = "zstd" \/ input.ends = "whole" THEN "ok" ELSE "invalid_argument"
    /\ left' = left - out /\ UNCHANGED member

\* One turn of a loop.
Turn ==
    \/ NoInput /\ Stops("ok")
    \/ ~NoInput /\ Refuses
    \/ /\ ~NoInput
       /\ \E out \in Given :
            /\ Faulty => out < left \/ out = Ask
            /\ total' = total + out
            /\ TooLarge(out) \/ Continues(out) \/ NextMember(out) \/ Ended(out)
Limited ==
    /\ Pending /\ algorithm # "identity" /\ limit # NoLimit
    /\ Turn
    /\ UNCHANGED <<algorithm, input, limit>>

Next == Unlimited \/ Identity \/ Limited
Spec == Init /\ [][Next]_vars
-----------------------------------------------------------------------------
Size == SumFunctionOnSet(input.sizes, 1..LastMember)

\* What a decompressor makes of its input, apart from the limit: gzip and brotli
\* give all of a well-formed message, zstandard its first frame.
Succeeds ==
    \/ algorithm # "zstd" /\ total = Size /\ input.ends = "whole"
    \/ algorithm = "gzip" /\ total = Size /\ input.ends \in {"padding", "empty"}
    \/ algorithm = "zstd" /\ total = input.sizes[1]
                          /\ (input.ends = "corrupt" => LastMember > 1)

\* A limited decompression never holds more than a byte over its limit, and what
\* it says is true of the message: success gives what it holds, within the limit;
\* it is too large only if all of it is, and malformed only if it was cut short,
\* corrupt or followed by something.
DecompressionCorrect ==
    LET limited == limit # NoLimit
    IN  /\ limited /\ algorithm # "identity" => total <= limit + 1
        /\ result = "ok" => Succeeds /\ (limited => total <= limit)
        /\ result = "resource_exhausted" => limited /\ Size > limit
        /\ result = "invalid_argument" =>
             /\ algorithm # "identity" /\ input.ends # "whole"
             /\ algorithm = "gzip" => input.ends # "empty"
             /\ algorithm = "gzip" /\ input.ends = "padding" => limited
             /\ algorithm = "zstd" => input.ends = "corrupt" /\ LastMember = 1
=============================================================================
