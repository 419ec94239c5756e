-------------------------- MODULE ResponseMetadata --------------------------
(***************************************************************************)
(* ResponseMetadata: contexts that collect the headers and trailers of the *)
(* calls made within them, through the context variable _current_response. *)
(* A unary call has its response within the call; that of a stream arrives *)
(* when somebody iterates over it.                                         *)
(***************************************************************************)
EXTENDS Naturals, Sequences, SequencesExt

CONSTANTS Contexts,  \* ResponseMetadata objects
          NoContext, \* the variable is unset
          Calls      \* calls that are made

VARIABLES
    current,   \* _current_response
    token,     \* what each context's token restores
    headers,   \* the call whose headers a context shows, if any
    trailers,  \* the calls whose trailers it shows
    stack,     \* the contexts that are entered, innermost last
    madeIn,    \* the context each call was made in
    stage      \* of each call: "new"; "unary" when it was one; a stream is "made",
               \* then it has "headers", then it is "done"

vars == <<current, token, headers, trailers, stack, madeIn, stage>>
callVars == <<madeIn, stage>>

Init ==
    /\ current = NoContext /\ stack = <<>>
    /\ token = [c \in Contexts |-> NoContext]
    /\ headers = [c \in Contexts |-> {}] /\ trailers = [c \in Contexts |-> {}]
    /\ madeIn = [x \in Calls |-> NoContext] /\ stage = [x \in Calls |-> "new"]

Enter(c) ==
    /\ ~Contains(stack, c)
    /\ token' = [token EXCEPT ![c] = current]
    /\ current' = c
    /\ stack' = Append(stack, c)
    /\ UNCHANGED <<headers, trailers, callVars>>

Exit_Unset(c) == current' = NoContext
Reset(c) == current' = token[c]
Exit ==
    /\ stack # <<>>
    /\ Reset(Last(stack))
    /\ token' = [token EXCEPT ![Last(stack)] = NoContext]
    /\ stack' = Front(stack)
    /\ UNCHANGED <<headers, trailers, callVars>>

\* handle_response_headers, which finds trailers among the headers of a unary
\* call, and handle_response_trailers, which adds to those that are there.
Headers(x, prefixed) ==
    IF current = NoContext THEN UNCHANGED <<headers, trailers>>
    ELSE /\ headers' = [headers EXCEPT ![current] = {x}]
         /\ trailers' = IF prefixed THEN [trailers EXCEPT ![current] = {x}] ELSE trailers
Trailers(x) ==
    IF current = NoContext THEN UNCHANGED trailers
    ELSE trailers' = [trailers EXCEPT ![current] = @ \cup {x}]

Call(x, to) ==
    /\ stage[x] = "new"
    /\ stage' = [stage EXCEPT ![x] = to] /\ madeIn' = [madeIn EXCEPT ![x] = current]
    /\ UNCHANGED <<current, token, stack>>
CallUnary(x) == Call(x, "unary") /\ \E prefixed \in BOOLEAN : Headers(x, prefixed)
CallStream(x) == Call(x, "made") /\ UNCHANGED <<headers, trailers>>

\* Somebody iterates over the stream, in whatever context.
Iterate(x) ==
    /\ \/ stage[x] = "made" /\ stage' = [stage EXCEPT ![x] = "headers"] /\ Headers(x, FALSE)
       \/ /\ stage[x] = "headers" /\ stage' = [stage EXCEPT ![x] = "done"]
          /\ Trailers(x) /\ UNCHANGED headers
    /\ UNCHANGED <<current, token, stack, madeIn>>

Next ==
    \/ Exit \/ \E c \in Contexts : Enter(c)
    \/ \E x \in Calls : CallUnary(x) \/ CallStream(x) \/ Iterate(x)

Spec == Init /\ [][Next]_vars
-----------------------------------------------------------------------------
\* Nested contexts: leaving one makes the one around it current again.
Nested == current = IF stack = <<>> THEN NoContext ELSE Last(stack)

\* A context shows the metadata of a unary call only if the call was made in it,
\* whatever streams were iterated over meanwhile.  (A stream's may show in
\* another context than the one it was made in.)
OwnCalls ==
    \A c \in Contexts, x \in Calls :
        x \in headers[c] \cup trailers[c] /\ stage[x] = "unary" => madeIn[x] = c

\* Contexts nest, and no unary call made after one was left, or in another one,
\* shows in it.
MetadataCorrect == Nested /\ OwnCalls
=============================================================================
