--------------------------- MODULE Instrumentation ---------------------------
(* ConnectInstrumentor: instrumenting patches the constructors of clients   *)
(* and applications, at once for a module that is imported and through a    *)
(* post-import hook for one that is not; uninstrumenting takes one patch    *)
(* off the modules that are imported.  A patched constructor puts an        *)
(* OpenTelemetryInterceptor first, unless the caller passed one.            *)
EXTENDS Naturals, Sequences, SequencesExt

CONSTANTS MaxToggles    \* calls of instrument and uninstrument

Modules == {"client", "server"}
Interceptors == {"otel", "user"}
Passed == {<<>>, <<"user">>, <<"otel">>, <<"user", "otel">>}

VARIABLES active,     \* BaseInstrumentor's flag: instrumented
          toggles,    \* instrument and uninstrument calls so far
          imported,   \* the modules that have been imported
          hooks,      \* per module: import hooks waiting for it
          patches,    \* per module: wrappers around its constructor
          created     \* the last object created: its module and interceptors

vars == <<active, toggles, imported, hooks, patches, created>>

Nothing == [by |-> "none", passed |-> <<>>, gets |-> <<>>]

Init ==
  /\ active = FALSE /\ toggles = 0
  /\ imported \in SUBSET Modules
  /\ hooks = [m \in Modules |-> 0]
  /\ patches = [m \in Modules |-> 0]
  /\ created = Nothing

(* register_post_import_hook runs the hook at once for an imported module. *)
Instrument ==
  /\ toggles < MaxToggles /\ ~active
  /\ active' = TRUE /\ toggles' = toggles + 1
  /\ patches' = [m \in Modules |-> IF m \in imported THEN patches[m] + 1 ELSE patches[m]]
  /\ hooks' = [m \in Modules |-> IF m \in imported THEN hooks[m] ELSE hooks[m] + 1]
  /\ UNCHANGED <<imported, created>>

(* unwrap takes one wrapper off; a waiting hook cannot be taken back. *)
Uninstrument ==
  /\ toggles < MaxToggles /\ active
  /\ active' = FALSE /\ toggles' = toggles + 1
  /\ patches' = [m \in Modules |->
                   IF m \in imported /\ patches[m] > 0 THEN patches[m] - 1 ELSE patches[m]]
  /\ UNCHANGED <<imported, hooks, created>>

Import(m) ==
  /\ m \notin imported
  /\ imported' = imported \cup {m}
  /\ patches' = [patches EXCEPT ![m] = @ + hooks[m]]
  /\ hooks' = [hooks EXCEPT ![m] = 0]
  /\ UNCHANGED <<active, toggles, created>>

(* _init_wrapper, around whatever wrappers there are inside it. *)
Wrapped_Blind(list) == <<"otel">> \o list
Wrapped(list) == IF "otel" \in ToSet(list) THEN list ELSE <<"otel">> \o list

Through(n, list) ==
  LET after[k \in 0..n] == IF k = 0 THEN list ELSE Wrapped(after[k - 1]) IN after[n]

Create(m) ==
  /\ m \in imported
  /\ \E list \in Passed :
       created' = [by |-> m, passed |-> list, gets |-> Through(patches[m], list)]
  /\ UNCHANGED <<active, toggles, imported, hooks, patches>>

Next ==
  \/ Instrument \/ Uninstrument
  \/ \E m \in Modules : Import(m) \/ Create(m)

Spec == Init /\ [][Next]_vars

---------------------------------------------------------------------------
Tracers == {i \in DOMAIN created.gets : created.gets[i] = "otel"}

(* However often it was instrumented, and whenever the module was imported, *)
(* an object traces each call at most once; the interceptor added to it is  *)
(* the first, and one the caller passed stays where it was.  While          *)
(* instrumented, what is created in an imported module is traced.           *)
TracedOnce ==
  /\ \A i, j \in Tracers : i = j
  /\ "otel" \in ToSet(created.passed) => created.gets = created.passed
  /\ created.gets # created.passed => created.gets = <<"otel">> \o created.passed
  /\ \A m \in imported : active => patches[m] > 0

(* After uninstrumenting, nothing created is traced unless the caller asked *)
(* for it.  It fails: a module imported later runs the hook that instrument *)
(* left behind.                                                             *)
NoTracesAfterUninstrumenting ==
  ~active => \A m \in imported : patches[m] = 0
=============================================================================
