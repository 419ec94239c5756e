----------------------------- MODULE Reflection -----------------------------
(* The reflection service: a registry of the served files and everything    *)
(* they import is built once; each stream then asks for files by name or by *)
(* symbol and gets the file with the imports it was not sent before on that *)
(* stream.  The walk over the imports (_file_descriptor_with_dependencies)  *)
(* is a generator with a queue and a set of seen names, used by both.       *)
EXTENDS Naturals, Sequences, SequencesExt

CONSTANTS Files,        \* file descriptors
          Imports,      \* the import graphs considered: [Files -> Seq(Files)]
          Descs,        \* the descriptors a service may be created with
          Streams,      \* concurrent server_reflection_info calls
          NoFile,       \* no descriptor was found
          MaxRequests   \* requests per stream

ASSUME ReflectionAssumption ==
  /\ NoFile \notin Files
  /\ Imports \subseteq [Files -> Seq(Files)]
  /\ Descs \subseteq Seq(Files)
  /\ "registry" \notin Streams
  /\ MaxRequests \in Nat

Walkers == Streams \cup {"registry"}

VARIABLES imports,    \* the import graph of this run
          descs,      \* descriptors not walked yet, when the service is created
          known,      \* files in the registry
          seen,       \* per walker: names the walk has been through
          queue,      \* per walker: imports still to look at
          walking,    \* the walkers with a walk under way
          root,       \* per walker: the file the last walk started at
          out,        \* per walker: files the walk has yielded so far
          held,       \* per stream: files its client was sent
          before,     \* history: seen when the walk started
          asked       \* requests made on each stream

walk == <<seen, queue, walking, root, out, before>>
reflectionVars == <<imports, descs, known, walk, held, asked>>

ReflectionInit ==
  /\ imports \in Imports
  /\ descs \in Descs
  /\ known = {}
  /\ seen = [w \in Walkers |-> {}]
  /\ queue = [w \in Walkers |-> <<>>]
  /\ walking = {}
  /\ root = [w \in Walkers |-> NoFile]
  /\ out = [w \in Walkers |-> {}]
  /\ before = [w \in Walkers |-> {}]
  /\ held = [s \in Streams |-> {}]
  /\ asked = [s \in Streams |-> 0]

---------------------------------------------------------------------------
(* The walk.  The root is yielded whether or not it was seen.              *)

Start(w, f) ==
  /\ seen' = [seen EXCEPT ![w] = @ \cup {f}]
  /\ out' = [out EXCEPT ![w] = {f}]
  /\ root' = [root EXCEPT ![w] = f]
  /\ queue' = [queue EXCEPT ![w] = imports[f]]
  /\ walking' = walking \cup {w}
  /\ before' = [before EXCEPT ![w] = seen[w]]

Skips(w, f) == f \in seen[w]

(* What the queue is after its first file was yielded. *)
Enqueue_Direct(w, f) == Tail(queue[w])
Enqueue(w, f) == Tail(queue[w]) \o imports[f]

Visit(w) ==
  /\ w \in walking /\ queue[w] # <<>>
  /\ LET f == Head(queue[w]) IN
     IF Skips(w, f)
     THEN /\ queue' = [queue EXCEPT ![w] = Tail(@)]
          /\ UNCHANGED <<seen, out>>
     ELSE /\ seen' = [seen EXCEPT ![w] = @ \cup {f}]
          /\ out' = [out EXCEPT ![w] = @ \cup {f}]
          /\ queue' = [queue EXCEPT ![w] = Enqueue(w, f)]
  /\ UNCHANGED <<imports, descs, known, walking, root, before, held, asked>>

Exhausted(w) == w \in walking /\ queue[w] = <<>>

---------------------------------------------------------------------------
(* _resolve_registry: one walk per descriptor, sharing the seen names.     *)

Built == descs = <<>> /\ "registry" \notin walking

AddDesc ==
  /\ descs # <<>> /\ "registry" \notin walking
  /\ Start("registry", Head(descs))
  /\ descs' = Tail(descs)
  /\ UNCHANGED <<imports, known, held, asked>>

DescAdded ==
  /\ Exhausted("registry")
  /\ known' = known \cup out["registry"]
  /\ walking' = walking \ {"registry"}
  /\ UNCHANGED <<imports, descs, seen, queue, root, out, before, held, asked>>

---------------------------------------------------------------------------
(* A symbol: what it names in the file that declares it.  A member's name  *)
(* is its parent's and its own; an enum value's parent is the scope the     *)
(* enum is in, a message when the enum is nested.                           *)
Toplevel == {"message", "enum", "service", "extension"}
ParentOf ==
  [method |-> "service", unknownMethod |-> "service", field |-> "message",
   oneof |-> "message", nestedValue |-> "message", unknownField |-> "message",
   value |-> "package", unknown |-> "package"]
Symbols == Toplevel \cup DOMAIN ParentOf

(* _find_file_for_symbol, for a symbol that file f would declare. *)
FindFile(symbol, f) ==
  IF f \notin known THEN NoFile
  ELSE IF symbol \in Toplevel THEN f
  ELSE IF ParentOf[symbol] = "service" THEN IF symbol = "method" THEN f ELSE NoFile
  ELSE IF symbol \in {"field", "oneof", "nestedValue", "value"} THEN f ELSE NoFile

(* registry.file(name), registry.extension_for(type, number). *)
FileNamed(f) == IF f \in known THEN f ELSE NoFile

(* file_by_filename, file_containing_symbol and file_containing_extension:  *)
(* a walk from the file found, or a not-found answer that changes nothing.  *)
AskFor(s, f) ==
  IF f = NoFile THEN UNCHANGED walk ELSE Start(s, f)

Ask(s) ==
  /\ Built /\ s \notin walking /\ asked[s] < MaxRequests
  /\ \E f \in Files :
       \/ AskFor(s, FileNamed(f))
       \/ \E symbol \in Symbols : AskFor(s, FindFile(symbol, f))
  /\ asked' = [asked EXCEPT ![s] = @ + 1]
  /\ UNCHANGED <<imports, descs, known, held>>

(* The response holds everything the walk yielded. *)
Answer(s) ==
  /\ Exhausted(s)
  /\ held' = [held EXCEPT ![s] = @ \cup out[s]]
  /\ walking' = walking \ {s}
  /\ UNCHANGED <<imports, descs, known, seen, queue, root, out, before, asked>>

ReflectionNext ==
  \/ AddDesc \/ DescAdded
  \/ \E w \in Walkers : Visit(w)
  \/ \E s \in Streams : Ask(s) \/ Answer(s)

ReflectionSpec == ReflectionInit /\ [][ReflectionNext]_reflectionVars

---------------------------------------------------------------------------
ClosedUnderImports(S) == \A f \in S : ToSet(imports[f]) \subseteq S

(* Everything a file needs, itself included: the least closed set with it. *)
Needs(f) ==
  {g \in Files : \A S \in SUBSET Files : f \in S /\ ClosedUnderImports(S) => g \in S}

(* Whatever was asked on a stream before, a client that has the answer can  *)
(* build the file it asked for: the files it holds are closed under         *)
(* imports.  So is the registry, so every import can be asked for too.      *)
ClientsCanBuild ==
  /\ \A s \in Streams : s \notin walking => ClosedUnderImports(held[s])
  /\ Built => ClosedUnderImports(known)

(* An answer is exactly the file and those of its needs that the stream was *)
(* not sent before: nothing twice, nothing of another stream's or unneeded. *)
AnswersAreExact ==
  /\ \A w \in Walkers : Exhausted(w) =>
       out[w] = {root[w]} \cup (Needs(root[w]) \ before[w])
  /\ \A s \in Streams : s \notin walking => held[s] = seen[s]

ReflectionCorrect == ClientsCanBuild /\ AnswersAreExact
=============================================================================
