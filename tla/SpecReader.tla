----------------------------- MODULE SpecReader -----------------------------
(***************************************************************************)
(* cli/internal/specs/v0: what the documents of the files and directories  *)
(* on the command line make of the sources, destinations and transformers. *)
(* A document is a record of the fields that decide; its variables are the *)
(* set uses, each of a kind, in a comment or not, found or not, and with   *)
(* the variables inside the file it stands for. A version is a sequence of *)
(* its parts, as <<"v", "1">>.                                             *)
(***************************************************************************)
EXTENDS Integers, Sequences, SequencesExt, FiniteSetsExt

Kinds == {"source", "destination", "transformer"}

Uses(what, comment, ok, gives) == [what |-> what, comment |-> comment, ok |-> ok, gives |-> gives]

-----------------------------------------------------------------------------
(* Variables. *)

\* The document goes through JSON and back, which no comment survives.
StripYamlComments(uses) == {u \in uses : ~u.comment}

\* A file is put in as it is: what it holds is expanded by the later passes,
\* but another file is not.
ExpandFileConfig(uses) ==
  {u \in uses : u.what # "file"} \cup UNION {u.gives : u \in {w \in uses : w.what = "file"}}

ExpandTime(uses) == {u \in uses : u.what # "time"}

\* Whatever still looks like a variable is one of the environment.
Expands(doc) ==
  LET stripped == StripYamlComments(doc.uses)
      files    == ExpandFileConfig(stripped)
  IN  /\ \A u \in stripped : u.what = "file" => u.ok
      /\ \A u \in files : u.what = "time" => u.ok
      /\ \A u \in ExpandTime(files) : u.what = "env" /\ u.ok

-----------------------------------------------------------------------------
(* Documents. *)

NeedVersion(registry) == registry \in {"github", "cloudquery"}

\* A registry that was left out is the hub.
DocDefaults(doc) == [doc EXCEPT !.registry = IF @ = "" THEN "cloudquery" ELSE @]

ValidMetadata(doc) ==
  /\ doc.name # "" /\ doc.path # ""
  /\ NeedVersion(doc.registry) => doc.version # << >> /\ doc.version[1] = "v"

ValidDoc(doc, relaxed) ==
  /\ ValidMetadata(doc)
  /\ doc.kind = "source" => doc.tables /\ (relaxed \/ doc.destinations # << >>)

NewReader == [error |-> FALSE, source |-> << >>, destination |-> << >>, transformer |-> << >>]

DocNames(docs) == {d.name : d \in ToSet(docs)}

\* One document of a file. The first error ends the reading.
LoadSpec(reader, doc, relaxed) ==
  LET d == DocDefaults(doc)
      fails == \/ reader.error \/ ~Expands(doc) \/ doc.kind \notin Kinds
               \/ d.name \in DocNames(reader[d.kind]) \/ ~ValidDoc(d, relaxed)
  IN  IF fails THEN [reader EXCEPT !.error = TRUE] ELSE [reader EXCEPT ![d.kind] = Append(@, d)]

\* A directory gives its YAML files that are not hidden, by name; a file is
\* read whatever it is called.
LoadSpecs(path) ==
  FlattenSeq([i \in DOMAIN path.files |->
    IF path.dir /\ (path.files[i].hidden \/ ~path.files[i].yaml) THEN << >> ELSE path.files[i].docs])

AllSpecs(paths) == FlattenSeq([i \in DOMAIN paths |-> LoadSpecs(paths[i])])

Initialize(paths, relaxed) ==
  FoldLeft(LAMBDA r, doc : LoadSpec(r, doc, relaxed), NewReader, AllSpecs(paths))

-----------------------------------------------------------------------------
(* The whole. *)

\* A destination and the path of a source, joined.
Uplinks(reader) ==
  UNION {{<<d \o "-" \o s.path, s.path, s.version>> : d \in ToSet(s.destinations)} : s \in ToSet(reader.source)}

\* Two versions of a source at one destination. (With a "-" in the names, two
\* others as well.)
VersionsConflict(reader) == \E u, w \in Uplinks(reader) : u[1] = w[1] /\ u # w

GroupWithStale(reader) ==
  \E d \in ToSet(reader.destination) : d.group /\ d.write = "overwrite-delete-stale"

ValidateSpecs(reader) ==
  /\ reader.source # << >> /\ reader.destination # << >>
  /\ \A s \in ToSet(reader.source) : ToSet(s.destinations) \subseteq DocNames(reader.destination)
  /\ ~VersionsConflict(reader) /\ ~GroupWithStale(reader)
  /\ \A d \in ToSet(reader.destination) : ToSet(d.transformers) \subseteq DocNames(reader.transformer)

RelaxedValidate(reader) ==
  (reader.source # << >> \/ reader.destination # << >>) /\ ~GroupWithStale(reader)

SpecsOf(paths, relaxed) ==
  LET reader == Initialize(paths, relaxed)
      valid  == IF relaxed THEN RelaxedValidate(reader) ELSE ValidateSpecs(reader)
  IN  [reader EXCEPT !.error = @ \/ ~valid]
=============================================================================
