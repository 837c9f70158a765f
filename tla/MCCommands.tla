----------------------------- MODULE MCCommands  -----------------------------
(***************************************************************************)
(* Specs and plugins for Commands.                                         *)
(***************************************************************************)
EXTENDS Commands

Doc(kind, name, version, origin, destinations, transformers, write) ==
  [kind |-> kind, name |-> name, path |-> "p", version |-> version, registry |-> origin, tables |-> TRUE,
   destinations |-> destinations, transformers |-> transformers, write |-> write, pk |-> "default",
   group |-> FALSE, uses |-> {}]

V1 == <<"v", "1">>
SourceDoc(name, version, origin, destinations) ==
  Doc("source", name, version, origin, destinations, << >>, "append")
DestinationDoc(name, origin, transformers, write) ==
  Doc("destination", name, V1, origin, << >>, transformers, write)
TransformerDoc(name) == Doc("transformer", name, V1, "", << >>, << >>, "append")

File(docs) == [yaml |-> TRUE, hidden |-> FALSE, docs |-> docs]
Directory(files) == [dir |-> TRUE, files |-> files]
OneFile(docs) == <<Directory(<<File(docs)>>)>>

\* Two sources and two destinations with transformers, in two paths; the
\* transformers in another order than the destination has them; a registry
\* and a transformer there is none of; a registry of Docker images; two
\* sources with the same path in different versions; variables, in a value of
\* a file too.
SomeInputs ==
  {<<Directory(<<[File(<<TransformerDoc("t")>>) EXCEPT !.hidden = TRUE],
                 File(<<SourceDoc("s", V1, "", <<"d", "e">>), SourceDoc("r", V1, "grpc", <<"d">>)>>)>>),
     [dir |-> FALSE, files |-> <<[yaml |-> FALSE, hidden |-> FALSE, docs |->
        <<DestinationDoc("d", "", << >>, "overwrite-delete-stale"), DestinationDoc("e", "", <<"t", "u">>, "append"),
          TransformerDoc("t"), TransformerDoc("u")>>]>>]>>,
   OneFile(<<SourceDoc("s", V1, "", <<"e">>), DestinationDoc("e", "", <<"u", "t">>, "append"),
             TransformerDoc("t"), TransformerDoc("u")>>),
   OneFile(<<SourceDoc("s", V1, "", <<"d">>), DestinationDoc("d", "docker", <<"x">>, "overwrite"), TransformerDoc("t")>>),
   OneFile(<<SourceDoc("s", V1, "", <<"d", "e">>), DestinationDoc("d", "docker", << >>, "overwrite"),
             DestinationDoc("e", "", << >>, "overwrite")>>),
   OneFile(<<SourceDoc("s", V1, "", <<"d">>), SourceDoc("r", <<"v", "2">>, "", <<"d">>),
             DestinationDoc("d", "", << >>, "overwrite")>>),
   OneFile(<<[SourceDoc("s", V1, "", <<"d">>) EXCEPT !.uses =
                {Uses("env", TRUE, FALSE, {}), Uses("file", FALSE, TRUE, {Uses("time", FALSE, TRUE, {})})}],
             DestinationDoc("d", "", << >>, "overwrite")>>)}

SomeDocs ==
  UNION {UNION {UNION {ToSet(f.docs) : f \in ToSet(p.files)} : p \in ToSet(i)} : i \in SomeInputs}

\* The versions of the protocol that plugins speak: old, both, and none known.
SomeSpeaks ==
  {[source |-> [s |-> v, r |-> {2}], destination |-> [d |-> {1, 3}, e |-> w], transformer |-> << >>] :
     v \in {{1}, {1, 2}, {3}, {4}}, w \in {{1}, {1, 3}}}
=============================================================================
