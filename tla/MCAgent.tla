------------------------------ MODULE MCAgent ------------------------------
(* Small instances of the agent for TLC. *)
EXTENDS Agent

Response(type, duration, name) ==
  [type |-> type, duration |-> duration, name |-> name, empty |-> FALSE]

EmptyResponse == [Response(None, FALSE, FALSE) EXCEPT !.empty = TRUE]

\* Profiles that can be collected, one of an unknown type, and incomplete ones.
TypedResponses ==
  {Response("CPU", TRUE, TRUE), Response("WALL", TRUE, TRUE),
   Response("HEAP", TRUE, TRUE), Response("CPU", FALSE, TRUE),
   Response("CPU", TRUE, FALSE)}
AllResponses == TypedResponses \cup {Response(None, TRUE, TRUE), EmptyResponse}

\* One of each kind, for two polling threads.
FewResponses ==
  {Response("WALL", TRUE, TRUE), Response("HEAP", FALSE, FALSE),
   Response(None, TRUE, TRUE), EmptyResponse}

\* A failure of any kind, a broken pipe, an HttpError with a retryDelay; and one
\* whose retryDelay no sleep accepts.
PlainErrors ==
  {[pipe |-> FALSE, delay |-> None], [pipe |-> TRUE, delay |-> None],
   [pipe |-> FALSE, delay |-> 2]}
AllErrors == PlainErrors \cup {[pipe |-> FALSE, delay |-> -1]}

Arguments(project, file, service, version, cpu, wall) ==
  [project_id |-> project, file |-> file, service |-> service, version |-> version,
   disable_cpu |-> ~ cpu, disable_wall |-> ~ wall]

\* Everything or nothing is given, and nothing is enabled.
WallCalls ==
  {Arguments("arg", "key.json", "web", "3", TRUE, TRUE),
   Arguments(None, None, None, None, FALSE, TRUE),
   Arguments(None, "key.json", "Web", None, FALSE, FALSE)}
CpuCalls == {Arguments(None, None, "web", None, TRUE, FALSE)}

Names == {"web", "gae", "k"}

Metadata == [project |-> "gce", zone |-> <<"projects", "gce", "zones", "a">>,
             instance |-> None]

\* An App Engine instance, whose metadata name no instance, and a container that runs
\* elsewhere, with metadata that name nothing but the instance.
AppEngine == [platform |-> "linux", file |-> "key", default |-> None,
              gae_service |-> "gae", k_service |-> "k", gae_version |-> "1",
              k_revision |-> "2", metadata |-> Metadata]
Elsewhere == [AppEngine EXCEPT !.platform = "darwin", !.file = None, !.default = "adc",
                !.gae_service = None, !.gae_version = None,
                !.metadata = [project |-> None, zone |-> None, instance |-> "vm"]]
BothEnvironments == {AppEngine, Elsewhere}
OneEnvironment == {AppEngine}
=============================================================================
