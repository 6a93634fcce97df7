--------------------------- MODULE LifecycleGraphs ---------------------------
(***************************************************************************)
(* The lifecycles of the three records that are created as drafts and then *)
(* moved one command at a time: Events (event_service.py), Services        *)
(* (service_service.py) and Library resources (library_service.py).        *)
(***************************************************************************)
EXTENDS Naturals

Kinds == {"event", "service", "library"}

Absent == "absent"   \* there is no such record yet

\* A command allowed from one state.  Creations start at version 1; versions
\* is the number of versions the command adds.
Step(command, from, to, versions) ==
  [command |-> command, from |-> from, to |-> to, versions |-> versions]

EventMoves == {
  Step("create_event", Absent, "draft", 1),
  Step("publish_event", "draft", "published", 0),
  Step("activate_event", "published", "active", 0),
  Step("complete_event", "active", "completed", 0),
  Step("archive_event", "completed", "archived", 0)}

ServiceMoves == {
  Step("create_service", Absent, "draft", 1),
  Step("create_service_version", "draft", "draft", 1),
  Step("create_service_version", "published", "draft", 1),
  Step("publish_service", "draft", "published", 0),
  Step("retire_service", "published", "retired", 0)}

LibraryMoves == {
  Step("create_library_resource", Absent, "draft", 1),
  Step("create_library_resource_version", "draft", "draft", 1),
  Step("create_library_resource_version", "published", "draft", 1),
  Step("publish_library_resource", "draft", "published", 0),
  Step("deprecate_library_resource", "published", "deprecated", 0),
  Step("archive_library_resource", "deprecated", "archived", 0)}

Moves(kind) == IF kind = "event" THEN EventMoves
               ELSE IF kind = "service" THEN ServiceMoves ELSE LibraryMoves

\* A Service's published version is associated with a Library resource's
\* version or with an Event.
Associations(kind) ==
  IF kind = "service" THEN {"associate_library_service", "associate_service_event"}
                      ELSE {}

States == {Absent, "draft", "published", "active", "completed", "archived",
           "retired", "deprecated"}
Commands(kind) == {m.command : m \in Moves(kind)} \union Associations(kind)
=============================================================================
