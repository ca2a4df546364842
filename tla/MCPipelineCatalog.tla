--------------------------- MODULE MCPipelineCatalog ---------------------------
(* PipelineCatalog with drafts that are dags one by one and a cycle together. *)
EXTENDS PipelineCatalog, Graphs

CONSTANTS a, b, c

Draws    == {{<<a, b>>}, {<<b, a>>}, {<<a, b>>, <<b, a>>}}
Draws3   == {{<<a, b>>, <<b, c>>}, {<<c, a>>}, {<<a, b>>, <<b, c>>, <<c, a>>}}

(* The definition of PublishedAcyclic is that of the library. *)
ASSUME \A links \in SUBSET Link : Atomic!Acyclic(links) <=> IsDag([node |-> Task, edge |-> links])
===============================================================================
