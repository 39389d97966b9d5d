--------------------------- MODULE MCRemoteClients ---------------------------
(* Requests that reach every branch of the five clients.                   *)
EXTENDS RemoteClients

Step(t) == [type |-> t, inline |-> TRUE, dest |-> TRUE]
Settings == [key |-> TRUE, allowKey |-> FALSE, allowPublic |-> FALSE,
             publicGroup |-> FALSE, identity |-> TRUE, network |-> TRUE,
             template |-> TRUE]
Plain == [source |-> "image", steps |-> <<>>, family |-> "linux", ssh |-> FALSE,
          sourceFits |-> TRUE, evidence |-> FALSE,
          settings |-> [Settings EXCEPT !.key = FALSE]]
Scripted == [Plain EXCEPT !.steps = <<Step("shell"), Step("file")>>,
                          !.settings = [Settings EXCEPT !.allowKey = TRUE]]

MCRequests ==
  {Plain,
   [Plain EXCEPT !.source = "snapshot"],
   [Plain EXCEPT !.source = "library", !.ssh = TRUE, !.settings.template = FALSE],
   [Plain EXCEPT !.source = "marketplace", !.sourceFits = FALSE],
   Scripted,
   [Scripted EXCEPT !.settings.key = FALSE, !.settings.allowKey = FALSE],
   [Scripted EXCEPT !.source = "marketplace", !.steps = <<Step("shell")>>,
                    !.settings.key = FALSE, !.settings.allowKey = FALSE],
   [Scripted EXCEPT !.source = "disk", !.evidence = TRUE,
                    !.steps = <<Step("shell"), Step("evidence")>>],
   [Scripted EXCEPT !.source = "disk", !.steps = <<[Step("file") EXCEPT !.dest = FALSE]>>],
   [Plain EXCEPT !.family = "windows", !.source = "marketplace",
                 !.steps = <<Step("powershell")>>, !.settings.publicGroup = TRUE]}
=============================================================================
