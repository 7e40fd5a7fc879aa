----------------------------- MODULE MCServices -----------------------------
(***************************************************************************)
(* The services of a device side by side: `subject`, chosen at the start,  *)
(* is the one that moves; the others keep their initial state.             *)
(***************************************************************************)
EXTENDS ImageMount, DeviceQueries, Simulation, SessionRouter, WdaServices, AppControl, McpInput, Clipboard, MCKeymap

CONSTANTS c1, w1, i1
VARIABLE subject

vars == <<imageVars, queryVars, simulationVars, routerVars, wdaVars, appVars, mcpVars, clipVars, keymapVars, subject>>

\* What is chosen at the start is chosen for the subject only.
Init ==
    /\ ImageInit /\ QueryInit /\ SimulationInit /\ RouterInit /\ WdaInit /\ AppInit /\ McpInit /\ ClipboardInit /\ KeymapInit
    /\ subject \in {"catalog", "images", "queries", "simulation", "router", "runner", "wda", "apps", "mcp", "clipboard",
                   "keymap"}
    /\ subject # "catalog" => roots = CustomSets
    /\ subject # "images" => deviceKind = "Legacy" /\ mounted = FALSE
    /\ subject # "queries" => service = "home" /\ installed = {}
    /\ subject # "simulation" => simulating = "conditions"
    /\ subject # "router" => cached = NoDetails /\ mode = "hidden"
    /\ subject # "apps" => appClients = {} /\ runningApps = {}
    /\ subject # "mcp" => selected = i1
    /\ subject # "clipboard" => hostClip = Nothing /\ deviceClip = Nothing

Rest ==
    /\ UNCHANGED subject
    /\ subject # "catalog" => UNCHANGED <<roots, crashes>>
    /\ subject \notin {"catalog", "images"} => UNCHANGED <<imageVars>>
    /\ subject = "catalog" => UNCHANGED mountVars
    /\ subject # "queries" => UNCHANGED queryVars
    /\ subject # "simulation" => UNCHANGED simulationVars
    /\ subject # "router" => UNCHANGED routerVars
    /\ subject \notin {"runner", "wda"} => UNCHANGED wdaVars
    /\ subject # "apps" => UNCHANGED appVars
    /\ subject # "mcp" => UNCHANGED mcpVars
    /\ subject # "clipboard" => UNCHANGED clipVars
    /\ subject # "keymap" => UNCHANGED keymapVars

Next ==
    /\ Rest
    /\ \/ subject = "catalog" /\ CatalogNext(Callers)
       \/ subject = "images" /\ ImageNext({c1})
       \/ subject = "queries" /\ QueryNext
       \/ subject = "simulation" /\ SimulationNext
       \/ subject = "router" /\ RouterNext
       \/ subject = "runner" /\ RunnerNext(RunnerAsks)
       \/ subject = "wda" /\ RunnerNext({w1})
       \/ subject = "wda" /\ AutomationNext
       \/ subject = "apps" /\ AppNext
       \/ subject = "mcp" /\ McpNext
       \/ subject = "clipboard" /\ ClipboardNext
       \/ subject = "keymap" /\ KeymapNext

Spec == Init /\ [][Next]_vars

KindOfSets == [s \in AllSets |-> IF s \in ForeignSets THEN "Legacy" ELSE "Personalized"]
FilesOfSets == [s \in ForeignSets |-> {"image", "auxiliary", "manifest"}]
ForeignRanks == [s \in ForeignSets |-> 0]
=============================================================================
