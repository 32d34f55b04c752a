----------------------- MODULE SensorSettingsProperties -----------------------
(***************************************************************************)
(* What the operations that configure a sensor promise when any of their   *)
(* requests may fail.                                                      *)
(***************************************************************************)
EXTENDS SensorSettings

Requests ==
    {"none", "end", "detect", "list", "read_tools", "tools"} \cup ToScanner \cup Writes

Asking == {"configure", "profile", "surface"}

\* Type correctness.
TypeOK ==
    /\ sensor \in [engine : Engines, parts : Parts, enabled : BOOLEAN, scanning : BOOLEAN,
                   outputs : SUBSET Sources]
    /\ op \in {"none", "read", "apply"} \cup Asking
    /\ request \in Requests
    /\ asked \in Asks \cup {Nothing} /\ (op \in Asking => asked \in Asks)
    /\ found \in Engines
    /\ DOMAIN config \subseteq PartNames
    /\ \A part \in DOMAIN config : \E p \in Parts : config[part] = p[part]
    /\ left \subseteq Tools
    /\ result \in {"none", "done", "failed"}

Added == sensor'.outputs \ sensor.outputs

\* An output is added only to a sensor that already has the scan mode which was
\* asked for, that sends data, and, for configure(), that has its exposure and
\* length: a failure on the way leaves no output that delivers the wrong data
\* (Gocator.cpp:294, GocatorSettingsManager.cpp:233).
OutputComesLast ==
    [][request = "add" /\ Added # {} =>
         /\ sensor'.parts.scanner.scanMode = asked.kind
         /\ sensor'.enabled
         /\ op = "configure" =>
              /\ sensor'.parts.sensor = asked.exposure
              /\ sensor'.parts.scanner.length = asked.length]_vars

\* An output of configure() or of prepareProfileOutput() is a source of the
\* sensor's own engine, even when detectEngineId() has failed and the confocal
\* engine was assumed (Gocator.cpp:100).
AddedIsOfTheEngine ==
    [][op # "surface" /\ request # "none" =>
         \A source \in Added :
            /\ source.engine = sensor.engine
            /\ source.layer = (sensor.engine = Confocal)]_vars

\* When a prepare operation returns, the output it chose is the only one.
PreparedMeansOnlyOutput ==
    result = "done" /\ op \in {"profile", "surface"} => sensor.outputs = {Chosen}

\* applyConfig() writes the sensor's part or a tool's only when the scanner has
\* the parts of the set that come before: a failure leaves a beginning of the
\* set applied and nothing of its end (GocatorSettingsManager.cpp:367).
AppliedInOrder ==
    [][op = "apply" /\ request # "none" =>
         \/ sensor'.parts.sensor = sensor.parts.sensor /\ sensor'.parts.tools = sensor.parts.tools
         \/ \A part \in {"scanner", "root"} \cap DOMAIN config :
               sensor'.parts[part] = config[part]]_vars

\* applyConfig() that returns has applied every part but the tools, whatever
\* sensor the set was read from.
AppliedIsTheConfig ==
    op = "apply" /\ result = "done" =>
        \A part \in DOMAIN config \ {"tools"} : sensor.parts[part] = config[part]

\* prepareSurfaceOutput() asks for a surface of the engine it found ("Try to find
\* a surface source", GocatorSettingsManager.cpp:253), as configure() does.
SurfaceIsAsked ==
    op = "surface" /\ request = "add" => Chosen = SourceFor(found, "Surface")
=============================================================================
