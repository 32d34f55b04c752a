--------------------------- MODULE SensorSettings ---------------------------
(***************************************************************************)
(* Configuration of a sensor: configure() of the facade (Gocator.cpp) and  *)
(* prepareProfileOutput(), prepareSurfaceOutput(), readAllConfig() and     *)
(* applyConfig() of GocatorSettingsManager.  Each is a chain of requests   *)
(* (GocatorResourceClient) of which any may throw, without an effect on    *)
(* the sensor or, when the answer is late, with it.                        *)
(***************************************************************************)
EXTENDS Functions

CONSTANTS
    Engines,    \* scan engines that a sensor may have
    Profilers,  \* those with "Profile" in their names
    Confocal,   \* "LMIConfocalLineProfiler"
    Surfaced,   \* what such a name is when the word is replaced
    Values,     \* values of a parameter
    Tools       \* tools that a sensor may have

ASSUME SettingsAssumption ==
    /\ Confocal \in Profilers /\ Profilers \subseteq Engines
    /\ Surfaced \notin Engines

Kinds == {"Profile", "Surface"}    \* values 2 and 3 of scanMode

Sources == [engine : Engines \cup {Surfaced}, kind : Kinds, layer : BOOLEAN]

VARIABLES
    sensor,     \* the sensor's resources
    op,         \* the operation under way
    request,    \* its next request
    asked,      \* its parameters, if it has any
    found,      \* the engine it works with
    config,     \* the GocatorParameterSet that it builds or applies
    left,       \* tools that it has yet to read or to write
    result      \* how the last operation ended

vars == <<sensor, op, request, asked, found, config, left, result>>

ToolSettings == UNION {[T -> Values] : T \in SUBSET Tools}

\* The parts of a parameter set.  The scan mode and length belong to the scanner,
\* the exposure to its sensor.
Parts ==
    [scanner : [scanMode : Kinds, length : Values], root : Values, sensor : Values,
     tools : ToolSettings]

PartNames == {"scanner", "root", "sensor", "tools"}

\* A sensor as its owner left it.
Sensors ==
    {[engine |-> e, parts |-> p, enabled |-> b, scanning |-> b, outputs |-> {}] :
        e \in Engines, p \in Parts, b \in BOOLEAN}

Asks == [kind : Kinds, exposure : Values, length : Values]

Nothing == [part \in {} |-> part]

\* The function f with the value v at x.
With(f, x, v) == [y \in DOMAIN f \cup {x} |-> IF y = x THEN v ELSE f[y]]

-----------------------------------------------------------------------------
(* The requests of each operation, in their order.                         *)

\* Mutant: the output is added before the scan mode is set.
AddBeforeMode ==
    [detect |-> "exposure", exposure |-> "length", length |-> "enable",
     enable |-> "clear", clear |-> "add", add |-> "mode", mode |-> "end"]

\* configure().
ConfigureChain ==
    [detect |-> "mode", mode |-> "exposure", exposure |-> "length", length |-> "enable",
     enable |-> "clear", clear |-> "add", add |-> "end"]

\* Mutant: the outputs are not cleared.
PrepareUncleared ==
    [stop |-> "detect", detect |-> "mode", mode |-> "enable", enable |-> "add",
     add |-> "end"]

\* prepareProfileOutput() and prepareSurfaceOutput().
PrepareChain ==
    [stop |-> "detect", detect |-> "mode", mode |-> "enable", enable |-> "clear",
     clear |-> "add", add |-> "end"]

\* readAllConfig().
ReadChain ==
    [detect |-> "read_scanner", read_scanner |-> "read_sensor",
     read_sensor |-> "read_root", read_root |-> "list"]

\* Mutant: the sensor's part goes first.
ApplySensorFirst ==
    [detect |-> "sensor", sensor |-> "scanner", scanner |-> "root", root |-> "tools"]

\* applyConfig().
ApplyChain ==
    [detect |-> "scanner", scanner |-> "root", root |-> "sensor", sensor |-> "tools"]

\* The request after this one.
Following ==
    [configure |-> ConfigureChain, profile |-> PrepareChain, surface |-> PrepareChain,
     read |-> ReadChain, apply |-> ApplyChain][op][request]

\* Requests to a resource of the scanner, which exists under its engine only.
ToScanner ==
    {"mode", "exposure", "length", "scanner", "root", "sensor",
     "read_scanner", "read_sensor", "read_root"}

\* Mutant: configure() goes on when the scanner cannot be written.
ScannerIgnored ==
    [configure |-> {"clear", "mode", "exposure", "length"}, profile |-> {"stop"},
     surface |-> {"stop"}, read |-> {}, apply |-> {}][op]

\* Mutant: applyConfig() passes over a root that it cannot write.
RootIgnored ==
    [configure |-> {"clear"}, profile |-> {"stop"}, surface |-> {"stop"},
     read |-> {}, apply |-> {"root"}][op]

\* Requests whose failure is caught and ignored.
Ignored ==
    [configure |-> {"clear"}, profile |-> {"stop"}, surface |-> {"stop"},
     read |-> {}, apply |-> {}][op]

-----------------------------------------------------------------------------
(* What is asked of the sensor.                                            *)

\* profileSourceForEngine().
SourceFor(engine, kind) ==
    [engine |-> engine, kind |-> kind, layer |-> engine = Confocal]

\* The first "Profile" of a source's name becomes "Surface".
Replaced(source) ==
    IF source.engine \in Profilers
      THEN [source EXCEPT !.engine = Surfaced]
      ELSE [source EXCEPT !.kind = "Surface"]

\* The source of the output to add.
Chosen ==
    IF op = "configure" THEN SourceFor(found, asked.kind)
    ELSE IF op = "profile" THEN SourceFor(found, "Profile")
    ELSE Replaced(SourceFor(found, "Profile"))

\* Requests that write to the sensor.
Writes ==
    {"stop", "mode", "exposure", "length", "enable", "clear", "add",
     "scanner", "root", "sensor"}

\* The scanner's part when the sensor has done what request asks.
ScannerAfter ==
    IF request = "scanner" THEN config["scanner"]
    ELSE [scanMode |-> IF request = "mode" THEN asked.kind ELSE sensor.parts.scanner.scanMode,
          length |-> IF request = "length" THEN asked.length ELSE sensor.parts.scanner.length]

SensorAfter ==
    IF request = "sensor" THEN config["sensor"]
    ELSE IF request = "exposure" THEN asked.exposure
    ELSE sensor.parts.sensor

OutputsAfter ==
    IF request = "clear" THEN {}
    ELSE IF request = "add" THEN sensor.outputs \cup {Chosen}
    ELSE sensor.outputs

\* The whole sensor then.
After ==
    [engine   |-> sensor.engine,
     parts    |-> [scanner |-> ScannerAfter,
                   root    |-> IF request = "root" THEN config["root"] ELSE sensor.parts.root,
                   sensor  |-> SensorAfter,
                   tools   |-> sensor.parts.tools],
     enabled  |-> IF request = "enable" THEN TRUE ELSE sensor.enabled,
     scanning |-> IF request = "stop" THEN FALSE ELSE sensor.scanning,
     outputs  |-> OutputsAfter]

-----------------------------------------------------------------------------
Init ==
    /\ sensor \in Sensors
    /\ op = "none" /\ request = "none" /\ result = "none"
    /\ asked = Nothing
    /\ found = Confocal
    /\ config = Nothing
    /\ left = {}

\* An operation o is called, with the request r as its first.
Begin(o, r) ==
    /\ request = "none"
    /\ op' = o /\ request' = r /\ result' = "none"
    /\ UNCHANGED <<sensor, found>>

\* The parameters are the caller's; a parameter set it had is forgotten.
BeginAsking(o, r) ==
    /\ Begin(o, r)
    /\ asked' \in Asks
    /\ config' = Nothing
    /\ left' = {}

CallConfigure == BeginAsking("configure", "detect")

CallPrepareProfile == BeginAsking("profile", "stop")

CallPrepareSurface == BeginAsking("surface", "stop")

CallReadAll ==
    /\ Begin("read", "detect")
    /\ asked' = Nothing /\ config' = Nothing /\ left' = {}

\* applyConfig() of the set that was read, or of some parts of it.
CallApply ==
    /\ Begin("apply", "detect")
    /\ op = "read" /\ result = "done"
    /\ \E parts \in SUBSET DOMAIN config : config' = Restrict(config, parts)
    /\ left' = DOMAIN config["tools"]
    /\ UNCHANGED asked

\* Before it applies the set the client may connect to another sensor.
ConnectOther ==
    /\ op = "read" /\ result = "done"
    /\ sensor' \in Sensors
    /\ UNCHANGED <<op, request, asked, found, config, left, result>>

-----------------------------------------------------------------------------
GoOn == request' = Following /\ UNCHANGED result

\* The exception leaves the operation; nothing is returned.
Throw ==
    /\ request' = "none" /\ result' = "failed"
    /\ config' = Nothing
    /\ left' = {}

\* detectEngineId() and detectPrimaryScanner().
Detect ==
    /\ request = "detect"
    /\ found' = sensor.engine
    /\ GoOn
    /\ UNCHANGED <<sensor, op, asked, config, left>>

\* detectEngineId() then takes the confocal engine; detectPrimaryScanner() throws.
DetectFails ==
    /\ request = "detect"
    /\ IF op = "configure"
         THEN GoOn /\ found' = Confocal /\ UNCHANGED <<config, left>>
         ELSE Throw /\ UNCHANGED found
    /\ UNCHANGED <<sensor, op, asked>>

\* applyConfig() passes over the parts that the set does not have.
Wanted == request \in PartNames => request \in DOMAIN config

Skip ==
    /\ request \in Writes
    /\ ~Wanted
    /\ GoOn
    /\ UNCHANGED <<sensor, op, asked, found, config, left>>

\* The sensor has the resource that the request names.
Addressed == request \in ToScanner => found = sensor.engine

Ask ==
    /\ request \in Writes
    /\ Wanted /\ Addressed
    /\ sensor' = After
    /\ GoOn
    /\ UNCHANGED <<op, asked, found, config, left>>

\* The request throws, although the sensor may have done what it asks.
AskFails ==
    /\ request \in Writes
    /\ Wanted
    /\ \/ sensor' = sensor
       \/ Addressed /\ sensor' = After
    /\ IF request \in Ignored THEN GoOn /\ UNCHANGED <<config, left>> ELSE Throw
    /\ UNCHANGED <<op, asked, found>>

-----------------------------------------------------------------------------
\* readAllConfig() copies a part.
Read(r, part) ==
    /\ request = r
    /\ Addressed
    /\ config' = With(config, part, sensor.parts[part])
    /\ GoOn
    /\ UNCHANGED <<sensor, op, asked, found, left>>

ReadPart ==
    Read("read_scanner", "scanner") \/ Read("read_sensor", "sensor") \/ Read("read_root", "root")

\* listTools() returns what it has when it fails.
ListTools ==
    /\ request = "list"
    /\ left' \in SUBSET DOMAIN sensor.parts.tools
    /\ config' = With(config, "tools", Nothing)
    /\ request' = "read_tools"
    /\ UNCHANGED <<sensor, op, asked, found, result>>

ReadTool ==
    /\ request = "read_tools"
    /\ \E t \in left :
         /\ config' = [config EXCEPT !["tools"] = With(@, t, sensor.parts.tools[t])]
         /\ left' = left \ {t}
    /\ UNCHANGED <<sensor, op, request, asked, found, result>>

ReadFails ==
    /\ \/ request \in {"read_scanner", "read_sensor", "read_root"}
       \/ request = "read_tools" /\ left # {}
    /\ Throw
    /\ UNCHANGED <<sensor, op, asked, found>>

\* applyConfig() writes a tool's parameters; whether that fails, because the
\* sensor does not have the tool or for another reason, is ignored.
ApplyTool ==
    /\ request = "tools" /\ "tools" \in DOMAIN config
    /\ \E t \in left :
         /\ \/ sensor' = sensor
            \/ /\ t \in DOMAIN sensor.parts.tools
               /\ sensor' = [sensor EXCEPT !.parts.tools[t] = config["tools"][t]]
         /\ left' = left \ {t}
    /\ UNCHANGED <<op, request, asked, found, config, result>>

\* Nothing is left to ask.
Return ==
    /\ \/ request = "end"
       \/ request = "read_tools" /\ left = {}
       \/ request = "tools" /\ ("tools" \in DOMAIN config => left = {})
    /\ request' = "none" /\ result' = "done"
    /\ left' = {}
    /\ UNCHANGED <<sensor, op, asked, found, config>>

Next ==
    \/ CallConfigure \/ CallPrepareProfile \/ CallPrepareSurface \/ CallReadAll
    \/ CallApply \/ ConnectOther
    \/ Detect \/ DetectFails \/ Skip \/ Ask \/ AskFails
    \/ ReadPart \/ ListTools \/ ReadTool \/ ReadFails \/ ApplyTool \/ Return

Spec == Init /\ [][Next]_vars
=============================================================================
