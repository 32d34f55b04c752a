------------------------ MODULE SensorSettingsProofs ------------------------
(***************************************************************************)
(* Proofs that the properties of SensorSettingsProperties hold for every   *)
(* set of engines, parameter values and tools.                             *)
(***************************************************************************)
EXTENDS SensorSettingsProperties, TLAPS

-----------------------------------------------------------------------------
(* The inductive invariant: what a chain of requests has done so far.      *)

\* Each operation makes the requests of its own chain.
ChainInv ==
    /\ request # "none" => result = "none"
    /\ op = "none" => request = "none" /\ result = "none"
    /\ op = "configure" => request \in {"none", "end"} \cup DOMAIN ConfigureChain
    /\ op \in {"profile", "surface"} => request \in {"none", "end"} \cup DOMAIN PrepareChain
    /\ op = "read" => request \in {"none", "read_tools", "list"} \cup DOMAIN ReadChain
    /\ op = "apply" => request \in {"none", "tools"} \cup DOMAIN ApplyChain

\* A reader of tools has begun the part of the tools.
ReadInv ==
    /\ request = "read_tools" =>
         "tools" \in DOMAIN config /\ left \subseteq DOMAIN sensor.parts.tools
    /\ op = "read" /\ result = "done" => "tools" \in DOMAIN config
    /\ op = "apply" /\ "tools" \in DOMAIN config =>
         left \subseteq DOMAIN config["tools"]

\* Nothing after the scan mode is asked of a scanner that does not exist.
FoundInv ==
    op \in Asking /\ request \in {"exposure", "length", "enable", "clear", "add"} =>
        found = sensor.engine

\* What the requests before this one have set.
AskedInv ==
    /\ op \in Asking /\ request \in {"exposure", "length", "enable", "clear", "add"} =>
         sensor.parts.scanner.scanMode = asked.kind
    /\ op = "configure" /\ request \in {"length", "enable", "clear", "add"} =>
         sensor.parts.sensor = asked.exposure
    /\ op = "configure" /\ request \in {"enable", "clear", "add"} =>
         sensor.parts.scanner.length = asked.length
    /\ op \in Asking /\ request \in {"clear", "add"} => sensor.enabled

\* An operation that prepares an output cleared the others, then added its own.
OutputInv ==
    op \in {"profile", "surface"} =>
        /\ request = "add" => sensor.outputs = {}
        /\ request = "end" \/ result = "done" => sensor.outputs = {Chosen}

\* What applyConfig() has applied.
AppliedInv ==
    op = "apply" =>
        /\ "scanner" \in DOMAIN config
              /\ (request \in {"root", "sensor", "tools"} \/ result = "done") =>
             sensor.parts.scanner = config["scanner"]
        /\ "root" \in DOMAIN config /\ (request \in {"sensor", "tools"} \/ result = "done") =>
             sensor.parts.root = config["root"]
        /\ "sensor" \in DOMAIN config /\ (request = "tools" \/ result = "done") =>
             sensor.parts.sensor = config["sensor"]

IInv == TypeOK /\ ChainInv /\ ReadInv /\ FoundInv /\ AskedInv /\ OutputInv /\ AppliedInv

-----------------------------------------------------------------------------
(* Lemmas about the definitions of the model.                              *)

\* What an operation's source is made of.
LEMMA SourceType ==
    ASSUME NEW e \in Engines, NEW k \in Kinds
    PROVE  /\ SourceFor(e, k) \in Sources
           /\ Replaced(SourceFor(e, k)) \in Sources
    BY DEF SourceFor, Replaced, Sources, Kinds

\* The source to add is one that a sensor can be asked for.
LEMMA ChosenType ==
    ASSUME TypeOK, op \in Asking
    PROVE  Chosen \in Sources
    <1>1. asked \in Asks /\ found \in Engines
      BY DEF TypeOK
    <1>2. asked.kind \in Kinds /\ "Profile" \in Kinds
      BY <1>1 DEF Asks, Kinds
    <1> QED
      BY <1>1, <1>2, SourceType DEF Chosen, Asking

\* The parts of a parameter set have the types of the sensor's.
LEMMA ConfigType ==
    ASSUME TypeOK
    PROVE  /\ "scanner" \in DOMAIN config =>
                config["scanner"] \in [scanMode : Kinds, length : Values]
           /\ "root" \in DOMAIN config => config["root"] \in Values
           /\ "sensor" \in DOMAIN config => config["sensor"] \in Values
           /\ "tools" \in DOMAIN config => config["tools"] \in ToolSettings
    <1>1. \A part \in DOMAIN config : \E p \in Parts : config[part] = p[part]
      BY DEF TypeOK
    <1> QED
      BY <1>1 DEF Parts

\* The sensor stays one whatever it is asked to do.
LEMMA AfterType ==
    ASSUME TypeOK, ChainInv, request \in Writes, Wanted
    PROVE  After \in [engine : {sensor.engine}, parts : Parts, enabled : BOOLEAN,
                      scanning : BOOLEAN, outputs : SUBSET Sources]
    <1> DEFINE S == [engine : {sensor.engine}, parts : Parts, enabled : BOOLEAN,
                     scanning : BOOLEAN, outputs : SUBSET Sources]
    <1>1. sensor \in S /\ sensor.parts.scanner \in [scanMode : Kinds, length : Values]
      BY DEF TypeOK, Parts
    <1>2. request \in {"mode", "exposure", "length", "enable", "clear", "add"} =>
             op \in Asking /\ asked \in Asks
      BY DEF ChainInv, TypeOK, Asking, ConfigureChain, PrepareChain, ReadChain, ApplyChain
    <1>3. ScannerAfter \in [scanMode : Kinds, length : Values]
      BY <1>1, <1>2, ConfigType DEF ScannerAfter, Asks, Wanted, PartNames
    <1>4. SensorAfter \in Values
      BY <1>1, <1>2, ConfigType DEF SensorAfter, Asks, Wanted, PartNames, Parts
    <1>5. request = "root" => config["root"] \in Values
      BY ConfigType DEF Wanted, PartNames
    <1>6. OutputsAfter \in SUBSET Sources
      BY <1>1, <1>2, ChosenType DEF OutputsAfter
    <1> QED
      BY <1>1, <1>3, <1>4, <1>5, <1>6 DEF After, Parts

\* The request after this one, by operation.
LEMMA FollowingIs ==
    /\ op = "configure" => Following = ConfigureChain[request]
    /\ op \in {"profile", "surface"} => Following = PrepareChain[request]
    /\ op = "read" => Following = ReadChain[request]
    /\ op = "apply" => Following = ApplyChain[request]
    BY DEF Following

-----------------------------------------------------------------------------
(* Every step keeps the type.                                              *)

\* The operation goes on to a request of its chain, or ends.
LEMMA FollowingType ==
    ASSUME TypeOK, ChainInv, request \notin {"none", "end", "list", "read_tools", "tools"}
    PROVE  Following \in Requests \ {"none"}
    <1> USE DEF Requests, ToScanner, Writes
    <1>1. CASE op = "configure"
      BY <1>1, FollowingIs DEF ChainInv, ConfigureChain
    <1>2. CASE op \in {"profile", "surface"}
      BY <1>2, FollowingIs DEF ChainInv, PrepareChain
    <1>3. CASE op = "read"
      BY <1>3, FollowingIs DEF ChainInv, ReadChain
    <1>4. CASE op = "apply"
      BY <1>4, FollowingIs DEF ChainInv, ApplyChain
    <1>5. op # "none"
      BY DEF ChainInv
    <1> QED
      BY <1>1, <1>2, <1>3, <1>4, <1>5 DEF TypeOK, Asking

\* What holds of the parts of a parameter set, TypeOK says of config.
ConfigOK(c) ==
    /\ DOMAIN c \subseteq PartNames
    /\ \A part \in DOMAIN c : \E p \in Parts : c[part] = p[part]

LEMMA NothingOK == ConfigOK(Nothing)
    BY DEF ConfigOK, Nothing

LEMMA RestrictOK ==
    ASSUME NEW c, ConfigOK(c), NEW P \in SUBSET DOMAIN c
    PROVE  ConfigOK(Restrict(c, P))
    BY DEF ConfigOK, Restrict

LEMMA WithOK ==
    ASSUME NEW c, ConfigOK(c), NEW part \in PartNames, NEW p \in Parts
    PROVE  ConfigOK(With(c, part, p[part]))
    BY DEF ConfigOK, With

\* Settings of tools stay such when one is written.
LEMMA ToolsOK ==
    ASSUME NEW f \in ToolSettings
    PROVE  /\ DOMAIN f \subseteq Tools
           /\ \A t \in DOMAIN f : f[t] \in Values
           /\ \A t \in Tools, v \in Values : With(f, t, v) \in ToolSettings
           /\ \A t \in DOMAIN f, v \in Values : [f EXCEPT ![t] = v] \in ToolSettings
    <1>1. PICK T \in SUBSET Tools : f \in [T -> Values]
      BY DEF ToolSettings
    <1>2. ASSUME NEW t \in Tools, NEW v \in Values
          PROVE  With(f, t, v) \in [T \cup {t} -> Values]
      BY <1>1 DEF With
    <1>3. ASSUME NEW t \in DOMAIN f, NEW v \in Values
          PROVE  [f EXCEPT ![t] = v] \in [T -> Values]
      BY <1>1, <1>3
    <1>4. ASSUME NEW t \in Tools, NEW v \in Values
          PROVE  With(f, t, v) \in ToolSettings
      <2> DEFINE U == T \cup {t}
      <2>1. With(f, t, v) \in [U -> Values]
        BY <1>2
      <2>2. U \in SUBSET Tools
        OBVIOUS
      <2> HIDE DEF U
      <2> QED
        BY <2>1, <2>2 DEF ToolSettings
    <1>5. ASSUME NEW t \in DOMAIN f, NEW v \in Values
          PROVE  [f EXCEPT ![t] = v] \in ToolSettings
      BY <1>3 DEF ToolSettings
    <1>6. DOMAIN f = T /\ \A t \in T : f[t] \in Values
      BY <1>1
    <1> QED
      BY <1>4, <1>5, <1>6

LEMMA NoToolsOK == Nothing \in ToolSettings
    <1>1. Nothing \in [{} -> Values]
      BY DEF Nothing
    <1> QED
      BY <1>1 DEF ToolSettings

LEMMA TypeStep ==
    ASSUME IInv, [Next]_vars
    PROVE  TypeOK'
    <1> USE DEF IInv
    <1>1. TypeOK /\ ChainInv /\ ConfigOK(config)
      BY DEF TypeOK, ConfigOK
    <1>2. ASSUME NEW c, ConfigOK(c), config' = c
          PROVE  /\ DOMAIN config' \subseteq PartNames
                 /\ \A part \in DOMAIN config' : \E p \in Parts : config'[part] = p[part]
      BY <1>2 DEF ConfigOK
    <1>3. ASSUME NEW o \in Asking, NEW r \in {"detect", "stop"}, BeginAsking(o, r)
          PROVE  TypeOK'
      BY <1>1, <1>2, <1>3, NothingOK
         DEF BeginAsking, Begin, TypeOK, Asking, Requests, Writes, ToScanner
    <1>4. CASE CallConfigure \/ CallPrepareProfile \/ CallPrepareSurface
      BY <1>3, <1>4 DEF CallConfigure, CallPrepareProfile, CallPrepareSurface, Asking
    <1>5. CASE CallReadAll
      BY <1>1, <1>2, <1>5, NothingOK DEF CallReadAll, Begin, TypeOK, Asking, Requests
    <1>6. CASE CallApply
      <2>1. "tools" \in DOMAIN config
        BY <1>6 DEF CallApply, ReadInv
      <2>2. DOMAIN config["tools"] \subseteq Tools
        BY <1>1, <2>1, ConfigType, ToolsOK
      <2>3. PICK parts \in SUBSET DOMAIN config : config' = Restrict(config, parts)
        BY <1>6 DEF CallApply
      <2>4. ConfigOK(Restrict(config, parts))
        BY <1>1, RestrictOK
      <2> QED
        BY <1>1, <1>2, <1>6, <2>2, <2>3, <2>4 DEF CallApply, Begin, TypeOK, Asking, Requests
    <1>7. CASE ConnectOther
      BY <1>1, <1>7 DEF ConnectOther, TypeOK, Sensors
    <1>8. CASE Detect
      BY <1>1, <1>8, FollowingType DEF Detect, GoOn, TypeOK
    <1>9. CASE DetectFails
      BY <1>1, <1>2, <1>9, FollowingType, NothingOK, SettingsAssumption
         DEF DetectFails, GoOn, Throw, TypeOK, Requests
    <1>10. CASE Skip
      BY <1>1, <1>10, FollowingType DEF Skip, GoOn, TypeOK, Writes
    <1>11. CASE Ask
      BY <1>1, <1>11, FollowingType, AfterType DEF Ask, GoOn, TypeOK, Writes
    <1>12. CASE AskFails
      <2>1. sensor' = sensor \/ sensor' = After
        BY <1>12 DEF AskFails
      <2>2. request \in Writes /\ Wanted
        BY <1>12 DEF AskFails
      <2>3. sensor' \in [engine : Engines, parts : Parts, enabled : BOOLEAN,
                         scanning : BOOLEAN, outputs : SUBSET Sources]
        BY <1>1, <2>1, <2>2, AfterType DEF TypeOK
      <2> QED
        BY <1>1, <1>2, <1>12, <2>2, <2>3, FollowingType, NothingOK
           DEF AskFails, GoOn, Throw, TypeOK, Writes, Requests
    <1>13. ASSUME NEW r, NEW part \in PartNames, Read(r, part),
                  r \in {"read_scanner", "read_sensor", "read_root"}
           PROVE  TypeOK'
      <2>1. sensor.parts \in Parts
        BY <1>1 DEF TypeOK
      <2>2. ConfigOK(With(config, part, sensor.parts[part]))
        BY <1>1, <2>1, WithOK
      <2> QED
        BY <1>1, <1>2, <1>13, <2>2, FollowingType DEF Read, GoOn, TypeOK
    <1>14. CASE ReadPart
      BY <1>13, <1>14 DEF ReadPart, PartNames
    <1>15. CASE ListTools
      <2>1. sensor.parts \in Parts /\ sensor.parts.tools \in ToolSettings
        BY <1>1 DEF TypeOK, Parts
      <2>2. [sensor.parts EXCEPT !.tools = Nothing] \in Parts
        BY <2>1, NoToolsOK DEF Parts
      <2>3. [sensor.parts EXCEPT !.tools = Nothing]["tools"] = Nothing
        BY <2>1 DEF Parts
      <2>4. ConfigOK(With(config, "tools", Nothing))
        BY <1>1, <2>2, <2>3, WithOK DEF PartNames
      <2>5. DOMAIN sensor.parts.tools \subseteq Tools
        BY <2>1, ToolsOK
      <2> QED
        BY <1>1, <1>2, <1>15, <2>4, <2>5 DEF ListTools, TypeOK, Requests
    <1>16. CASE ReadTool
      <2> DEFINE T(t) == With(config["tools"], t, sensor.parts.tools[t])
      <2>1. PICK t \in left : /\ config' = [config EXCEPT !["tools"] = T(t)]
                              /\ left' = left \ {t}
        BY <1>16 DEF ReadTool
      <2>2. "tools" \in DOMAIN config /\ t \in Tools /\ t \in DOMAIN sensor.parts.tools
        BY <1>1, <1>16 DEF ReadInv, ReadTool, TypeOK
      <2>3. sensor.parts \in Parts /\ sensor.parts.tools \in ToolSettings
        BY <1>1 DEF TypeOK, Parts
      <2>4. sensor.parts.tools[t] \in Values
        BY <2>2, <2>3, ToolsOK
      <2>5. T(t) \in ToolSettings
        BY <1>1, <2>2, <2>4, ConfigType, ToolsOK
      <2> DEFINE p == [sensor.parts EXCEPT !.tools = T(t)]
      <2>6. p \in Parts /\ p["tools"] = T(t)
        BY <2>3, <2>5 DEF Parts
      <2>7. ASSUME NEW part \in DOMAIN config
            PROVE  \E q \in Parts : [config EXCEPT !["tools"] = T(t)][part] = q[part]
        <3> HIDE DEF p
        <3>1. CASE part = "tools"
          BY <2>6, <3>1
        <3>2. CASE part # "tools"
          BY <1>1, <3>2 DEF ConfigOK
        <3> QED
          BY <3>1, <3>2
      <2>8. ConfigOK([config EXCEPT !["tools"] = T(t)])
        BY <1>1, <2>7 DEF ConfigOK
      <2> HIDE DEF T
      <2> QED
        BY <1>1, <1>2, <1>16, <2>1, <2>8 DEF ReadTool, TypeOK
    <1>17. CASE ReadFails
      BY <1>1, <1>2, <1>17, NothingOK DEF ReadFails, Throw, TypeOK, Requests
    <1>18. CASE ApplyTool
      <2>1. PICK t \in left :
              /\ \/ sensor' = sensor
                 \/ /\ t \in DOMAIN sensor.parts.tools
                    /\ sensor' = [sensor EXCEPT !.parts.tools[t] = config["tools"][t]]
              /\ left' = left \ {t}
        BY <1>18 DEF ApplyTool
      <2>2. "tools" \in DOMAIN config /\ op = "apply"
        BY <1>1, <1>18 DEF ApplyTool, ChainInv, ConfigureChain, PrepareChain, ReadChain,
              TypeOK, Asking
      <2>3. config["tools"][t] \in Values
        BY <1>1, <2>2, ConfigType, ToolsOK DEF ReadInv
      <2>4. sensor.parts \in Parts /\ sensor.parts.tools \in ToolSettings
        BY <1>1 DEF TypeOK, Parts
      <2>5. t \in DOMAIN sensor.parts.tools =>
              [sensor.parts.tools EXCEPT ![t] = config["tools"][t]] \in ToolSettings
        BY <2>3, <2>4, ToolsOK
      <2>6. t \in DOMAIN sensor.parts.tools =>
              [sensor.parts EXCEPT !.tools[t] = config["tools"][t]] \in Parts
        BY <2>4, <2>5 DEF Parts
      <2> QED
        BY <1>1, <1>18, <2>1, <2>6 DEF ApplyTool, TypeOK
    <1>19. CASE Return
      BY <1>1, <1>19 DEF Return, TypeOK, Requests
    <1>20. CASE UNCHANGED vars
      BY <1>1, <1>20 DEF vars, TypeOK
    <1> QED
      BY <1>4, <1>5, <1>6, <1>7, <1>8, <1>9, <1>10, <1>11, <1>12, <1>14, <1>15, <1>16,
         <1>17, <1>18, <1>19, <1>20 DEF Next
-----------------------------------------------------------------------------
(* Every step keeps to the chain of its operation.                         *)

\* What a request can be during each operation.
LEMMA RequestIs ==
    ASSUME TypeOK, ChainInv
    PROVE  /\ op \in Asking => request \in {"none", "end", "detect", "stop", "mode",
                                "exposure", "length", "enable", "clear", "add"}
           /\ op = "read" => request \in {"none", "detect", "read_scanner", "read_sensor",
                                "read_root", "list", "read_tools"}
           /\ op = "apply" => request \in {"none", "detect", "scanner", "root", "sensor", "tools"}
           /\ op = "none" => request = "none"
           /\ op \in {"none", "read", "apply"} \cup Asking
    BY DEF TypeOK, ChainInv, Asking, ConfigureChain, PrepareChain, ReadChain, ApplyChain

LEMMA GoOnChain ==
    ASSUME TypeOK, ChainInv, GoOn, op' = op,
           request \notin {"none", "end", "list", "read_tools", "tools"}
    PROVE  ChainInv'
    <1> USE DEF GoOn, ChainInv
    <1>1. CASE op = "configure"
      BY <1>1, FollowingIs DEF ConfigureChain
    <1>2. CASE op \in {"profile", "surface"}
      BY <1>2, FollowingIs DEF PrepareChain
    <1>3. CASE op = "read"
      BY <1>3, FollowingIs DEF ReadChain
    <1>4. CASE op = "apply"
      BY <1>4, FollowingIs DEF ApplyChain
    <1> QED
      BY <1>1, <1>2, <1>3, <1>4 DEF TypeOK, Asking

LEMMA ThrowChain ==
    ASSUME TypeOK, ChainInv, Throw, op' = op, request # "none"
    PROVE  ChainInv'
    BY DEF Throw, ChainInv

LEMMA ChainStep ==
    ASSUME IInv, [Next]_vars
    PROVE  ChainInv'
    <1>1. TypeOK /\ ChainInv
      BY DEF IInv
    <1>2. CASE CallConfigure \/ CallPrepareProfile \/ CallPrepareSurface \/ CallReadAll \/ CallApply
      BY <1>2 DEF CallConfigure, CallPrepareProfile, CallPrepareSurface, CallReadAll, CallApply,
         BeginAsking, Begin, ChainInv, ConfigureChain, PrepareChain, ReadChain, ApplyChain
    <1>3. CASE ConnectOther
      BY <1>1, <1>3 DEF ConnectOther, ChainInv
    <1>4. CASE Detect
      BY <1>1, <1>4, GoOnChain DEF Detect
    <1>5. CASE DetectFails
      BY <1>1, <1>5, GoOnChain, ThrowChain DEF DetectFails
    <1>6. CASE Skip
      BY <1>1, <1>6, GoOnChain DEF Skip, Writes
    <1>7. CASE Ask
      BY <1>1, <1>7, GoOnChain DEF Ask, Writes
    <1>8. CASE AskFails
      <2>1. request \notin {"none", "end", "list", "read_tools", "tools"} /\ op' = op
        BY <1>8 DEF AskFails, Writes
      <2> QED
        BY <1>1, <1>8, <2>1, GoOnChain, ThrowChain DEF AskFails
    <1>9. CASE ReadPart
      BY <1>1, <1>9, GoOnChain DEF ReadPart, Read
    <1>10. CASE ListTools
      BY <1>1, <1>10 DEF ListTools, ChainInv, ConfigureChain, PrepareChain, ReadChain, ApplyChain
    <1>11. CASE ReadTool
      BY <1>1, <1>11 DEF ReadTool, ChainInv
    <1>12. CASE ReadFails
      BY <1>1, <1>12, ThrowChain DEF ReadFails
    <1>13. CASE ApplyTool
      BY <1>1, <1>13 DEF ApplyTool, ChainInv
    <1>14. CASE Return
      BY <1>1, <1>14 DEF Return, ChainInv
    <1>15. CASE UNCHANGED vars
      BY <1>1, <1>15 DEF vars, ChainInv
    <1> QED
      BY <1>2, <1>3, <1>4, <1>5, <1>6, <1>7, <1>8, <1>9, <1>10, <1>11, <1>12, <1>13, <1>14,
         <1>15 DEF Next

-----------------------------------------------------------------------------
(* Reading and writing the tools.                                          *)

LEMMA ReadStep ==
    ASSUME IInv, [Next]_vars
    PROVE  ReadInv'
    <1>1. TypeOK /\ ChainInv /\ ReadInv
      BY DEF IInv
    <1>2. CASE CallConfigure \/ CallPrepareProfile \/ CallPrepareSurface \/ CallReadAll
      BY <1>2 DEF CallConfigure, CallPrepareProfile, CallPrepareSurface, CallReadAll,
         BeginAsking, Begin, ReadInv
    <1>3. CASE CallApply
      <2>1. PICK parts \in SUBSET DOMAIN config : config' = Restrict(config, parts)
        BY <1>3 DEF CallApply
      <2>2. "tools" \in DOMAIN config' => config'["tools"] = config["tools"]
        BY <2>1 DEF Restrict
      <2> QED
        BY <1>3, <2>2 DEF CallApply, Begin, ReadInv
    <1>4. CASE ConnectOther
      BY <1>1, <1>4, RequestIs DEF ConnectOther, ReadInv, ChainInv
    <1>5. ASSUME GoOn, UNCHANGED <<op, left>>, request \notin {"none", "end", "list", "read_tools", "tools"},
                 op # "read" => config' = config
          PROVE  ReadInv'
      <2>1. request' # "read_tools" /\ result' = "none"
        BY <1>1, <1>5, RequestIs, FollowingIs
           DEF GoOn, ChainInv, ConfigureChain, PrepareChain, ReadChain, ApplyChain, Asking
      <2> QED
        BY <1>1, <1>5, <2>1 DEF ReadInv
    <1>6. ASSUME Throw
          PROVE  ReadInv'
      BY <1>6 DEF Throw, ReadInv, Nothing
    <1>7. CASE Detect
      BY <1>5, <1>7 DEF Detect
    <1>8. CASE DetectFails
      BY <1>5, <1>6, <1>8 DEF DetectFails
    <1>9. CASE Skip
      BY <1>5, <1>9 DEF Skip, Writes
    <1>10. CASE Ask
      BY <1>5, <1>10 DEF Ask, Writes
    <1>11. CASE AskFails
      <2>1. request \notin {"none", "end", "list", "read_tools", "tools"} /\ op' = op
        BY <1>11 DEF AskFails, Writes
      <2> QED
        BY <1>5, <1>6, <1>11, <2>1 DEF AskFails
    <1>12. CASE ReadPart
      <2>1. op = "read"
        BY <1>1, <1>12, RequestIs DEF ReadPart, Read
      <2> QED
        BY <1>5, <1>12, <2>1 DEF ReadPart, Read
    <1>13. CASE ListTools
      <2>1. op = "read" /\ result = "none"
        BY <1>1, <1>13, RequestIs DEF ListTools, ChainInv
      <2> QED
        BY <1>13, <2>1 DEF ListTools, ReadInv, With
    <1>14. CASE ReadTool
      <2>1. op = "read" /\ result = "none"
        BY <1>1, <1>14, RequestIs DEF ReadTool, ChainInv
      <2>2. DOMAIN config' = DOMAIN config /\ left' \subseteq left
        BY <1>14 DEF ReadTool
      <2> QED
        BY <1>1, <1>14, <2>1, <2>2 DEF ReadTool, ReadInv
    <1>15. CASE ReadFails
      BY <1>6, <1>15 DEF ReadFails
    <1>16. CASE ApplyTool
      <2>1. left' \subseteq left
        BY <1>16 DEF ApplyTool
      <2> QED
        BY <1>1, <1>16, <2>1, RequestIs DEF ApplyTool, ReadInv
    <1>17. CASE Return
      BY <1>1, <1>17, RequestIs DEF Return, ReadInv
    <1>18. CASE UNCHANGED vars
      BY <1>1, <1>18 DEF vars, ReadInv
    <1> QED
      BY <1>2, <1>3, <1>4, <1>7, <1>8, <1>9, <1>10, <1>11, <1>12, <1>13, <1>14, <1>15, <1>16,
         <1>17, <1>18 DEF Next
-----------------------------------------------------------------------------
(* What the requests of configure() and of the prepare operations have set. *)

\* The steps that these operations can take once they have been called.
LEMMA AskingSteps ==
    ASSUME IInv, [Next]_vars, op' \in Asking
    PROVE  \/ /\ request' \in {"detect", "stop"} /\ result' = "none"
           \/ Detect \/ DetectFails \/ Ask \/ AskFails
           \/ Return /\ request = "end"
           \/ UNCHANGED vars
    <1>1. TypeOK /\ ChainInv
      BY DEF IInv
    <1>2. CASE op \in Asking /\ op' = op
      BY <1>1, <1>2, RequestIs
         DEF Next, CallConfigure, CallPrepareProfile, CallPrepareSurface, CallReadAll, CallApply,
             BeginAsking, Begin, ConnectOther, Skip, Wanted, PartNames, ReadPart, Read, ListTools,
             ReadTool, ReadFails, ApplyTool, Return, Asking
    <1>3. CASE op \notin Asking \/ op' # op
      BY <1>1, <1>3, RequestIs
         DEF Next, CallConfigure, CallPrepareProfile, CallPrepareSurface, CallReadAll, CallApply,
             BeginAsking, Begin, ConnectOther, Skip, Wanted, PartNames, ReadPart, Read, ListTools,
             ReadTool, ReadFails, ApplyTool, Return, Asking, Detect, DetectFails, Ask, AskFails, vars
    <1> QED
      BY <1>2, <1>3

\* The request that follows one of theirs.
LEMMA AskingFollowing ==
    ASSUME TypeOK, ChainInv, op \in Asking, request \notin {"none", "end"}
    PROVE  /\ request = "stop" => Following = "detect"
           /\ request = "detect" => Following = "mode"
           /\ Following = "exposure" => request = "mode"
           /\ Following = "length" => request = "exposure"
           /\ op = "configure" /\ Following = "enable" => request = "length"
           /\ op # "configure" /\ Following = "enable" => request = "mode"
           /\ Following = "clear" => request = "enable"
           /\ Following = "add" => request = "clear"
           /\ Following = "end" => request = "add"
    BY RequestIs, FollowingIs DEF ChainInv, ConfigureChain, PrepareChain, Asking

LEMMA FoundStep ==
    ASSUME IInv, [Next]_vars
    PROVE  FoundInv'
    <1>1. TypeOK /\ ChainInv /\ FoundInv
      BY DEF IInv
    <1>2. SUFFICES ASSUME op' \in Asking,
                          request' \in {"exposure", "length", "enable", "clear", "add"}
                   PROVE  found' = sensor'.engine
      BY DEF FoundInv
    <1>3. CASE Detect \/ DetectFails
      BY <1>1, <1>2, <1>3, AskingFollowing DEF Detect, DetectFails, GoOn, Throw
    <1>4. ASSUME request \in Writes, GoOn, UNCHANGED <<op, found>>,
                 sensor' = sensor \/ sensor' = After,
                 request = "mode" => Addressed
          PROVE  found' = sensor'.engine
      <2>1. found = sensor.engine
        BY <1>1, <1>2, <1>4, RequestIs, AskingFollowing
           DEF GoOn, FoundInv, Writes, Addressed, ToScanner
      <2>2. After.engine = sensor.engine
        BY DEF After
      <2>3. sensor'.engine = sensor.engine
        BY <1>4, <2>2
      <2> QED
        BY <1>4, <2>1, <2>3
    <1>5. CASE Ask
      BY <1>4, <1>5 DEF Ask
    <1>6. CASE AskFails
      <2>1. request # "mode" \/ Throw
        BY <1>1, <1>2, <1>6 DEF AskFails, Ignored, Asking
      <2> QED
        BY <1>2, <1>4, <1>6, <2>1 DEF AskFails, Throw
    <1>7. CASE UNCHANGED vars
      BY <1>1, <1>2, <1>7 DEF vars, FoundInv
    <1> QED
      BY <1>2, <1>3, <1>5, <1>6, <1>7, AskingSteps DEF Return

LEMMA AskedStep ==
    ASSUME IInv, [Next]_vars
    PROVE  AskedInv'
    <1>1. TypeOK /\ ChainInv /\ AskedInv
      BY DEF IInv
    <1>2. SUFFICES ASSUME op' \in Asking,
                          request' \in {"exposure", "length", "enable", "clear", "add"}
                   PROVE  AskedInv'
      BY DEF AskedInv, Asking
    <1>3. CASE Detect \/ DetectFails
      BY <1>1, <1>2, <1>3, AskingFollowing DEF Detect, DetectFails, GoOn, Throw
    <1>4. CASE Ask
      <2>1. sensor' = After /\ request' = Following /\ request \in Writes
        BY <1>4 DEF Ask, GoOn
      <2>2. op' = op /\ asked' = asked /\ op \in Asking
        BY <1>2, <1>4 DEF Ask
      <2>3. request \notin {"none", "end", "scanner", "root", "sensor", "stop", "detect"}
        BY <1>1, <1>2, <2>1, <2>2, RequestIs, AskingFollowing DEF Writes
      <2>4. /\ sensor'.parts.scanner.scanMode =
                 IF request = "mode" THEN asked.kind ELSE sensor.parts.scanner.scanMode
            /\ sensor'.parts.scanner.length =
                 IF request = "length" THEN asked.length ELSE sensor.parts.scanner.length
            /\ sensor'.parts.sensor =
                 IF request = "exposure" THEN asked.exposure ELSE sensor.parts.sensor
            /\ sensor'.enabled = IF request = "enable" THEN TRUE ELSE sensor.enabled
        BY <2>1, <2>3 DEF After, ScannerAfter, SensorAfter
      <2>5. request \in {"mode", "exposure", "length", "enable", "clear", "add"}
        BY <1>1, <2>2, <2>3, RequestIs
      <2>6. op = "configure" \/ op \in {"profile", "surface"}
        BY <2>2 DEF Asking
      <2>7. CASE op = "configure"
        BY <1>1, <2>1, <2>2, <2>4, <2>5, <2>7, FollowingIs DEF AskedInv, ConfigureChain
      <2>8. CASE op \in {"profile", "surface"}
        BY <1>1, <2>1, <2>2, <2>4, <2>5, <2>8, FollowingIs, RequestIs
           DEF AskedInv, PrepareChain, ChainInv
      <2> QED
        BY <2>6, <2>7, <2>8
    <1>5. CASE AskFails
      <2>1. GoOn /\ op = "configure" /\ request = "clear"
        BY <1>1, <1>2, <1>5, AskingFollowing DEF AskFails, Ignored, Asking, Throw, GoOn
      <2>2. /\ After.parts.scanner = [scanMode |-> sensor.parts.scanner.scanMode,
                                       length |-> sensor.parts.scanner.length]
            /\ After.parts.sensor = sensor.parts.sensor
            /\ After.enabled = sensor.enabled
        BY <2>1 DEF After, ScannerAfter, SensorAfter
      <2>3. request' = "add"
        BY <2>1, FollowingIs DEF GoOn, ConfigureChain
      <2>4. sensor' = sensor \/ sensor' = After
        BY <1>5 DEF AskFails
      <2>5. /\ sensor'.parts.scanner.scanMode = sensor.parts.scanner.scanMode
            /\ sensor'.parts.scanner.length = sensor.parts.scanner.length
            /\ sensor'.parts.sensor = sensor.parts.sensor
            /\ sensor'.enabled = sensor.enabled
        BY <2>2, <2>4
      <2> QED
        BY <1>1, <1>2, <1>5, <2>1, <2>3, <2>5 DEF AskFails, AskedInv
    <1>6. CASE UNCHANGED vars
      BY <1>1, <1>6 DEF vars, AskedInv
    <1> QED
      BY <1>2, <1>3, <1>4, <1>5, <1>6, AskingSteps DEF Return
LEMMA OutputStep ==
    ASSUME IInv, [Next]_vars
    PROVE  OutputInv'
    <1>1. TypeOK /\ ChainInv /\ OutputInv
      BY DEF IInv
    <1>2. SUFFICES ASSUME op' \in {"profile", "surface"},
                          request' \in {"add", "end"} \/ result' = "done"
                   PROVE  /\ request' = "add" => sensor'.outputs = {}
                          /\ request' = "end" \/ result' = "done" => sensor'.outputs = {Chosen'}
      BY DEF OutputInv
    <1>3. CASE Detect \/ DetectFails
      <2>1. op = op' /\ (Throw \/ (request' = "mode" /\ result' = "none"))
        BY <1>1, <1>2, <1>3, AskingFollowing DEF Detect, DetectFails, GoOn, ChainInv, Asking
      <2> QED
        BY <1>2, <2>1 DEF Throw
    <1>4. CASE Ask
      <2>1. /\ sensor' = After /\ request' = Following /\ request \in Writes
            /\ UNCHANGED <<op, found, asked>> /\ result' = "none"
        BY <1>4 DEF Ask, GoOn, ChainInv, IInv, Writes
      <2>2. Chosen' = Chosen
        BY <2>1 DEF Chosen, SourceFor, Replaced
      <2>3. After.outputs = OutputsAfter
        BY DEF After
      <2>4. CASE request' = "add"
        <3>1. request = "clear"
          BY <1>1, <1>2, <2>1, <2>4, AskingFollowing DEF Writes, Asking
        <3> QED
          BY <2>1, <2>3, <2>4, <3>1 DEF OutputsAfter
      <2>5. CASE request' = "end"
        <3>1. request = "add"
          BY <1>1, <1>2, <2>1, <2>5, AskingFollowing DEF Writes, Asking
        <3>2. sensor.outputs = {}
          BY <1>1, <1>2, <2>1, <3>1 DEF OutputInv
        <3> QED
          BY <2>1, <2>2, <2>3, <2>5, <3>1, <3>2 DEF OutputsAfter
      <2> QED
        BY <1>2, <2>1, <2>4, <2>5
    <1>5. CASE AskFails
      <2>1. op' = op /\ (Throw \/ (request = "stop" /\ GoOn))
        BY <1>2, <1>5 DEF AskFails, Ignored
      <2>2. request = "stop" => Following = "detect" /\ result = "none"
        BY <1>1, <1>2, <2>1, AskingFollowing DEF Asking, ChainInv
      <2> QED
        BY <1>2, <2>1, <2>2 DEF Throw, GoOn
    <1>6. CASE Return /\ request = "end"
      <2>1. UNCHANGED <<sensor, op, asked, found>> /\ request' = "none"
        BY <1>6 DEF Return
      <2>2. Chosen' = Chosen
        BY <2>1 DEF Chosen, SourceFor, Replaced
      <2> QED
        BY <1>1, <1>2, <1>6, <2>1, <2>2 DEF OutputInv
    <1>7. CASE UNCHANGED vars
      <2>1. Chosen' = Chosen
        BY <1>7 DEF vars, Chosen, SourceFor, Replaced
      <2> QED
        BY <1>1, <1>2, <1>7, <2>1 DEF vars, OutputInv
    <1> QED
      BY <1>2, <1>3, <1>4, <1>5, <1>6, <1>7, AskingSteps DEF Asking

-----------------------------------------------------------------------------
(* What applyConfig() has applied.                                         *)

\* The steps that applyConfig() can take once it has been called.
LEMMA ApplySteps ==
    ASSUME IInv, [Next]_vars, op' = "apply"
    PROVE  \/ request' = "detect" /\ result' = "none"
           \/ /\ op = "apply"
              /\ \/ Detect \/ DetectFails \/ Skip \/ Ask \/ AskFails \/ ApplyTool
                 \/ Return /\ request = "tools"
                 \/ UNCHANGED vars
    <1>1. TypeOK /\ ChainInv
      BY DEF IInv
    <1>2. CASE op = "apply"
      BY <1>1, <1>2, RequestIs
         DEF Next, CallConfigure, CallPrepareProfile, CallPrepareSurface, CallReadAll, CallApply,
             BeginAsking, Begin, ConnectOther, ReadPart, Read, ListTools,
             ReadTool, ReadFails, Return
    <1>3. CASE op # "apply"
      BY <1>1, <1>3
         DEF Next, CallConfigure, CallPrepareProfile, CallPrepareSurface, CallReadAll, CallApply,
             BeginAsking, Begin, ConnectOther, Skip, ReadPart, Read, ListTools,
             ReadTool, ReadFails, ApplyTool, Return, Detect, DetectFails, Ask, AskFails, vars
    <1> QED
      BY <1>2, <1>3

LEMMA AppliedStep ==
    ASSUME IInv, [Next]_vars
    PROVE  AppliedInv'
    <1>1. TypeOK /\ ChainInv /\ AppliedInv
      BY DEF IInv
    <1>2. SUFFICES ASSUME op' = "apply", request' # "detect"
                   PROVE  AppliedInv'
      BY <1>1, ChainStep DEF AppliedInv, ChainInv
    <1>3. CASE op = "apply" /\ (Detect \/ DetectFails)
      <2>1. Throw \/ (request' = "scanner" /\ result' = "none")
        BY <1>1, <1>2, <1>3, FollowingIs DEF Detect, DetectFails, GoOn, ChainInv, ApplyChain
      <2> QED
        BY <1>2, <2>1 DEF Throw, AppliedInv
    <1>4. CASE op = "apply" /\ Skip
      <2>1. /\ request \in {"scanner", "root", "sensor"} /\ request \notin DOMAIN config
            /\ UNCHANGED <<sensor, config>> /\ request' = ApplyChain[request] /\ result' = "none"
        BY <1>1, <1>4, FollowingIs, RequestIs DEF Skip, Wanted, PartNames, GoOn, ChainInv, Writes
      <2> QED
        BY <1>1, <1>2, <1>4, <2>1 DEF AppliedInv, ApplyChain
    <1>5. CASE op = "apply" /\ Ask
      <2>1. /\ request \in {"scanner", "root", "sensor"} /\ sensor' = After
            /\ UNCHANGED config /\ request' = ApplyChain[request] /\ result' = "none"
        BY <1>1, <1>5, FollowingIs, RequestIs DEF Ask, GoOn, ChainInv, Writes
      <2>2. /\ After.parts.root = IF request = "root" THEN config["root"] ELSE sensor.parts.root
            /\ After.parts.sensor = IF request = "sensor" THEN config["sensor"] ELSE sensor.parts.sensor
            /\ After.parts.scanner = IF request = "scanner" THEN config["scanner"]
                                     ELSE [scanMode |-> sensor.parts.scanner.scanMode,
                                           length |-> sensor.parts.scanner.length]
        BY <2>1 DEF After, SensorAfter, ScannerAfter
      <2>3. sensor.parts.scanner \in [scanMode : Kinds, length : Values]
        BY <1>1 DEF TypeOK, Parts
      <2>4. [scanMode |-> sensor.parts.scanner.scanMode,
             length |-> sensor.parts.scanner.length] = sensor.parts.scanner
        BY <2>3
      <2> QED
        BY <1>1, <1>2, <1>5, <2>1, <2>2, <2>4 DEF AppliedInv, ApplyChain
    <1>6. CASE op = "apply" /\ AskFails
      <2>1. Throw
        BY <1>6 DEF AskFails, Ignored
      <2> QED
        BY <1>2, <2>1 DEF Throw, AppliedInv
    <1>7. CASE op = "apply" /\ ApplyTool
      <2>1. sensor'.parts.scanner = sensor.parts.scanner /\ sensor'.parts.root = sensor.parts.root
               /\ sensor'.parts.sensor = sensor.parts.sensor
        BY <1>1, <1>7 DEF ApplyTool, TypeOK, Parts
      <2> QED
        BY <1>1, <1>2, <1>7, <2>1 DEF ApplyTool, AppliedInv
    <1>8. CASE op = "apply" /\ Return /\ request = "tools"
      BY <1>1, <1>2, <1>8 DEF Return, AppliedInv
    <1>9. CASE UNCHANGED vars
      BY <1>1, <1>2, <1>9 DEF vars, AppliedInv
    <1> QED
      BY <1>2, <1>3, <1>4, <1>5, <1>6, <1>7, <1>8, <1>9, ApplySteps

-----------------------------------------------------------------------------
LEMMA Invariance == Spec => []IInv
    <1>1. Init => IInv
      <2>1. ASSUME Init
            PROVE  TypeOK
        BY <2>1, SettingsAssumption DEF Init, Sensors, TypeOK, Nothing, Requests, Asking
      <2>2. ASSUME Init
            PROVE  ChainInv /\ ReadInv /\ FoundInv /\ AskedInv /\ OutputInv /\ AppliedInv
        BY <2>2 DEF Init, ChainInv, ReadInv, FoundInv, AskedInv, OutputInv, AppliedInv, Asking
      <2> QED
        BY <2>1, <2>2 DEF IInv
    <1>2. IInv /\ [Next]_vars => IInv'
      <2> SUFFICES ASSUME IInv, [Next]_vars
                   PROVE  IInv'
        OBVIOUS
      <2>1. TypeOK' /\ ChainInv' /\ ReadInv'
        BY TypeStep, ChainStep, ReadStep
      <2>2. FoundInv' /\ AskedInv' /\ OutputInv' /\ AppliedInv'
        BY FoundStep, AskedStep, OutputStep, AppliedStep
      <2> QED
        BY <2>1, <2>2 DEF IInv
    <1> QED
      BY <1>1, <1>2, PTL DEF Spec
\* Whatever fails on the way, the sensor, the engine that was found and the
\* parameter set keep their types (Gocator.cpp:88, GocatorSettingsManager.cpp:113).
THEOREM TypeCorrect == Spec => []TypeOK
    <1>1. IInv => TypeOK
      BY DEF IInv
    <1> QED
      BY <1>1, Invariance, PTL

\* prepareProfileOutput() and prepareSurfaceOutput() that return leave the output
\* which they chose as the only one (GocatorSettingsManager.cpp:233-262).
THEOREM PreparedAlone == Spec => []PreparedMeansOnlyOutput
    <1>1. IInv => PreparedMeansOnlyOutput
      BY DEF IInv, OutputInv, PreparedMeansOnlyOutput
    <1> QED
      BY <1>1, Invariance, PTL

\* applyConfig() that returns has applied every part that the set has, but for the
\* tools (GocatorSettingsManager.cpp:367-407).
THEOREM AppliedWhole == Spec => []AppliedIsTheConfig
    <1>1. IInv => AppliedIsTheConfig
      BY DEF IInv, AppliedInv, TypeOK, PartNames, AppliedIsTheConfig
    <1> QED
      BY <1>1, Invariance, PTL

\* Only the request to add an output adds one, the one that was chosen.
LEMMA AddedBy ==
    ASSUME IInv, [Next]_vars, request # "none", Added # {}
    PROVE  request = "add" /\ op \in Asking /\ sensor' = After /\ Added \subseteq {Chosen}
    <1>1. TypeOK /\ ChainInv
      BY DEF IInv
    <1>2. sensor'.outputs # sensor.outputs
      BY DEF Added
    <1>3. Ask \/ AskFails
      <2>1. ApplyTool => sensor'.outputs = sensor.outputs
        BY <1>1 DEF ApplyTool, TypeOK
      <2>2. ~ConnectOther
        BY <1>1 DEF ConnectOther, ChainInv
      <2> QED
        BY <1>2, <2>1, <2>2
           DEF Next, CallConfigure, CallPrepareProfile, CallPrepareSurface, CallReadAll, CallApply,
               BeginAsking, Begin, Detect, DetectFails, Skip, ReadPart, Read, ListTools,
               ReadTool, ReadFails, Return, vars
    <1>4. sensor' = After
      BY <1>2, <1>3 DEF Ask, AskFails
    <1>5. sensor'.outputs = OutputsAfter
      BY <1>4 DEF After
    <1>6. request = "add" /\ Added \subseteq {Chosen}
      BY <1>5 DEF OutputsAfter, Added
    <1> QED
      BY <1>1, <1>4, <1>6, RequestIs DEF Asking

\* A failure on the way leaves no output that delivers data of another scan mode,
\* exposure or length than was asked for (Gocator.cpp:294,
\* GocatorSettingsManager.cpp:233).
THEOREM OutputLast == Spec => OutputComesLast
    <1>1. ASSUME IInv, [Next]_vars, request = "add", Added # {}
          PROVE  /\ sensor'.parts.scanner.scanMode = asked.kind
                 /\ sensor'.enabled
                 /\ op = "configure" =>
                      /\ sensor'.parts.sensor = asked.exposure
                      /\ sensor'.parts.scanner.length = asked.length
      <2>1. sensor' = After /\ op \in Asking /\ AskedInv
        BY <1>1, AddedBy DEF IInv
      <2>2. /\ After.parts.scanner.scanMode = sensor.parts.scanner.scanMode
            /\ After.parts.scanner.length = sensor.parts.scanner.length
            /\ After.parts.sensor = sensor.parts.sensor
            /\ After.enabled = sensor.enabled
        BY <1>1 DEF After, ScannerAfter, SensorAfter
      <2> QED
        BY <1>1, <2>1, <2>2 DEF AskedInv
    <1> QED
      BY <1>1, Invariance, PTL DEF Spec, OutputComesLast

\* The output that is added is a source of the sensor's own engine, even when the
\* engine was only assumed (Gocator.cpp:100).
THEOREM AddedOfEngine == Spec => AddedIsOfTheEngine
    <1>1. ASSUME IInv, [Next]_vars, op # "surface", request # "none", NEW source \in Added
          PROVE  /\ source.engine = sensor.engine
                 /\ source.layer = (sensor.engine = Confocal)
      <2>1. request = "add" /\ op \in Asking /\ source = Chosen
        BY <1>1, AddedBy
      <2>2. found = sensor.engine
        BY <1>1, <2>1 DEF IInv, FoundInv
      <2>3. \E kind \in Kinds \cup {asked.kind} : source = SourceFor(found, kind)
        BY <1>1, <2>1 DEF Chosen, Asking, Kinds
      <2> QED
        BY <2>2, <2>3 DEF SourceFor
    <1>2. IInv /\ [Next]_vars =>
            (op # "surface" /\ request # "none" =>
               \A source \in Added :
                  /\ source.engine = sensor.engine
                  /\ source.layer = (sensor.engine = Confocal))
      BY <1>1
    <1> QED
      BY <1>2, Invariance, PTL DEF Spec, AddedIsOfTheEngine

\* applyConfig() that fails has applied a beginning of the set and nothing of its
\* end (GocatorSettingsManager.cpp:367-407).
THEOREM InOrder == Spec => AppliedInOrder
    <1>1. ASSUME IInv, [Next]_vars, op = "apply", request # "none"
          PROVE  \/ /\ sensor'.parts.sensor = sensor.parts.sensor
                    /\ sensor'.parts.tools = sensor.parts.tools
                 \/ \A part \in {"scanner", "root"} \cap DOMAIN config :
                       sensor'.parts[part] = config[part]
      <2>1. TypeOK /\ ChainInv /\ AppliedInv
        BY <1>1 DEF IInv
      <2>2. Ask \/ AskFails \/ ApplyTool \/ sensor' = sensor
        BY <1>1
           DEF Next, CallConfigure, CallPrepareProfile, CallPrepareSurface, CallReadAll, CallApply,
               BeginAsking, Begin, ConnectOther, Detect, DetectFails, Skip, ReadPart, Read,
               ListTools, ReadTool, ReadFails, Return, vars
      <2>3. CASE sensor' = After /\ request \in Writes
        <3>1. request \in {"scanner", "root", "sensor"}
          BY <1>1, <2>1, <2>3, RequestIs DEF Writes
        <3>2. CASE request \in {"scanner", "root"}
          BY <2>3, <3>2 DEF After, SensorAfter
        <3>3. CASE request = "sensor"
          <4>1. /\ After.parts.root = sensor.parts.root
                /\ After.parts.scanner = [scanMode |-> sensor.parts.scanner.scanMode,
                                          length |-> sensor.parts.scanner.length]
            BY <3>3 DEF After, ScannerAfter
          <4>2. sensor.parts.scanner \in [scanMode : Kinds, length : Values]
            BY <2>1 DEF TypeOK, Parts
          <4>3. [scanMode |-> sensor.parts.scanner.scanMode,
                 length |-> sensor.parts.scanner.length] = sensor.parts.scanner
            BY <4>2
          <4> QED
            BY <1>1, <2>1, <2>3, <3>3, <4>1, <4>3 DEF AppliedInv
        <3> QED
          BY <3>1, <3>2, <3>3
      <2>4. CASE ApplyTool
        <3>1. sensor'.parts.scanner = sensor.parts.scanner /\ sensor'.parts.root = sensor.parts.root
          BY <2>1, <2>4 DEF ApplyTool, TypeOK, Parts
        <3> QED
          BY <1>1, <2>1, <2>4, <3>1 DEF ApplyTool, AppliedInv
      <2> QED
        BY <2>2, <2>3, <2>4 DEF Ask, AskFails
    <1>2. IInv /\ [Next]_vars =>
            (op = "apply" /\ request # "none" =>
               \/ /\ sensor'.parts.sensor = sensor.parts.sensor
                  /\ sensor'.parts.tools = sensor.parts.tools
               \/ \A part \in {"scanner", "root"} \cap DOMAIN config :
                     sensor'.parts[part] = config[part])
      BY <1>1
    <1> QED
      BY <1>2, Invariance, PTL DEF Spec, AppliedInOrder
=============================================================================
