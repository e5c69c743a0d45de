--------------------------- MODULE SourceMapSetup ---------------------------
(***************************************************************************)
(* `autter-runtime sourcemaps setup' (runtime-cli setup.ts, setup-edit.ts,   *)
(* setup-detect.ts): one run reads the project, plans its edits and writes   *)
(* them file by file.  It may be killed between two writes, its install may  *)
(* fail, and it is run again, by hand or by an agent, as often as wanted;    *)
(* in between a developer does what it left to do.                           *)
(***************************************************************************)
EXTENDS Naturals, Sequences, SequencesExt

CONSTANTS
    Tool,           \* build tools, of the kinds below
    MaxSetups       \* bound: runs

ASSUME SetupAssumption ==
    /\ Tool \subseteq {"vite", "nuxt", "next", "webpack", "cra", "angular", "esbuild", "unknown"}
    /\ MaxSetups \in Nat

VARIABLES
    tool,
    project,        \* what the files say, by the facts setup tells apart
    setup,          \* the run: stage, planned files still to write, what is left by hand
    setups

setupVars == <<tool, project, setup, setups>>

PluginTool(t) == t \in {"vite", "nuxt", "next", "webpack"}

(* config: there is none, or it can be edited, is of a shape setup does not  *)
(* know, imports the plugin unused or (Next) wraps it in another wrapper.    *)
(* plugins, steps: calls of the plugin in it, upload steps of the build;     *)
(* named: another script injects, or uploads, without the build doing so.   *)
(* maps is the setting the build uses, read how setup reads it: its value,  *)
(* the default in place of an expression, or nothing (no object is found,   *)
(* the file does not parse, esbuild is not run by the script).              *)
ProjectType ==
    [dep : {"none", "old", "new"}, installed : {"none", "old", "new"}, build : BOOLEAN, steps : 0 .. 2,
     named : BOOLEAN, read : {"value", "default", "unknown"},
     config : {"none", "editable", "opaque", "imported", "inner"}, plugins : 0 .. 2,
     maps : {"off", "offInScript", "default", "on", "inline"}, release : BOOLEAN]

IdleSetup == [st |-> "idle", files |-> <<>>, todo |-> {}, install |-> FALSE, dry |-> FALSE, exit |-> 0]

(* Which settings a build tool can have, and how they may read. *)
MapsOf(t) ==
    CASE t = "next" -> {"default", "on"}
      [] t = "cra" -> {"off", "offInScript", "default"}
      [] t = "angular" -> {"off", "default", "on"}
      [] t = "esbuild" -> {"off", "on", "inline"}
      [] t = "unknown" -> {"default"}
      [] OTHER -> {"off", "default", "on", "inline"}

ReadingsOf(t) ==
    CASE t \in {"next", "cra"} -> {"value"}
      [] t \in {"angular", "esbuild", "unknown"} -> {"value", "unknown"}
      [] OTHER -> {"value", "default", "unknown"}

SetupInit ==
    /\ tool \in Tool
    /\ project \in {p \in ProjectType :
            /\ p.maps \in MapsOf(tool) /\ p.read \in ReadingsOf(tool)
            /\ p.steps <= 1 /\ (PluginTool(tool) => p.steps = 0 /\ ~p.named)
            /\ p.plugins \in CASE p.config = "inner" -> {1}
                               [] p.config \in {"none", "imported"} -> {0}
                               [] OTHER -> {0, 1}
            /\ p.config = "inner" => tool = "next"
            /\ ~PluginTool(tool) => p.config = "none"
            /\ p.config = "none" => ~PluginTool(tool) \/ (p.maps = "default" /\ p.read = "value")
            /\ p.config = "editable" => p.read # "unknown"
            /\ p.installed # "none" => p.installed = p.dep}
    /\ setup = IdleSetup /\ setups = 0

-----------------------------------------------------------------------------
(* The dependency is added, or raised if the CLI it allows is too old.       *)
DependencyChanges(p) == p.dep # "new"

(* addScript() leaves a project alone in which any script names inject or    *)
(* upload, and needs a build script and the directory the build writes.      *)
HasStep(p) == p.steps > 0 \/ p.named
OutputKnown(p) == ~(tool \in {"angular", "unknown"} /\ p.read = "unknown")
AddsScript(p) == p.build /\ ~HasStep(p) /\ OutputKnown(p)

(* outputFacts(): the setting setup goes by.                                 *)
SettingRead(p) == IF p.read = "value" THEN p.maps ELSE p.read

(* calls(): the plugin is called in the config.                              *)
Uses(p) == p.plugins > 0

(* addBundlerPlugin(), wrapNextConfig() and the missing configs: what        *)
(* becomes of the config.  A call anywhere will do, but for Next the         *)
(* outermost of an export that is found.                                     *)
PluginEdit(p) ==
    IF p.config = "none" THEN IF tool \in {"vite", "next"} THEN "created" ELSE "manual"
    ELSE IF Uses(p) THEN IF tool = "next" /\ p.config # "editable" THEN "manual" ELSE "already"
    ELSE IF p.config \in {"opaque", "imported"} THEN "manual"
    ELSE "edited"

(* Which runs write source map settings, where setup knows the file.         *)
TurnsMapsOn(p) ==
    \/ tool = "cra" /\ p.maps = "off"
    \/ tool = "angular" /\ SettingRead(p) \in {"off", "default"}

(* Settings known to leave no map file to upload, or not known where a plugin *)
(* does not set them, and that only a person edits.                          *)
MapsLeft(p) ==
    \/ tool = "cra" /\ p.maps = "offInScript"
    \/ tool = "esbuild" /\ SettingRead(p) \in {"off", "unknown", "inline"}
    \/ tool = "angular" /\ p.read = "unknown"
    \/ tool \in {"vite", "nuxt", "webpack"} /\ p.config # "none" /\ SettingRead(p) = "inline"

(* No build tool and no build script: nothing is written at all.             *)
NothingToWire(p) == tool = "unknown" /\ ~p.build

(* The manual actions.                                                       *)
Todo(p) ==
    {a \in {"plugin", "script", "maps", "release", "tool"} :
        CASE a = "plugin" -> PluginTool(tool) /\ PluginEdit(p) = "manual"
          [] a = "script" -> tool \in {"cra", "angular", "esbuild"} /\ ~HasStep(p) /\ ~AddsScript(p)
          [] a = "maps" -> MapsLeft(p)
          [] a = "release" -> ~p.release /\ ~NothingToWire(p)
          [] a = "tool" -> tool = "unknown"}

(* Mutant of Integrates: only a run that adds the dependency integrates it.  *)
IntegratesOnce(p) == DependencyChanges(p)

(* Every run plans the integration, whatever an earlier one wrote.           *)
Integrates(p) == ~NothingToWire(p)

(* The files to write, in order, each with the facts it changes.             *)
Package(p) ==
    LET scripts == ~PluginTool(tool) /\ Integrates(p) /\ AddsScript(p) IN
    IF NothingToWire(p) \/ ~(DependencyChanges(p) \/ scripts) THEN <<>>
    ELSE <<[dep |-> "new", steps |-> IF scripts THEN p.steps + 1 ELSE p.steps]>>
ConfigFile(p) ==
    IF ~(PluginTool(tool) /\ Integrates(p)) THEN <<>>
    ELSE IF PluginEdit(p) = "created" THEN <<[config |-> "editable", plugins |-> 1]>>
    ELSE IF PluginEdit(p) = "edited" THEN <<[plugins |-> p.plugins + 1]>>
    ELSE <<>>
MapsFile(p) == IF Integrates(p) /\ TurnsMapsOn(p) THEN <<[maps |-> "on"]>> ELSE <<>>
Planned(p) == Package(p) \o ConfigFile(p) \o MapsFile(p)

(* detect() and the plan, in one synchronous call; --dry-run plans only.     *)
RunSetup(dry, install) ==
    /\ setup.st \in {"idle", "over"} /\ setups < MaxSetups /\ setups' = setups + 1
    /\ setup' = [st |-> "writing", files |-> IF dry THEN <<>> ELSE Planned(project), todo |-> Todo(project),
                 install |-> ~dry /\ install /\ ~NothingToWire(project)
                                /\ (DependencyChanges(project) \/ project.installed = "none"),
                 dry |-> dry, exit |-> 0]
    /\ UNCHANGED <<tool, project>>

WriteFile ==
    /\ setup.st = "writing" /\ setup.files # <<>>
    /\ LET file == Head(setup.files) IN
       project' = [f \in DOMAIN project |-> IF f \in DOMAIN file THEN file[f] ELSE project[f]]
    /\ setup' = [setup EXCEPT !.files = Tail(@)]
    /\ UNCHANGED <<tool, setups>>

Killed ==
    /\ setup.st = "writing"
    /\ setup' = IdleSetup /\ UNCHANGED <<tool, project, setups>>

(* The package manager installs, or fails and the run throws (exit 1).       *)
Install ==
    /\ setup.st = "writing" /\ setup.files = <<>> /\ setup.install
    /\ \/ /\ project' = [project EXCEPT !.installed = project.dep]
          /\ setup' = [setup EXCEPT !.install = FALSE]
       \/ setup' = [setup EXCEPT !.st = "over", !.exit = 1] /\ UNCHANGED project
    /\ UNCHANGED <<tool, setups>>

Finish ==
    /\ setup.st = "writing" /\ setup.files = <<>> /\ ~setup.install
    /\ setup' = [setup EXCEPT !.st = "over", !.exit = IF setup.todo # {} THEN 2 ELSE 0]
    /\ UNCHANGED <<tool, project, setups>>

(* A developer does a manual action, as it was printed.  A config of a shape  *)
(* setup does not know keeps it (a Next export may be given another), and a   *)
(* setting it cannot read may be made a value.                               *)
ConfigByHand(p) ==
    IF p.config # "opaque" THEN {"editable"}
    ELSE IF tool = "next" THEN {"opaque", "editable"} ELSE {"opaque"}
DoByHand(a) ==
    /\ setup.st = "over" /\ a \in setup.todo \ {"tool"}
    /\ \/ a = "plugin" /\ \E c \in ConfigByHand(project) :
              project' = [project EXCEPT !.config = c, !.plugins = 1]
       \/ a = "script" /\ project' = [project EXCEPT !.build = TRUE, !.steps = 1]
       \/ a = "maps" /\ \E r \in {"value", project.read} : project' = [project EXCEPT !.maps = "on", !.read = r]
       \/ a = "release" /\ project' = [project EXCEPT !.release = TRUE]
    /\ setup' = [setup EXCEPT !.st = "idle", !.todo = @ \ {a}]
    /\ UNCHANGED <<tool, setups>>

SetupNext ==
    \/ \E dry, install \in BOOLEAN : RunSetup(dry, install)
    \/ WriteFile \/ Killed \/ Install \/ Finish
    \/ \E a \in {"plugin", "script", "maps", "release"} : DoByHand(a)

-----------------------------------------------------------------------------
SetupTypeOK == project \in ProjectType /\ setup.exit \in 0 .. 2 /\ setups \in 0 .. MaxSetups

(* Safe to re-run (setup.ts:3): however often setup was run, killed between  *)
(* two files or failed, no plugin call and no upload step is there twice,    *)
(* and a run that wrote everything leaves the next one nothing to write.     *)
SafeToRerun ==
    /\ project.plugins <= 1 /\ project.steps <= 1
    /\ setup.st = "over" /\ ~setup.dry => Planned(project) = <<>>

(* Exit code 0 (setup.ts:57) means that this run and those before it applied  *)
(* everything that setup can read of the project: a production build with a   *)
(* key writes maps and uploads them, whatever an unfinished run left out.     *)
(* Passed over are inline maps set in a way setup does not read, and a script *)
(* that names inject or upload and is no upload step of the build.            *)
AppliedMeansWired ==
    setup.st = "over" /\ setup.exit = 0 /\ ~setup.dry =>
        /\ project.dep = "new"
        /\ IF PluginTool(tool)
           THEN /\ project.plugins = 1 /\ project.config # "inner"
                /\ project.maps = "inline" => project.read # "value"
           ELSE (project.steps = 1 \/ project.named) /\ project.maps \in (IF tool = "cra" THEN {"default", "on"} ELSE {"on"})
=============================================================================
