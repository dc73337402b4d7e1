------------------------------ MODULE Settings ------------------------------
(***************************************************************************)
(* The settings of the Panel: the configuration in memory, which a PATCH   *)
(* of an administrator changes field by field without a lock, and the file *)
(* it then truncates and writes anew (handleSettingsPatch, internal/panel/ *)
(* api/admin.go), which the next start of the Panel loads and validates    *)
(* (cmd/net-probe-panel/main.go, internal/panel/config/config.go).         *)
(***************************************************************************)
EXTENDS Naturals, FiniteSets

CONSTANTS
    Fields,         \* the settings a PATCH can change
    Values,         \* what they can be set to
    Patches,        \* bound on the PATCHes served at the same time
    MaxPatches,     \* bound on the PATCHes
    SettingsFaults  \* "kill" and "disk" (the file cannot be opened or written)

ASSUME SettingsAssumption ==
    /\ Fields # {} /\ Values # {}
    /\ MaxPatches \in Nat /\ SettingsFaults \subseteq {"kill", "disk"}

VARIABLES
    panel,       \* whether it is "up", "down" or "refused" to start
    cfg,         \* the configuration in memory
    configFile,  \* the configuration file
    patch,       \* the PATCHes being served
    patches,     \* the number of PATCHes so far
    settled,     \* history: whether the last PATCH to end was answered with 200,
                 \* and met no other one
    harmed       \* history: whether a PATCH failed, met another one or was killed
                 \* after it opened the file

settingsVars == <<panel, cfg, configFile, patch, patches, settled, harmed>>

-----------------------------------------------------------------------------
Config == [Fields -> Values]

\* A file is empty, holds a configuration, or pieces of several.
Empty == [kind |-> "empty"]
Torn == [kind |-> "torn"]
Holds(c) == [kind |-> "config", of |-> c]

\* pc: the next step; change: the fields still to be set; to: their values; text:
\* what is encoded so far; met: whether another PATCH was served meanwhile.
NoText == [f \in {} |-> 0]
Resting == [pc |-> "idle", change |-> {}, to |-> NoText, text |-> NoText, met |-> FALSE]

In(p, pc) == panel = "up" /\ patch[p].pc = pc
Opened(p) == patch[p].pc \in {"encode", "flush"}
Quiet == \A p \in Patches : patch[p].pc = "idle"

\* What the installer wrote.
Installed == [f \in Fields |-> CHOOSE v \in Values : TRUE]

SettingsInit ==
    /\ panel = "up"
    /\ cfg = Installed /\ configFile = Holds(Installed)
    /\ patch = [p \in Patches |-> Resting]
    /\ patches = 0
    /\ settled = TRUE /\ harmed = FALSE

-----------------------------------------------------------------------------
(* handleSettingsPatch *)

PatchArrives(p) ==
    /\ In(p, "idle")
    /\ patches < MaxPatches
    /\ patches' = patches + 1
    /\ \E c \in SUBSET Fields : \E v \in [c -> Values] :
          patch' = [q \in Patches |->
              IF q = p THEN [Resting EXCEPT !.pc = "change", !.change = c, !.to = v, !.met = ~Quiet]
              ELSE [patch[q] EXCEPT !.met = patch[q].pc # "idle"]]
    /\ UNCHANGED <<panel, cfg, configFile, settled, harmed>>

ChangeField(p) ==
    /\ In(p, "change")
    /\ \E f \in patch[p].change :
          /\ cfg' = [cfg EXCEPT ![f] = patch[p].to[f]]
          /\ patch' = [patch EXCEPT ![p].change = @ \ {f}]
    /\ UNCHANGED <<panel, configFile, patches, settled, harmed>>

\* Mutant: the file is opened without being truncated.
Untruncated == configFile

\* What is left of the file when it is opened: os.Create.
AfterOpen == Empty

OpenFile(p) ==
    /\ In(p, "change")
    /\ patch[p].change = {}
    /\ configFile' = AfterOpen
    /\ patch' = [patch EXCEPT ![p].pc = "encode"]
    /\ harmed' = (harmed \/ patch[p].met)
    /\ UNCHANGED <<panel, cfg, patches, settled>>

\* The encoder reads the fields one by one, into its buffer.
EncodeField(p) ==
    /\ In(p, "encode")
    /\ LET text == patch[p].text
       IN  \E f \in Fields \ DOMAIN text :
              LET more == [g \in DOMAIN text \cup {f} |-> IF g = f THEN cfg[f] ELSE text[g]]
              IN  patch' = [patch EXCEPT ![p].text = more,
                                         ![p].pc = IF DOMAIN more = Fields THEN "flush" ELSE "encode"]
    /\ UNCHANGED <<panel, cfg, configFile, patches, settled, harmed>>

\* The answer.
Answers(p, ok) ==
    /\ patch' = [patch EXCEPT ![p] = Resting]
    /\ settled' = (ok /\ ~patch[p].met)
    /\ harmed' = (harmed \/ ~ok \/ patch[p].met)
    /\ UNCHANGED <<panel, cfg, patches>>

\* The buffer is written from the start of the file.  Of what another PATCH wrote
\* since the opening the tail stays if it is longer.
Flush(p) ==
    /\ In(p, "flush")
    /\ \/ configFile' = Holds(patch[p].text)
       \/ configFile # Empty /\ configFile' = Torn
    /\ Answers(p, TRUE)

\* 500: what is in memory stays changed.
CannotOpen(p) ==
    /\ "disk" \in SettingsFaults
    /\ In(p, "change") /\ patch[p].change = {}
    /\ UNCHANGED configFile
    /\ Answers(p, FALSE)

CannotWrite(p) ==
    /\ "disk" \in SettingsFaults
    /\ In(p, "flush")
    /\ configFile' \in {configFile, Torn}
    /\ Answers(p, FALSE)

-----------------------------------------------------------------------------
Kill ==
    /\ "kill" \in SettingsFaults
    /\ panel = "up"
    /\ panel' = "down"
    /\ patch' = [p \in Patches |-> Resting]
    /\ settled' = (settled /\ Quiet)
    /\ harmed' = (harmed \/ \E p \in Patches : Opened(p))
    /\ UNCHANGED <<cfg, configFile, patches>>

\* Load and Validate: the defaults, which a file without fields leaves in force,
\* have no public URL.  Pieces of configurations are not TOML, or some other
\* configuration.
Start ==
    /\ panel = "down"
    /\ \/ configFile.kind = "config" /\ panel' = "up" /\ cfg' = configFile.of
       \/ configFile.kind # "config" /\ panel' = "refused" /\ UNCHANGED cfg
       \/ configFile.kind = "torn" /\ panel' = "up" /\ cfg' \in Config
    /\ UNCHANGED <<configFile, patch, patches, settled, harmed>>

PatchStep(p) ==
    \/ PatchArrives(p) \/ ChangeField(p) \/ OpenFile(p) \/ EncodeField(p) \/ Flush(p)
    \/ CannotOpen(p) \/ CannotWrite(p)

SettingsNext == Kill \/ Start \/ \E p \in Patches : PatchStep(p)

SettingsSpec == SettingsInit /\ [][SettingsNext]_settingsVars

-----------------------------------------------------------------------------
\* Type correctness.
SettingsTypeOK ==
    /\ panel \in {"up", "down", "refused"}
    /\ cfg \in Config
    /\ configFile \in {Empty, Torn} \cup {Holds(c) : c \in Config}
    /\ \A p \in Patches :
          /\ patch[p].pc \in {"idle", "change", "encode", "flush"}
          /\ patch[p].change \subseteq DOMAIN patch[p].to
    /\ patches \in 0 .. MaxPatches

\* What the administrator was told is set is what the file holds, however often
\* PATCHes failed, met or were cut short before, if the last one was served alone
\* and answered with 200: it writes all of what is in memory.  And the Panel finds a
\* configuration it cannot start with only after a PATCH failed, met another one,
\* or was killed between the truncation of the file and its last write.
SettingsSurvive ==
    /\ settled /\ Quiet /\ panel = "up" => configFile = Holds(cfg)
    /\ panel = "refused" => harmed
=============================================================================
