------------------------------- MODULE Upgrade -------------------------------
(***************************************************************************)
(* Remote upgrade of one Agent.  The Agent's UpgradeManager                *)
(* (internal/agent/upgrade.go) stages a release and asks for it in         *)
(* pending.json; the root helper (internal/update/root.go, helper.go,      *)
(* state.go), started by net-probe-update.path, claims the request,        *)
(* installs, switches the link, restarts the Agent, waits for its proof of *)
(* readiness and rolls back without one; the Agent that runs afterwards    *)
(* reports what result.json says.  The two processes share only files.     *)
(*                                                                         *)
(* Versions are numbered in their order; ReleaseOf[c] is the version that  *)
(* upgrade command c asks for.  The Agent starts out at version 1.         *)
(***************************************************************************)
EXTENDS Integers, FiniteSets

CONSTANTS
    MaxCommand,     \* bound on the upgrade commands of a behaviour
    MaxVersion,     \* bound on the versions
    ReleaseOf,      \* the version each command asks for
    Broken,         \* versions that never become ready
    MaxMishaps,     \* bound on reboots, crashes of the Agent, and errors
    MayLapse        \* commands whose manifest's ExpiresAt may pass

Commands == 1..MaxCommand
Versions == 1..MaxVersion

ASSUME UpgradeAssumption ==
    /\ MaxCommand \in Nat /\ MaxVersion \in Nat \ {0} /\ MaxMishaps \in Nat
    /\ ReleaseOf \in [Commands -> Versions]
    /\ MayLapse \subseteq Commands

VARIABLES
    pending, claimed, rejected, \* the request files of the updates directory
    artifacts,  \* commands whose staged artifact is in the updates directory
    result,     \* result.json
    proof,      \* upgrade-ready.json: the command it was written for
    store,      \* the version directories under /opt/net-probe/versions
    target,     \* the version /usr/local/bin/net-probe links to
    agent,      \* the running Agent: its version, readiness signals, proofWritten
    handle,     \* the Agent's call of UpgradeManager.Handle
    record,     \* the Agent's durable command records
    helper,     \* the root helper
    lapsed,     \* commands whose manifest has expired
    mishaps,    \* reboots, crashes and errors so far
    proved      \* history: versions whose proof the helper has accepted

requestVars == <<pending, claimed, rejected, artifacts>>
systemVars == <<store, target, proved>>
upVars == <<requestVars, result, proof, systemVars, agent, handle, record, helper, lapsed, mishaps>>

-----------------------------------------------------------------------------
None == [cmd |-> 0, prev |-> 0]
NoResult == [cmd |-> 0, prev |-> 0, code |-> ""]

\* The codes of result.json: one per way ApplyVerifiedUpdate ends, and the
\* rejection by processPendingUpdate.
HelperCodes == {"upgrade_applied", "upgrade_rolled_back", "upgrade_rollback_failed",
                "upgrade_not_applied", "upgrade_rejected"}

\* The failures Handle returns by itself; "not_staged" stands for every code of
\* a manifest, a download or a write that failed.
HandleCodes == {"helper_result_invalid", "upgrade_busy", "not_staged"}

Final(c) == record[c] \notin {"none", "running"}

\* The conditions of readiness.  The third, systemd's, is met before the control
\* client and the collections start, so these two decide.
Signals == {"control", "report"}

Started(v) == [version |-> v, ready |-> {}, proofWritten |-> FALSE]

NoCall == [pc |-> "idle", cmd |-> 0, res |-> NoResult, code |-> "", staged |-> FALSE, clean |-> "no"]

\* Handle returns this outcome; clean names the AfterPersist callback.
Settle(code, clean) == [handle EXCEPT !.pc = "settle", !.code = code, !.clean = clean]

HelperIdle == [pc |-> "idle", req |-> None, code |-> ""]

UpInit ==
    /\ pending = None /\ claimed = None /\ rejected = None
    /\ artifacts = {}
    /\ result = NoResult
    /\ proof = 0
    /\ store = {1} /\ target = 1
    /\ agent = Started(1)
    /\ handle = NoCall
    /\ record = [c \in Commands |-> "none"]
    /\ helper = HelperIdle
    /\ lapsed = {}
    /\ mishaps = 0
    /\ proved = {1}

\* A reboot, a crash, or a file or systemd operation that returns an error.
Mishap == mishaps < MaxMishaps /\ mishaps' = mishaps + 1
Fine == UNCHANGED mishaps

-----------------------------------------------------------------------------
(* The Agent: readiness *)

\* markReady: with all signals, and a pending.json for this very version,
\* the proof is written, once.
MarkReady(signal) ==
    LET ready == agent.ready \cup {signal}
        proves == /\ ~agent.proofWritten
                  /\ ready = Signals
                  /\ pending # None
                  /\ ReleaseOf[pending.cmd] = agent.version
    IN  /\ agent.version \notin Broken
        /\ agent' = [agent EXCEPT !.ready = ready, !.proofWritten = @ \/ proves]
        /\ proof' = IF proves THEN pending.cmd ELSE proof
        /\ UNCHANGED <<requestVars, result, systemVars, handle, record, helper, lapsed, mishaps>>

\* The Agent process starts from the link: NewUpgradeManager removes the proof,
\* a call of Handle is gone.
AgentStarts(v) ==
    /\ agent' = Started(v)
    /\ proof' = 0
    /\ handle' = NoCall

-----------------------------------------------------------------------------
(* The Agent: Handle *)

\* The executor calls Handle for a command without a final record; the Panel
\* delivers while the control session is up and again after a reconnect.
Deliver(c) ==
    /\ handle.pc = "idle"
    /\ "control" \in agent.ready
    /\ ~Final(c)
    /\ record[c] = "none" => \A d \in Commands : d > c => record[d] = "none"
    /\ handle' = [NoCall EXCEPT !.pc = "result", !.cmd = c]
    /\ record' = [record EXCEPT ![c] = "running"]
    /\ UNCHANGED <<requestVars, result, proof, systemVars, agent, helper, lapsed, mishaps>>

\* readActiveRequest, when no rename comes in between.
Active == IF claimed # None THEN claimed ELSE pending

\* cleanupCompleted(c): the active request and its artifact go, and a duplicate
\* of it in pending.json.
RemoveCompleted(c) ==
    /\ artifacts' = IF Active.cmd = c THEN artifacts \ {c} ELSE artifacts
    /\ claimed' = IF claimed.cmd = c THEN None ELSE claimed
    /\ pending' = IF Active.cmd = c /\ pending.cmd = c THEN None ELSE pending
    /\ UNCHANGED rejected

\* Where Handle goes on without a result: it polls, or looks for a request.
NoOutcome == [handle EXCEPT !.pc = IF handle.staged THEN "wait" ELSE "claimed"]

\* helperOutcome reads result.json.
ReadResult ==
    LET c == handle.cmd
    IN  /\ handle.pc = "result"
        /\ \/ /\ result = NoResult
              /\ handle' = NoOutcome
              /\ UNCHANGED <<requestVars, result>>
           \/ /\ result.cmd = c
              /\ result.code = "upgrade_rejected"
              /\ handle' = IF result.prev = agent.version
                           THEN Settle("upgrade_rejected", "rejected")
                           ELSE Settle("helper_result_invalid", "no")
              /\ UNCHANGED <<requestVars, result>>
           \/ /\ result.cmd = c
              /\ result.code # "upgrade_rejected"
              /\ handle' = [handle EXCEPT !.pc = "claimed", !.res = result]
              /\ UNCHANGED <<requestVars, result>>
           \/ /\ result.cmd \notin {0, c}
              /\ Active = None \/ Active.cmd = result.cmd
              /\ RemoveCompleted(result.cmd)
              /\ result' = NoResult
              /\ handle' = NoOutcome
           \/ /\ result.cmd \notin {0, c}
              /\ Active # None /\ Active.cmd # result.cmd
              /\ handle' = Settle("upgrade_busy", "no")
              /\ UNCHANGED <<requestVars, result>>
        /\ UNCHANGED <<proof, systemVars, agent, record, helper, lapsed, mishaps>>

\* The result read before is believed when it fits the request and the version
\* that runs now.
ValidResult(res, req) ==
    /\ req.cmd = handle.cmd
    /\ res.prev = req.prev
    /\ agent.version = IF res.code = "upgrade_applied" THEN ReleaseOf[res.cmd] ELSE res.prev

\* What existingOutcome and helperOutcome make of the active request.
Decide(req) ==
    CASE handle.res # NoResult /\ ValidResult(handle.res, req) -> Settle(handle.res.code, "completed")
      [] handle.res # NoResult /\ ~ValidResult(handle.res, req) -> Settle("helper_result_invalid", "no")
      [] handle.res = NoResult /\ req = None -> [handle EXCEPT !.pc = "stage"]
      [] handle.res = NoResult /\ req.cmd = handle.cmd -> [handle EXCEPT !.pc = "wait", !.staged = TRUE]
      [] OTHER -> Settle("upgrade_busy", "no")

\* readActiveRequest reads claimed.json first ...
ReadClaimed ==
    /\ handle.pc = "claimed"
    /\ handle' = IF claimed # None THEN Decide(claimed) ELSE [handle EXCEPT !.pc = "pending"]
    /\ UNCHANGED <<requestVars, result, proof, systemVars, agent, record, helper, lapsed, mishaps>>

\* ... and pending.json when there was none; the helper may claim in between.
ReadPending ==
    /\ handle.pc = "pending"
    /\ handle' = Decide(pending)
    /\ UNCHANGED <<requestVars, result, proof, systemVars, agent, record, helper, lapsed, mishaps>>

\* The manifest is newer than the running version and has not expired.
Acceptable(c, current) == ReleaseOf[c] > current /\ c \notin lapsed

\* Handle verifies, downloads, verifies again and writes artifact and request.
\* A failure of the last directory sync comes after both files are in place.
Stage ==
    LET c == handle.cmd
        Written == /\ artifacts' = artifacts \cup {c}
                   /\ pending' = [cmd |-> c, prev |-> agent.version]
                   /\ UNCHANGED <<claimed, rejected>>
    IN  /\ handle.pc = "stage"
        /\ \/ /\ ~Acceptable(c, agent.version)
              /\ handle' = Settle("not_staged", "no")
              /\ UNCHANGED requestVars
              /\ Fine
           \/ /\ Acceptable(c, agent.version)
              /\ handle' = [handle EXCEPT !.pc = "wait", !.staged = TRUE]
              /\ Written
              /\ Fine
           \/ /\ Acceptable(c, agent.version)
              /\ Mishap
              /\ handle' = Settle("not_staged", "no")
              /\ Written \/ UNCHANGED requestVars
        /\ UNCHANGED <<result, proof, systemVars, agent, record, helper, lapsed>>

\* waitForHelper looks again; after 125 seconds it returns a pending outcome,
\* and the command stays running.
Poll ==
    /\ handle.pc = "wait"
    /\ handle' \in {[handle EXCEPT !.pc = "result"], NoCall}
    /\ UNCHANGED <<requestVars, result, proof, systemVars, agent, record, helper, lapsed, mishaps>>

\* The executor persists the outcome; AfterPersist comes next.
PersistOutcome ==
    /\ handle.pc = "settle"
    /\ record' = [record EXCEPT ![handle.cmd] = handle.code]
    /\ handle' = IF handle.clean = "no" THEN NoCall ELSE [handle EXCEPT !.pc = "clean"]
    /\ UNCHANGED <<requestVars, result, proof, systemVars, agent, helper, lapsed, mishaps>>

\* cleanupCommand.
CleanupCommand ==
    LET c == handle.cmd
    IN  /\ handle.pc = "clean"
        /\ handle.clean = "completed"
        /\ \/ /\ Active = None \/ Active.cmd = c
              /\ RemoveCompleted(c)
              /\ result' = NoResult
           \/ /\ Active # None /\ Active.cmd # c
              /\ UNCHANGED <<requestVars, result>>
        /\ handle' = NoCall
        /\ UNCHANGED <<proof, systemVars, agent, record, helper, lapsed, mishaps>>

\* cleanupRejected: whatever rejected.json holds goes, and requests of this
\* command.
CleanupRejected ==
    LET c == handle.cmd
    IN  /\ handle.pc = "clean"
        /\ handle.clean = "rejected"
        /\ artifacts' = IF rejected.cmd = c THEN artifacts \ {c} ELSE artifacts
        /\ rejected' = None
        /\ pending' = IF pending.cmd = c THEN None ELSE pending
        /\ claimed' = IF claimed.cmd = c THEN None ELSE claimed
        /\ result' = NoResult
        /\ handle' = NoCall
        /\ UNCHANGED <<proof, systemVars, agent, record, helper, lapsed, mishaps>>

-----------------------------------------------------------------------------
(* The root helper *)

HelperAt(pc) == helper' = [helper EXCEPT !.pc = pc]

\* The path unit starts the service whenever it is not running and one of the
\* two files exists.
Trigger ==
    /\ helper.pc = "idle"
    /\ pending # None \/ claimed # None
    /\ HelperAt("claim")
    /\ UNCHANGED <<requestVars, result, proof, systemVars, agent, handle, record, lapsed, mishaps>>

\* processPendingUpdate: a request that was claimed before comes first.
Claim ==
    /\ helper.pc = "claim"
    /\ IF claimed = None /\ pending # None
       THEN claimed' = pending /\ pending' = None
       ELSE UNCHANGED <<claimed, pending>>
    /\ helper' = IF claimed' = None THEN HelperIdle ELSE [helper EXCEPT !.pc = "validate"]
    /\ UNCHANGED <<rejected, artifacts, result, proof, systemVars, agent, handle, record, lapsed, mishaps>>

\* The request is for the installed version, its artifact is there, and its
\* manifest still holds.
ValidateUpdateRequest(req) ==
    /\ req.prev = target
    /\ req.cmd \in artifacts
    /\ Acceptable(req.cmd, target)

\* A request that does not validate is moved to rejected.json.  The Agent may
\* have removed claimed.json meanwhile.
Validate ==
    LET valid == ValidateUpdateRequest(claimed)
    IN  /\ helper.pc = "validate"
        /\ \/ /\ claimed = None
              /\ helper' = HelperIdle
              /\ UNCHANGED requestVars
           \/ /\ claimed # None
              /\ valid
              /\ helper' = [pc |-> "install", req |-> claimed, code |-> "upgrade_not_applied"]
              /\ UNCHANGED requestVars
           \/ /\ claimed # None
              /\ ~valid
              /\ helper' = [pc |-> "report", req |-> claimed, code |-> "upgrade_rejected"]
              /\ rejected' = claimed
              /\ claimed' = None
              /\ UNCHANGED <<pending, artifacts>>
        /\ UNCHANGED <<result, proof, systemVars, agent, handle, record, lapsed, mishaps>>

Release == ReleaseOf[helper.req.cmd]

\* Mutant: the error of Install is ignored.
InstallUnchecked ==
    /\ helper.pc = "install"
    /\ store' \in {store, store \cup {Release}}
    /\ HelperAt("switch")
    /\ UNCHANGED <<requestVars, result, proof, target, proved, agent, handle, record, lapsed, mishaps>>

\* Install writes the version's directory.
Install ==
    /\ helper.pc = "install"
    /\ \/ store' = store \cup {Release} /\ HelperAt("switch") /\ Fine
       \/ Mishap /\ UNCHANGED store /\ HelperAt("report")
    /\ UNCHANGED <<requestVars, result, proof, target, proved, agent, handle, record, lapsed>>

\* Switch renames the new link into place; an error of the directory sync is
\* reported after the rename.
Switch ==
    /\ helper.pc = "switch"
    /\ \/ target' = Release /\ HelperAt("restart") /\ Fine
       \/ Mishap /\ target' \in {target, Release} /\ HelperAt("report")
    /\ UNCHANGED <<requestVars, result, proof, store, proved, agent, handle, record, lapsed>>

\* systemctl reports an error; the Agent was restarted or not.
RestartFails ==
    \/ AgentStarts(target)
    \/ proof' = 0 /\ UNCHANGED <<agent, handle>>

\* Restart: the old proof is removed and systemctl restarts the Agent.
Restart ==
    /\ helper.pc = "restart"
    /\ \/ AgentStarts(target) /\ HelperAt("prove") /\ Fine
       \/ Mishap /\ RestartFails /\ HelperAt("rollback")
    /\ UNCHANGED <<requestVars, result, systemVars, record, lapsed>>

\* Mutant: a request is done when the Agent has been restarted.
WaitProofSkipped ==
    /\ helper.pc = "prove"
    /\ HelperAt("retain")
    /\ UNCHANGED <<requestVars, result, proof, systemVars, agent, handle, record, lapsed, mishaps>>

\* WaitProof: the proof must name this command and its version.
WaitProof ==
    /\ helper.pc = "prove"
    /\ proof = helper.req.cmd
    /\ proved' = proved \cup {Release}
    /\ HelperAt("retain")
    /\ UNCHANGED <<requestVars, result, proof, store, target, agent, handle, record, lapsed, mishaps>>

\* Mutant: WaitProof has no deadline.
ProofTimeoutMissing == FALSE /\ UNCHANGED upVars

\* 120 seconds without one.
ProofTimeout ==
    /\ helper.pc = "prove"
    /\ HelperAt("rollback")
    /\ UNCHANGED <<requestVars, result, proof, systemVars, agent, handle, record, lapsed, mishaps>>

\* Retain removes all versions but two; an error may come after some removals.
Retain ==
    LET kept == store \cap {Release, helper.req.prev}
    IN  /\ helper.pc = "retain"
        /\ \/ /\ store' = kept
              /\ helper' = [helper EXCEPT !.pc = "report", !.code = "upgrade_applied"]
              /\ Fine
           \/ /\ Mishap
              /\ store' \in {S \in SUBSET store : kept \subseteq S}
              /\ HelperAt("rollback")
        /\ UNCHANGED <<requestVars, result, proof, target, proved, agent, handle, record, lapsed>>

\* Mutant: rollback restarts without switching the link.
RollbackSwitchForgotten ==
    /\ helper.pc = "rollback"
    /\ helper' = [helper EXCEPT !.pc = "restore", !.code = "upgrade_rolled_back"]
    /\ UNCHANGED <<requestVars, result, proof, systemVars, agent, handle, record, lapsed, mishaps>>

\* rollback switches back ...
RollbackSwitch ==
    /\ helper.pc = "rollback"
    /\ \/ /\ target' = helper.req.prev
          /\ helper' = [helper EXCEPT !.pc = "restore", !.code = "upgrade_rolled_back"]
          /\ Fine
       \/ /\ Mishap
          /\ target' \in {target, helper.req.prev}
          /\ helper' = [helper EXCEPT !.pc = "restore", !.code = "upgrade_rollback_failed"]
    /\ UNCHANGED <<requestVars, result, proof, store, proved, agent, handle, record, lapsed>>

\* ... and restarts, whether or not that worked.
RollbackRestart ==
    /\ helper.pc = "restore"
    /\ \/ AgentStarts(target) /\ HelperAt("report") /\ Fine
       \/ /\ Mishap
          /\ RestartFails
          /\ helper' = [helper EXCEPT !.pc = "report", !.code = "upgrade_rollback_failed"]
    /\ UNCHANGED <<requestVars, result, systemVars, record, lapsed>>

\* WriteResult, and the helper exits.
WriteResult ==
    /\ helper.pc = "report"
    /\ \/ /\ result' = [cmd |-> helper.req.cmd, prev |-> helper.req.prev, code |-> helper.code]
          /\ Fine
       \/ Mishap /\ UNCHANGED result
    /\ helper' = HelperIdle
    /\ UNCHANGED <<requestVars, proof, systemVars, agent, handle, record, lapsed>>

-----------------------------------------------------------------------------
(* The environment *)

\* systemd starts an Agent that died from the link again.
AgentCrash ==
    /\ Mishap
    /\ AgentStarts(target)
    /\ UNCHANGED <<requestVars, result, systemVars, record, helper, lapsed>>

\* The machine goes down with the helper at any of its steps.
Reboot ==
    /\ Mishap
    /\ AgentStarts(target)
    /\ helper' = HelperIdle
    /\ UNCHANGED <<requestVars, result, systemVars, record, lapsed>>

\* A manifest expires, 24 hours after it was issued at the latest.
Lapse(c) ==
    /\ c \in MayLapse
    /\ c \notin lapsed
    /\ lapsed' = lapsed \cup {c}
    /\ UNCHANGED <<requestVars, result, proof, systemVars, agent, handle, record, helper, mishaps>>

-----------------------------------------------------------------------------
HandleStep ==
    \/ ReadResult \/ ReadClaimed \/ ReadPending \/ Stage \/ Poll
    \/ PersistOutcome \/ CleanupCommand \/ CleanupRejected

HelperStep ==
    \/ Trigger \/ Claim \/ Validate \/ Install \/ Switch \/ Restart
    \/ WaitProof \/ ProofTimeout \/ Retain
    \/ RollbackSwitch \/ RollbackRestart \/ WriteResult

UpNext ==
    \/ \E signal \in Signals : MarkReady(signal)
    \/ \E c \in Commands : Deliver(c)
    \/ HandleStep
    \/ HelperStep
    \/ AgentCrash
    \/ Reboot
    \/ \E c \in Commands : Lapse(c)

UpSpec == UpInit /\ [][UpNext]_upVars

\* systemd runs the helper while there is a request, and WaitProof has a timer.
UpFairness == WF_upVars(HelperStep)

UpFairSpec == UpSpec /\ UpFairness

-----------------------------------------------------------------------------
\* Type correctness of the state of an upgrade.
UpTypeOK ==
    /\ {pending, claimed, rejected} \subseteq [cmd: Commands, prev: Versions] \cup {None}
    /\ artifacts \subseteq Commands
    /\ result \in [cmd: Commands, prev: Versions, code: HelperCodes] \cup {NoResult}
    /\ proof \in 0..MaxCommand
    /\ store \subseteq Versions
    /\ target \in Versions
    /\ agent \in [version: Versions, ready: SUBSET Signals, proofWritten: BOOLEAN]
    /\ handle \in [pc: {"idle", "result", "claimed", "pending", "stage", "wait", "settle", "clean"},
                   cmd: 0..MaxCommand,
                   res: [cmd: Commands, prev: Versions, code: HelperCodes] \cup {NoResult},
                   code: HelperCodes \cup HandleCodes \cup {""},
                   staged: BOOLEAN,
                   clean: {"no", "completed", "rejected"}]
    /\ record \in [Commands -> HelperCodes \cup HandleCodes \cup {"none", "running"}]
    /\ helper.pc \in {"idle", "claim", "validate", "install", "switch", "restart", "prove",
                      "retain", "rollback", "restore", "report"}
    /\ helper.req \in [cmd: Commands, prev: Versions] \cup {None}
    /\ lapsed \subseteq Commands
    /\ mishaps \in 0..MaxMishaps
    /\ proved \subseteq Versions

\* The link and the running Agent always have their binary: whatever fails, the
\* helper installs before it switches and retains what it may go back to.
BinariesStay == target \in store /\ agent.version \in store

\* An upgrade is reported as applied only for a version that was ready under
\* the eyes of the helper.
AppliedWasProved ==
    \A c \in Commands : record[c] = "upgrade_applied" => ReleaseOf[c] \in proved

\* When the helper says it rolled back, link and Agent are at the version the
\* request started from.
RolledBackIsPrevious ==
    [][result' # result /\ result'.code = "upgrade_rolled_back"
          => target = result'.prev /\ agent.version = result'.prev]_upVars

\* What the Panel has been told of an upgrade.
Told(c) ==
    CASE ~Final(c) -> "open"
      [] record[c] = "upgrade_applied" -> "applied"
      [] record[c] \in HelperCodes \ {"upgrade_applied"} -> "kept"
      [] OTHER -> "failed"

Promise == INSTANCE Switchover WITH
    Upgrades <- Commands,
    Wanted <- ReleaseOf,
    installed <- store,
    linked <- target,
    running <- agent.version,
    ready <- (agent.ready = Signals),
    vouched <- proved,
    report <- result,
    told <- [c \in Commands |-> Told(c)]

\* Over the files they share, Agent and helper keep the promise of an upgrade:
\* whatever fails, crashes or reboots, the link and the Agent have their binary,
\* applied and rolled back are said of what then runs and is linked, and the
\* command settles once, as applied only by the wanted version, proved and
\* running, and as not applied only by an older one.
ImplementsSwitchover == Promise!Spec

\* The helper "waits up to 120 seconds for all of these conditions": a restarted
\* Agent of the new version for which they hold has left the proof of it that
\* WaitProof looks for.
ReadyIsProved ==
    /\ helper.pc = "prove"
    /\ agent.version = Release
    /\ agent.ready = Signals
    => proof = helper.req.cmd

\* A request the helper has claimed comes to an end, whatever fails or reboots
\* meanwhile: a result is written, the Agent settles the command, or the request
\* was put aside as rejected, where a lost result is not written again.
RequestIsAnswered ==
    \A c \in Commands : claimed.cmd = c ~> result.cmd = c \/ rejected.cmd = c \/ Final(c)
=============================================================================
