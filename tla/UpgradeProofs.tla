---------------------------- MODULE UpgradeProofs ----------------------------
(* What Agent, root helper and systemd keep over the request files, for every
   number of commands, versions and mishaps: the linked and the running release
   stay on disk, "applied" follows a proof, "rolled back" is true, and together
   they do what Switchover promises.  Below: what the Panel keeps when a fleet is
   upgraded, an order is whole or nothing, and was confirmed with a password.    *)
EXTENDS Upgrade, FleetUpgrades, TLAPS

Requests == [cmd : Commands, prev : Versions]
HelperResults == [cmd : Commands, prev : Versions, code : HelperCodes]
Codes == HelperCodes \cup HandleCodes \cup {""}

HelperTypes == [pc : {"idle", "claim", "validate", "install", "switch", "restart", "prove",
                      "retain", "rollback", "restore", "report"},
                req : Requests \cup {None}, code : HelperCodes \cup {""}]
AgentTypes == [version : Versions, ready : SUBSET Signals, proofWritten : BOOLEAN]
CallTypes == [pc : {"idle", "result", "claimed", "pending", "stage", "wait", "settle", "clean"},
              cmd : 0..MaxCommand, res : HelperResults \cup {NoResult}, code : Codes,
              staged : BOOLEAN, clean : {"no", "completed", "rejected"}]

\* The types of what the steps below read.
SharedTypes ==
    /\ pending \in Requests \cup {None} /\ claimed \in Requests \cup {None}
    /\ result \in HelperResults \cup {NoResult}
    /\ helper \in HelperTypes /\ agent \in AgentTypes /\ handle \in CallTypes
    /\ target \in Versions
    /\ record \in [Commands -> Codes \cup {"none", "running"}]

\* How far the helper has come with its request, on the disk and in the link.
HelperInv ==
    /\ helper.pc \notin {"idle", "claim", "validate"} => helper.req \in Requests
    /\ helper.pc \in {"install", "switch", "restart", "prove", "retain", "rollback"} =>
          helper.code = "upgrade_not_applied" /\ helper.req.prev \in store
    /\ helper.pc \in {"switch", "restart", "prove", "retain"} => Release \in store
    /\ helper.pc \in {"restart", "prove", "retain"} => target = Release
    /\ helper.pc \in {"prove", "retain"} => agent.version = Release
    /\ helper.pc = "retain" => Release \in proved

\* What the code that the helper is about to report, when it is, stands for.
ReportInv ==
    /\ helper.pc = "report" /\ helper.code = "upgrade_applied" => Release \in proved
    /\ helper.pc = "restore" => helper.code # "upgrade_applied"
    /\ helper.pc \in {"restore", "report"} => helper.code # ""
    /\ helper.pc \in {"restore", "report"} /\ helper.code = "upgrade_rolled_back" =>
          target = helper.req.prev
    /\ helper.pc = "report" /\ helper.code = "upgrade_rolled_back" =>
          agent.version = helper.req.prev

\* "Applied", wherever it is written or remembered, was proved.
AppliedInv ==
    /\ result.code = "upgrade_applied" => ReleaseOf[result.cmd] \in proved
    /\ handle.res # NoResult => handle.res.cmd = handle.cmd
    /\ handle.res.code = "upgrade_applied" => ReleaseOf[handle.res.cmd] \in proved
    /\ handle.code = "upgrade_applied" => ReleaseOf[handle.cmd] \in proved
    /\ handle.pc # "idle" => handle.cmd \in Commands
    /\ AppliedWasProved

UpInv == SharedTypes /\ HelperInv /\ ReportInv /\ AppliedInv /\ BinariesStay

-----------------------------------------------------------------------------
\* The records that stand for nothing.
LEMMA Nothings ==
    /\ None.cmd = 0 /\ NoResult.code = "" /\ NoResult.cmd = 0
    /\ HelperIdle \in HelperTypes /\ HelperIdle.pc = "idle" /\ HelperIdle.code = ""
    /\ NoCall \in CallTypes /\ NoCall.pc = "idle" /\ NoCall.res = NoResult /\ NoCall.code = ""
    /\ 1 \in Versions /\ 0 \in 0..MaxCommand
    /\ \A c \in Commands : c # 0 /\ c \in 0..MaxCommand /\ ReleaseOf[c] \in Versions
    /\ \A v \in Versions : Started(v) \in AgentTypes /\ Started(v).version = v
  <1>1. 1 \in Versions /\ 0 \in 0..MaxCommand
    BY UpgradeAssumption DEF Versions
  <1>2. \A c \in Commands : c # 0 /\ c \in 0..MaxCommand /\ ReleaseOf[c] \in Versions
    BY UpgradeAssumption DEF Commands
  <1>3. \A v \in Versions : Started(v) \in AgentTypes /\ Started(v).version = v
    BY DEF Started, AgentTypes
  <1>4. NoCall \in CallTypes /\ NoCall.pc = "idle" /\ NoCall.res = NoResult /\ NoCall.code = ""
    BY <1>1 DEF NoCall, CallTypes, Codes
  <1>5. HelperIdle \in HelperTypes /\ HelperIdle.pc = "idle" /\ HelperIdle.code = ""
    BY DEF HelperIdle, HelperTypes
  <1> QED BY <1>1, <1>2, <1>3, <1>4, <1>5 DEF None, NoResult

LEMMA UpInvInit == UpInit => UpInv
  <1> SUFFICES ASSUME UpInit PROVE UpInv
    OBVIOUS
  <1>1. SharedTypes
    BY Nothings DEF UpInit, SharedTypes
  <1>2. HelperInv /\ ReportInv /\ BinariesStay
    BY Nothings DEF UpInit, HelperInv, ReportInv, BinariesStay
  <1>3. AppliedInv
    BY Nothings DEF UpInit, AppliedInv, AppliedWasProved
  <1> QED BY <1>1, <1>2, <1>3 DEF UpInv

-----------------------------------------------------------------------------
\* The steps of the Agent's call of Handle: the helper, the link and the store are
\* left alone, the requests only removed or made anew.
LEMMA CallKeeps ==
    ASSUME UpInv, UNCHANGED <<systemVars, agent, helper>>,
           pending' \in Requests \cup {None}, claimed' \in {claimed, None},
           result' \in {result, NoResult},
           NEW h \in CallTypes, handle' = h,
           record' = record \/ (handle.pc # "idle" /\ record' = [record EXCEPT ![handle.cmd] = handle.code])
                     \/ (\E c \in Commands : record' = [record EXCEPT ![c] = "running"]),
           h.res # NoResult => h.res.cmd = h.cmd,
           h.res.code = "upgrade_applied" => ReleaseOf[h.res.cmd] \in proved,
           h.code = "upgrade_applied" => ReleaseOf[h.cmd] \in proved,
           h.pc # "idle" => h.cmd \in Commands
    PROVE  UpInv'
  <1>1. HelperInv' /\ ReportInv' /\ BinariesStay'
    BY DEF UpInv, HelperInv, ReportInv, BinariesStay, systemVars, Release
  <1>2. record \in [Commands -> Codes \cup {"none", "running"}] /\ handle.code \in Codes
    BY DEF UpInv, SharedTypes, CallTypes
  <1>3. record' \in [Commands -> Codes \cup {"none", "running"}]
    BY <1>2
  <1>4. SharedTypes'
    BY <1>3 DEF UpInv, SharedTypes, systemVars
  <1>5. ASSUME NEW c \in Commands, record'[c] = "upgrade_applied" PROVE ReleaseOf[c] \in proved
    <2>1. CASE record' = record
      BY <1>5, <2>1 DEF UpInv, AppliedInv, AppliedWasProved
    <2>2. CASE handle.pc # "idle" /\ record' = [record EXCEPT ![handle.cmd] = handle.code]
      BY <1>2, <1>5, <2>2 DEF UpInv, AppliedInv, AppliedWasProved
    <2>3. CASE \E d \in Commands : record' = [record EXCEPT ![d] = "running"]
      BY <1>2, <1>5, <2>3 DEF UpInv, AppliedInv, AppliedWasProved
    <2> QED BY <2>1, <2>2, <2>3
  <1>6. AppliedInv'
    <2>1. result'.code = "upgrade_applied" => ReleaseOf[result'.cmd] \in proved'
      BY Nothings DEF UpInv, AppliedInv, systemVars
    <2> QED BY <1>5, <2>1 DEF AppliedInv, AppliedWasProved, systemVars
  <1> QED BY <1>1, <1>4, <1>6 DEF UpInv

\* What the call remembers, in the form CallKeeps asks for.
CallFacts(h) ==
    /\ h \in CallTypes
    /\ h.res # NoResult => h.res.cmd = h.cmd
    /\ h.res.code = "upgrade_applied" => ReleaseOf[h.res.cmd] \in proved
    /\ h.code = "upgrade_applied" => ReleaseOf[h.cmd] \in proved
    /\ h.pc # "idle" => h.cmd \in Commands

LEMMA CallFactsNow == UpInv => CallFacts(handle) /\ CallFacts(NoCall)
  BY Nothings DEF UpInv, SharedTypes, AppliedInv, CallFacts

\* A call that goes on, or settles with a code of its own.
LEMMA CallGoesOn ==
    ASSUME UpInv, handle.pc # "idle",
           NEW pc \in {"result", "claimed", "pending", "stage", "wait", "clean"}
    PROVE  CallFacts([handle EXCEPT !.pc = pc]) /\ CallFacts([handle EXCEPT !.pc = pc, !.staged = TRUE])
  BY CallFactsNow DEF CallFacts, CallTypes

LEMMA CallSettles ==
    ASSUME UpInv, handle.pc # "idle", NEW code \in Codes, NEW clean \in {"no", "completed", "rejected"},
           code = "upgrade_applied" => ReleaseOf[handle.cmd] \in proved
    PROVE  CallFacts(Settle(code, clean))
  BY CallFactsNow DEF CallFacts, CallTypes, Settle

\* existingOutcome and helperOutcome: "applied" is taken over from a result for
\* this command only.
LEMMA DecideFacts ==
    ASSUME UpInv, handle.pc # "idle", NEW req \in Requests \cup {None} PROVE CallFacts(Decide(req))
  <1>1. CASE handle.res # NoResult /\ ValidResult(handle.res, req)
    <2>1. handle.res \in HelperResults \cup {NoResult}
      BY DEF UpInv, SharedTypes, CallTypes
    <2>2. handle.res.code \in Codes
      BY <1>1, <2>1 DEF HelperResults, Codes
    <2>3. handle.res.code = "upgrade_applied" => ReleaseOf[handle.cmd] \in proved
      BY <1>1 DEF UpInv, AppliedInv
    <2> QED BY <1>1, <2>2, <2>3, CallSettles DEF Decide
  <1>2. CASE handle.res # NoResult /\ ~ValidResult(handle.res, req)
    BY <1>2, CallSettles DEF Decide, Codes, HandleCodes
  <1>3. CASE handle.res = NoResult
    <2>1. CallFacts(Settle("upgrade_busy", "no"))
      BY CallSettles DEF Codes, HandleCodes
    <2> QED BY <1>3, <2>1, CallGoesOn DEF Decide
  <1> QED BY <1>1, <1>2, <1>3

\* Any step of the call that writes no outcome.
LEMMA CallMoves ==
    ASSUME UpInv, UNCHANGED <<systemVars, agent, helper, record>>,
           pending' \in Requests \cup {None}, claimed' \in {claimed, None},
           result' \in {result, NoResult}, CallFacts(handle')
    PROVE  UpInv'
  BY CallKeeps DEF CallFacts

LEMMA ReadResultKeeps == ASSUME UpInv, ReadResult PROVE UpInv'
  <1>0. /\ handle.pc = "result" /\ handle.cmd \in Commands
        /\ pending \in Requests \cup {None} /\ result \in HelperResults \cup {NoResult}
    BY DEF ReadResult, UpInv, SharedTypes, AppliedInv
  <1>1. CallFacts(NoOutcome)
    BY <1>0, CallGoesOn DEF NoOutcome
  <1>2. /\ CallFacts(Settle("upgrade_rejected", "rejected"))
        /\ CallFacts(Settle("helper_result_invalid", "no")) /\ CallFacts(Settle("upgrade_busy", "no"))
    BY <1>0, CallSettles DEF Codes, HandleCodes, HelperCodes
  <1>3. result.cmd = handle.cmd => CallFacts([handle EXCEPT !.pc = "claimed", !.res = result])
    BY <1>0, CallFactsNow DEF CallFacts, CallTypes, UpInv, AppliedInv
  <1>4. CallFacts(handle')
    BY <1>1, <1>2, <1>3 DEF ReadResult
  <1>5. pending' \in Requests \cup {None} /\ claimed' \in {claimed, None} /\ result' \in {result, NoResult}
    BY <1>0 DEF ReadResult, requestVars, RemoveCompleted
  <1> QED BY <1>4, <1>5, CallMoves DEF ReadResult

LEMMA StageKeeps == ASSUME UpInv, Stage PROVE UpInv'
  <1>0. /\ handle.pc = "stage" /\ handle.cmd \in Commands /\ agent.version \in Versions
        /\ pending \in Requests \cup {None}
    BY DEF Stage, UpInv, SharedTypes, AppliedInv, AgentTypes
  <1>1. CallFacts(Settle("not_staged", "no"))
    BY <1>0, CallSettles DEF Codes, HandleCodes
  <1>2. CallFacts([handle EXCEPT !.pc = "wait", !.staged = TRUE])
    BY <1>0, CallGoesOn
  <1>3. [cmd |-> handle.cmd, prev |-> agent.version] \in Requests
    BY <1>0 DEF Requests
  <1>4. pending' \in Requests \cup {None} /\ claimed' = claimed
    BY <1>0, <1>3 DEF Stage, requestVars
  <1> QED BY <1>1, <1>2, <1>4, CallMoves DEF Stage

LEMMA HandleKeeps == ASSUME UpInv, HandleStep PROVE UpInv'
  <1>0. pending \in Requests \cup {None} /\ claimed \in Requests \cup {None} /\ CallFacts(NoCall)
    BY CallFactsNow DEF UpInv, SharedTypes
  <1>1. CASE ReadClaimed \/ ReadPending
    <2>1. CallFacts(handle')
      BY <1>0, <1>1, DecideFacts, CallGoesOn DEF ReadClaimed, ReadPending
    <2> QED BY <1>0, <1>1, <2>1, CallMoves DEF ReadClaimed, ReadPending, requestVars
  <1>2. CASE Poll
    <2>1. CallFacts(handle')
      BY <1>0, <1>2, CallGoesOn DEF Poll
    <2> QED BY <1>0, <1>2, <2>1, CallMoves DEF Poll, requestVars
  <1>3. CASE PersistOutcome
    <2>1. CallFacts(handle')
      BY <1>0, <1>3, CallGoesOn DEF PersistOutcome
    <2> QED BY <1>0, <1>3, <2>1, CallKeeps DEF PersistOutcome, CallFacts, requestVars
  <1>4. CASE CleanupCommand
    <2>1. pending' \in Requests \cup {None} /\ claimed' \in {claimed, None} /\ result' \in {result, NoResult}
      BY <1>0, <1>4 DEF CleanupCommand, RemoveCompleted, requestVars
    <2> QED BY <1>0, <1>4, <2>1, CallMoves DEF CleanupCommand
  <1>5. CASE CleanupRejected
    BY <1>0, <1>5, CallMoves DEF CleanupRejected
  <1> QED BY <1>1, <1>2, <1>3, <1>4, <1>5, ReadResultKeeps, StageKeeps DEF HandleStep

LEMMA DeliverKeeps == ASSUME UpInv, NEW c \in Commands, Deliver(c) PROVE UpInv'
  <1> DEFINE h == [NoCall EXCEPT !.pc = "result", !.cmd = c]
  <1>1. CallFacts(h)
    BY Nothings DEF CallFacts, CallTypes
  <1>2. handle' = h /\ record' = [record EXCEPT ![c] = "running"]
        /\ UNCHANGED <<requestVars, result, systemVars, agent, helper>>
    BY DEF Deliver
  <1> HIDE DEF h
  <1> QED BY <1>1, <1>2, CallKeeps DEF CallFacts, requestVars, UpInv, SharedTypes

-----------------------------------------------------------------------------
\* Only the helper's place changes, or the request it holds.
LEMMA HelperAtFacts ==
    ASSUME UpInv, NEW pc \in {"claim", "switch", "restart", "prove", "retain", "rollback", "report"},
           HelperAt(pc)
    PROVE  helper' \in HelperTypes /\ helper'.pc = pc /\ helper'.req = helper.req /\ helper'.code = helper.code
  BY DEF HelperAt, UpInv, SharedTypes, HelperTypes

\* What the files of the Agent keep when the helper moves.
LEMMA CallAlone ==
    ASSUME UpInv, UNCHANGED <<result, record>>, handle' \in {handle, NoCall}, proved \subseteq proved'
    PROVE  AppliedInv' /\ handle' \in CallTypes
  BY Nothings DEF UpInv, AppliedInv, AppliedWasProved, SharedTypes

LEMMA ClaimKeeps == ASSUME UpInv, Trigger \/ Claim \/ Validate PROVE UpInv'
  <1>0. /\ pending \in Requests \cup {None} /\ claimed \in Requests \cup {None} /\ helper \in HelperTypes
        /\ target \in store
    BY DEF UpInv, SharedTypes, BinariesStay
  <1>1. UNCHANGED <<result, proof, systemVars, agent, handle, record>>
    BY DEF Trigger, Claim, Validate
  <1>2. /\ pending' \in Requests \cup {None} /\ claimed' \in Requests \cup {None}
    BY <1>0 DEF Trigger, Claim, Validate, requestVars
  <1>3. \/ helper' \in HelperTypes /\ helper'.pc \in {"idle", "claim", "validate"}
        \/ helper' \in HelperTypes /\ helper'.pc = "install" /\ helper'.req \in Requests
           /\ helper'.req.prev = target /\ helper'.code = "upgrade_not_applied"
        \/ helper' \in HelperTypes /\ helper'.pc = "report" /\ helper'.req \in Requests
           /\ helper'.code = "upgrade_rejected"
    <2>1. CASE Trigger
      BY <2>1, HelperAtFacts DEF Trigger
    <2>2. CASE Claim
      BY <1>0, <2>2, Nothings DEF Claim, HelperTypes
    <2>3. CASE Validate
      <3>1. CASE helper' = HelperIdle
        BY <3>1, Nothings
      <3>2. CASE /\ claimed # None /\ ValidateUpdateRequest(claimed)
                 /\ helper' = [pc |-> "install", req |-> claimed, code |-> "upgrade_not_applied"]
        BY <1>0, <3>2 DEF ValidateUpdateRequest, HelperTypes, HelperCodes
      <3>3. CASE /\ claimed # None
                 /\ helper' = [pc |-> "report", req |-> claimed, code |-> "upgrade_rejected"]
        BY <1>0, <3>3 DEF HelperTypes, HelperCodes
      <3> QED BY <2>3, <3>1, <3>2, <3>3 DEF Validate
    <2> QED BY <2>1, <2>2, <2>3
  <1>4. HelperInv' /\ ReportInv'
    BY <1>0, <1>1, <1>3 DEF HelperInv, ReportInv, systemVars
  <1>5. SharedTypes'
    BY <1>1, <1>2, <1>3 DEF UpInv, SharedTypes, systemVars
  <1>6. AppliedInv' /\ BinariesStay'
    BY <1>1, CallAlone DEF UpInv, BinariesStay, systemVars
  <1> QED BY <1>4, <1>5, <1>6 DEF UpInv

\* Install and Switch: the binary is there before the link names it.
LEMMA InstallKeeps == ASSUME UpInv, Install \/ Switch PROVE UpInv'
  <1>0. /\ helper \in HelperTypes /\ helper.req \in Requests /\ helper.code = "upgrade_not_applied"
        /\ helper.req.prev \in store /\ target \in store /\ agent.version \in store /\ target \in Versions
        /\ Release \in Versions
    BY Nothings DEF UpInv, SharedTypes, HelperInv, BinariesStay, Install, Switch, Requests, Release
  <1>1. UNCHANGED <<requestVars, result, proof, proved, agent, handle, record>>
    BY DEF Install, Switch
  <1>2. /\ helper' \in HelperTypes /\ helper'.req = helper.req /\ helper'.code = helper.code
        /\ \/ Install /\ target' = target /\ helper'.pc = "switch" /\ store' = store \cup {Release}
           \/ Install /\ target' = target /\ helper'.pc = "report" /\ store' = store
           \/ Switch /\ store' = store /\ helper'.pc = "restart" /\ target' = Release
           \/ Switch /\ store' = store /\ helper'.pc = "report" /\ target' \in {target, Release}
    BY HelperAtFacts DEF Install, Switch
  <1>3. Switch => Release \in store
    BY DEF Switch, UpInv, HelperInv
  <1>4. HelperInv' /\ ReportInv'
    BY <1>0, <1>1, <1>2, <1>3 DEF HelperInv, ReportInv, Release
  <1>5. SharedTypes'
    BY <1>0, <1>1, <1>2 DEF UpInv, SharedTypes, requestVars
  <1>6. AppliedInv' /\ BinariesStay'
    BY <1>0, <1>1, <1>2, <1>3, CallAlone DEF BinariesStay
  <1> QED BY <1>4, <1>5, <1>6 DEF UpInv

\* An Agent that starts runs what the link names.
LEMMA StartedFacts ==
    ASSUME UpInv, AgentStarts(target) \/ RestartFails
    PROVE  /\ agent' \in AgentTypes /\ agent'.version \in store /\ handle' \in {handle, NoCall}
           /\ AgentStarts(target) => agent'.version = target
  BY Nothings DEF UpInv, SharedTypes, BinariesStay, AgentStarts, RestartFails

LEMMA RestartKeeps == ASSUME UpInv, Restart \/ RollbackRestart PROVE UpInv'
  <1>0. /\ helper \in HelperTypes /\ helper.req \in Requests
        /\ agent' \in AgentTypes /\ agent'.version \in store /\ handle' \in {handle, NoCall}
        /\ AgentStarts(target) => agent'.version = target
    BY StartedFacts DEF UpInv, SharedTypes, HelperInv, Restart, RollbackRestart
  <1>1. UNCHANGED <<requestVars, result, systemVars, record>>
    BY DEF Restart, RollbackRestart
  <1>2. /\ helper' \in HelperTypes /\ helper'.req = helper.req
        /\ \/ Restart /\ helper'.pc = "prove" /\ helper'.code = helper.code /\ agent'.version = target
           \/ Restart /\ helper'.pc = "rollback" /\ helper'.code = helper.code
           \/ RollbackRestart /\ helper'.pc = "report" /\ helper'.code = helper.code /\ agent'.version = target
           \/ RollbackRestart /\ helper'.pc = "report" /\ helper'.code = "upgrade_rollback_failed"
    BY <1>0, HelperAtFacts DEF Restart, RollbackRestart, HelperTypes, HelperCodes
  <1>3. HelperInv' /\ ReportInv'
    BY <1>0, <1>1, <1>2 DEF UpInv, HelperInv, ReportInv, Release, systemVars, Restart, RollbackRestart
  <1>4. SharedTypes' /\ AppliedInv' /\ BinariesStay'
    BY <1>0, <1>1, <1>2, CallAlone DEF UpInv, SharedTypes, BinariesStay, requestVars, systemVars
  <1> QED BY <1>3, <1>4 DEF UpInv

LEMMA ProveKeeps == ASSUME UpInv, WaitProof \/ ProofTimeout PROVE UpInv'
  <1>1. UNCHANGED <<requestVars, result, store, target, agent, handle, record>>
    BY DEF WaitProof, ProofTimeout, systemVars
  <1>2. /\ helper' \in HelperTypes /\ helper'.req = helper.req /\ helper'.code = helper.code
        /\ helper.pc = "prove"
        /\ \/ helper'.pc = "retain" /\ proved' = proved \cup {Release}
           \/ helper'.pc = "rollback" /\ proved' = proved
    BY HelperAtFacts DEF WaitProof, ProofTimeout, systemVars
  <1>3. HelperInv' /\ ReportInv'
    BY <1>1, <1>2 DEF UpInv, HelperInv, ReportInv, Release
  <1>4. SharedTypes' /\ AppliedInv' /\ BinariesStay'
    BY <1>1, <1>2, CallAlone DEF UpInv, SharedTypes, BinariesStay, requestVars
  <1> QED BY <1>3, <1>4 DEF UpInv

\* Retain leaves the new release, which is linked and runs, and the previous one.
LEMMA RetainKeeps == ASSUME UpInv, Retain PROVE UpInv'
  <1>0. /\ helper \in HelperTypes /\ helper.req \in Requests /\ helper.pc = "retain"
        /\ helper.code = "upgrade_not_applied" /\ helper.req.prev \in store /\ Release \in store
        /\ target = Release /\ agent.version = Release /\ Release \in proved
    BY DEF UpInv, SharedTypes, HelperInv, Retain
  <1>1. UNCHANGED <<requestVars, result, proof, target, proved, agent, handle, record>>
    BY DEF Retain
  <1>2. /\ helper' \in HelperTypes /\ helper'.req = helper.req
        /\ store \cap {Release, helper.req.prev} \subseteq store'
        /\ \/ helper'.pc = "report" /\ helper'.code = "upgrade_applied"
           \/ helper'.pc = "rollback" /\ helper'.code = "upgrade_not_applied"
    BY <1>0, HelperAtFacts DEF Retain, HelperTypes, HelperCodes
  <1>3. HelperInv' /\ ReportInv'
    BY <1>0, <1>1, <1>2 DEF HelperInv, ReportInv, Release
  <1>4. SharedTypes' /\ AppliedInv' /\ BinariesStay'
    BY <1>0, <1>1, <1>2, CallAlone DEF UpInv, SharedTypes, BinariesStay, requestVars
  <1> QED BY <1>3, <1>4 DEF UpInv

LEMMA RollbackKeeps == ASSUME UpInv, RollbackSwitch PROVE UpInv'
  <1>0. /\ helper \in HelperTypes /\ helper.req \in Requests
        /\ helper.req.prev \in store /\ helper.req.prev \in Versions /\ target \in Versions
        /\ target \in store /\ agent.version \in store
    BY DEF UpInv, SharedTypes, HelperInv, BinariesStay, RollbackSwitch, Requests
  <1>1. UNCHANGED <<requestVars, result, proof, store, proved, agent, handle, record>>
    BY DEF RollbackSwitch
  <1>2. /\ helper' \in HelperTypes /\ helper'.req = helper.req /\ helper'.pc = "restore"
        /\ \/ helper'.code = "upgrade_rolled_back" /\ target' = helper.req.prev
           \/ helper'.code = "upgrade_rollback_failed" /\ target' \in {target, helper.req.prev}
    BY <1>0 DEF RollbackSwitch, HelperTypes, HelperCodes
  <1>3. HelperInv' /\ ReportInv'
    BY <1>0, <1>1, <1>2 DEF HelperInv, ReportInv
  <1>4. SharedTypes' /\ AppliedInv' /\ BinariesStay'
    BY <1>0, <1>1, <1>2, CallAlone DEF UpInv, SharedTypes, BinariesStay, requestVars
  <1> QED BY <1>3, <1>4 DEF UpInv

LEMMA WriteResultKeeps == ASSUME UpInv, WriteResult PROVE UpInv'
  <1> DEFINE r == [cmd |-> helper.req.cmd, prev |-> helper.req.prev, code |-> helper.code]
  <1>0. helper \in HelperTypes /\ helper.req \in Requests /\ helper.pc = "report"
    BY DEF UpInv, SharedTypes, HelperInv, WriteResult
  <1>1. /\ UNCHANGED <<requestVars, systemVars, agent, handle, record>>
        /\ helper' = HelperIdle /\ result' \in {result, r}
    BY DEF WriteResult
  <1>2. r.code = "upgrade_applied" => ReleaseOf[r.cmd] \in proved
    BY <1>0 DEF UpInv, ReportInv, Release
  <1>3. r \in HelperResults
    <2>1. helper.code # ""
      BY <1>0 DEF UpInv, ReportInv
    <2> QED BY <1>0, <2>1 DEF HelperTypes, HelperResults, Requests
  <1> HIDE DEF r
  <1>4. SharedTypes'
    BY <1>1, <1>3, Nothings DEF UpInv, SharedTypes, requestVars, systemVars
  <1>5. HelperInv' /\ ReportInv' /\ BinariesStay'
    BY <1>1, Nothings DEF UpInv, HelperInv, ReportInv, BinariesStay, systemVars
  <1>6. AppliedInv'
    BY <1>1, <1>2 DEF UpInv, AppliedInv, AppliedWasProved, systemVars
  <1> QED BY <1>4, <1>5, <1>6 DEF UpInv

-----------------------------------------------------------------------------
\* Crash, reboot, readiness and the clock.
LEMMA EnvironmentKeeps ==
    ASSUME UpInv, (\E s \in Signals : MarkReady(s)) \/ AgentCrash \/ Reboot \/ \E c \in Commands : Lapse(c)
    PROVE  UpInv'
  <1>0. /\ agent \in AgentTypes /\ helper \in HelperTypes /\ agent.version \in store /\ target \in store
    BY DEF UpInv, SharedTypes, BinariesStay
  <1>1. UNCHANGED <<requestVars, result, systemVars, record>> /\ helper' \in {helper, HelperIdle}
    BY DEF MarkReady, AgentCrash, Reboot, Lapse
  <1>2. /\ agent' \in AgentTypes /\ agent'.version \in {agent.version, target}
        /\ handle' \in {handle, NoCall}
    <2>1. ASSUME NEW s \in Signals, MarkReady(s)
          PROVE  agent' \in AgentTypes /\ agent'.version = agent.version /\ handle' = handle
      <3> DEFINE w == agent.proofWritten \/ (/\ ~agent.proofWritten /\ agent.ready \cup {s} = Signals
                        /\ pending # None /\ ReleaseOf[pending.cmd] = agent.version)
      <3>1. agent' = [agent EXCEPT !.ready = agent.ready \cup {s}, !.proofWritten = w] /\ handle' = handle
        BY <2>1 DEF MarkReady
      <3>2. w \in BOOLEAN
        BY <1>0 DEF AgentTypes
      <3> HIDE DEF w
      <3> QED BY <1>0, <3>1, <3>2 DEF AgentTypes
    <2>2. CASE AgentCrash \/ Reboot
      BY <2>2, StartedFacts DEF AgentCrash, Reboot
    <2>3. CASE \E c \in Commands : Lapse(c)
      BY <1>0, <2>3 DEF Lapse
    <2> QED BY <2>1, <2>2, <2>3
  <1>3. HelperInv' /\ ReportInv'
    <2>1. CASE helper' = HelperIdle
      BY <2>1, Nothings DEF HelperInv, ReportInv
    <2>2. CASE helper' = helper
      BY <1>1, <1>2, <2>2 DEF UpInv, HelperInv, ReportInv, Release, systemVars
    <2> QED BY <1>1, <2>1, <2>2
  <1>4. SharedTypes' /\ AppliedInv' /\ BinariesStay'
    BY <1>0, <1>1, <1>2, Nothings, CallAlone DEF UpInv, SharedTypes, BinariesStay, requestVars, systemVars
  <1> QED BY <1>3, <1>4 DEF UpInv

LEMMA UpStep == UpInv /\ [UpNext]_upVars => UpInv'
  <1> SUFFICES ASSUME UpInv, [UpNext]_upVars PROVE UpInv'
    OBVIOUS
  <1>1. CASE HelperStep
    BY <1>1, ClaimKeeps, InstallKeeps, RestartKeeps, ProveKeeps, RetainKeeps, RollbackKeeps,
       WriteResultKeeps DEF HelperStep
  <1>2. CASE UNCHANGED upVars
    <2>1. SharedTypes' /\ BinariesStay'
      BY <1>2 DEF upVars, requestVars, systemVars, UpInv, SharedTypes, BinariesStay
    <2>2. HelperInv' /\ ReportInv'
      BY <1>2 DEF upVars, systemVars, UpInv, HelperInv, ReportInv, Release
    <2>3. AppliedInv'
      BY <1>2 DEF upVars, systemVars, UpInv, AppliedInv, AppliedWasProved
    <2> QED BY <2>1, <2>2, <2>3 DEF UpInv
  <1> QED BY <1>1, <1>2, HandleKeeps, DeliverKeeps, EnvironmentKeeps DEF UpNext

-----------------------------------------------------------------------------
\* Whatever crashes, fails or reboots between install, switch, proof, retention and
\* rollback, the release that is linked and the one that runs are on disk.
THEOREM LinkedBinariesStay == UpSpec => []BinariesStay
  <1>1. UpInv => BinariesStay
    BY DEF UpInv
  <1> QED BY <1>1, UpInvInit, UpStep, PTL DEF UpSpec

\* A command is only recorded as applied after the helper has accepted the proof of
\* its version, however results are lost, cleared and read late.
THEOREM AppliedUpgradesWereProved == UpSpec => []AppliedWasProved
  <1>1. UpInv => AppliedWasProved
    BY DEF UpInv, AppliedInv
  <1> QED BY <1>1, UpInvInit, UpStep, PTL DEF UpSpec

\* A helper that writes "rolled back" has link and Agent at the previous release.
THEOREM RollbacksAreTrue == UpSpec => RolledBackIsPrevious
  <1>1. ASSUME UpInv, [UpNext]_upVars, result' # result, result'.code = "upgrade_rolled_back"
        PROVE  target = result'.prev /\ agent.version = result'.prev
    <2>1. result' # NoResult
      BY <1>1, Nothings
    <2>2. WriteResult
      BY <1>1, <2>1 DEF UpNext, HandleStep, HelperStep, MarkReady, Deliver, ReadResult, ReadClaimed,
            ReadPending, Stage, Poll, PersistOutcome, CleanupCommand, CleanupRejected, Trigger, Claim,
            Validate, Install, Switch, Restart, WaitProof, ProofTimeout, Retain, RollbackSwitch,
            RollbackRestart, AgentCrash, Reboot, Lapse, upVars
    <2>3. /\ result' = [cmd |-> helper.req.cmd, prev |-> helper.req.prev, code |-> helper.code]
          /\ helper.pc = "report"
      BY <1>1, <2>2 DEF WriteResult
    <2>4. result'.prev = helper.req.prev /\ helper.code = "upgrade_rolled_back"
      BY <1>1, <2>3
    <2> QED BY <1>1, <2>3, <2>4 DEF UpInv, ReportInv
  <1> QED BY <1>1, UpInvInit, UpStep, PTL DEF UpSpec, RolledBackIsPrevious

-----------------------------------------------------------------------------
(* Switchover: what Agent and helper promise together *)

\* Every request, and every result of one, is for a newer version.
Forward(r) == r.cmd # 0 => r.prev < ReleaseOf[r.cmd]
ForwardInv ==
    /\ Forward(pending) /\ Forward(claimed) /\ Forward(helper.req)
    /\ Forward(result) /\ Forward(handle.res)

\* The proof on disk was written by the Agent that runs.
ProofInv ==
    proof # 0 => proof \in Commands /\ ReleaseOf[proof] = agent.version /\ agent.ready = Signals

\* "Applied" is reported while the release is linked and runs.
AppliedRuns ==
    helper.pc = "report" /\ helper.code = "upgrade_applied" => target = Release /\ agent.version = Release

\* An outcome that Handle may settle on, by the version that runs.
Fits(c, code) ==
    /\ code \in HelperCodes \cup HandleCodes
    /\ code = "upgrade_applied" => agent.version = ReleaseOf[c]
    /\ code \in HelperCodes \ {"upgrade_applied"} => agent.version < ReleaseOf[c]

\* Until Handle has settled, its command is running.
CallInv ==
    /\ handle.pc \notin {"idle", "clean"} => record[handle.cmd] = "running"
    /\ handle.pc = "settle" => Fits(handle.cmd, handle.code)

SwitchoverInv == UpInv /\ ForwardInv /\ ProofInv /\ AppliedRuns /\ CallInv

AsSwitchover == [Promise!Next]_(Promise!switchoverVars)

LEMMA SwitchoverInit == UpInit => SwitchoverInv /\ Promise!Init
  <1> SUFFICES ASSUME UpInit PROVE SwitchoverInv /\ Promise!Init
    OBVIOUS
  <1>1. UpInv
    BY UpInvInit
  <1>2. ForwardInv
    BY DEF UpInit, ForwardInv, Forward, None, NoResult, HelperIdle, NoCall
  <1>3. ProofInv /\ AppliedRuns /\ CallInv
    BY DEF UpInit, ProofInv, AppliedRuns, CallInv, HelperIdle, NoCall
  <1>4. ASSUME NEW c \in Commands PROVE Told(c) = "open"
    <2>1. record[c] = "none"
      BY DEF UpInit
    <2> QED BY <2>1 DEF Told, Final, HelperCodes
  <1>5. agent.version = 1 /\ (agent.ready = Signals) = FALSE
    <2>1. agent.ready = {} /\ agent.version = 1
      BY DEF UpInit, Started
    <2>2. "control" \in Signals
      BY DEF Signals
    <2>3. agent.ready # Signals
      BY <2>1, <2>2
    <2> QED BY <2>1, <2>3
  <1>6. Promise!Init
    BY <1>4, <1>5 DEF UpInit, Promise!Init, NoResult, Promise!NoReport
  <1> QED BY <1>1, <1>2, <1>3, <1>6 DEF SwitchoverInv

\* Requests are taken over, or made for a newer release.
LEMMA RequestsMove ==
    ASSUME UpInv, [UpNext]_upVars
    PROVE  /\ \/ pending' \in {pending, None}
              \/ /\ handle.cmd \in Commands /\ agent.version \in Versions
                 /\ pending' = [cmd |-> handle.cmd, prev |-> agent.version]
                 /\ ReleaseOf[handle.cmd] > agent.version
           /\ claimed' \in {claimed, None, pending}
           /\ helper'.req \in {helper.req, None, claimed}
           /\ result' \in {result, NoResult} \/ (result'.cmd = helper.req.cmd /\ result'.prev = helper.req.prev)
           /\ handle'.res \in {handle.res, NoResult, result}
  <1> DEFINE Goal ==
           /\ \/ pending' \in {pending, None}
              \/ /\ handle.cmd \in Commands /\ agent.version \in Versions
                 /\ pending' = [cmd |-> handle.cmd, prev |-> agent.version]
                 /\ ReleaseOf[handle.cmd] > agent.version
           /\ claimed' \in {claimed, None, pending}
           /\ helper'.req \in {helper.req, None, claimed}
           /\ result' \in {result, NoResult} \/ (result'.cmd = helper.req.cmd /\ result'.prev = helper.req.prev)
           /\ handle'.res \in {handle.res, NoResult, result}
  <1>0. /\ NoCall.res = NoResult /\ HelperIdle.req = None /\ handle \in CallTypes /\ helper \in HelperTypes
        /\ handle.pc # "idle" => handle.cmd \in Commands
        /\ agent.version \in Versions
    BY DEF NoCall, HelperIdle, UpInv, SharedTypes, AppliedInv, AgentTypes
  <1>1. CASE HelperStep
    <2>1. pending' \in {pending, None} /\ claimed' \in {claimed, None, pending}
      BY <1>1 DEF HelperStep, Trigger, Claim, Validate, Install, Switch, Restart, WaitProof, ProofTimeout,
                  Retain, RollbackSwitch, RollbackRestart, WriteResult, requestVars
    <2>2. helper'.req \in {helper.req, None, claimed}
      <3>1. CASE Claim \/ WriteResult
        BY <1>0, <3>1 DEF Claim, WriteResult, HelperTypes
      <3>4. CASE Validate
        BY <1>0, <3>4 DEF Validate
      <3>2. CASE Trigger \/ Install \/ Switch \/ Restart \/ WaitProof \/ ProofTimeout
        BY <1>0, <3>2 DEF Trigger, Install, Switch, Restart, WaitProof, ProofTimeout, HelperAt, HelperTypes
      <3>3. CASE Retain \/ RollbackSwitch \/ RollbackRestart
        BY <1>0, <3>3 DEF Retain, RollbackSwitch, RollbackRestart, HelperAt, HelperTypes
      <3> QED BY <1>1, <3>1, <3>2, <3>3, <3>4 DEF HelperStep
    <2>3. result' = result \/ (result'.cmd = helper.req.cmd /\ result'.prev = helper.req.prev)
      BY <1>1 DEF HelperStep, Trigger, Claim, Validate, Install, Switch, Restart, WaitProof, ProofTimeout,
                  Retain, RollbackSwitch, RollbackRestart, WriteResult
    <2>4. handle' \in {handle, NoCall}
      BY <1>1 DEF HelperStep, Trigger, Claim, Validate, Install, Switch, Restart, WaitProof, ProofTimeout,
                  Retain, RollbackSwitch, RollbackRestart, WriteResult, AgentStarts, RestartFails
    <2> QED BY <1>0, <2>1, <2>2, <2>3, <2>4
  <1>2. CASE HandleStep
    <2>1. helper' = helper /\ result' \in {result, NoResult} /\ claimed' \in {claimed, None}
      BY <1>2 DEF HandleStep, ReadResult, ReadClaimed, ReadPending, Stage, Poll, PersistOutcome,
                  CleanupCommand, CleanupRejected, RemoveCompleted, requestVars
    <2>2. handle'.res \in {handle.res, NoResult, result}
      BY <1>0, <1>2 DEF HandleStep, ReadResult, ReadClaimed, ReadPending, Stage, Poll, PersistOutcome,
                  CleanupCommand, CleanupRejected, Decide, Settle, NoOutcome, CallTypes
    <2>3. CASE Stage
      BY <1>0, <2>1, <2>2, <2>3 DEF Stage, Acceptable, requestVars
    <2>4. CASE ~Stage
      <3>1. pending' \in {pending, None}
        BY <1>2, <2>4 DEF HandleStep, ReadResult, ReadClaimed, ReadPending, Poll, PersistOutcome,
                  CleanupCommand, CleanupRejected, RemoveCompleted, requestVars
      <3> QED BY <2>1, <2>2, <3>1
    <2> QED BY <2>3, <2>4
  <1>3. ASSUME NEW c \in Commands, Deliver(c) PROVE Goal
    BY <1>3 DEF Deliver, requestVars, NoCall
  <1>4. CASE (\E s \in Signals : MarkReady(s)) \/ AgentCrash \/ Reboot \/ \E c \in Commands : Lapse(c)
    BY <1>0, <1>4 DEF MarkReady, AgentCrash, Reboot, Lapse, AgentStarts, requestVars
  <1>5. CASE UNCHANGED upVars
    BY <1>5 DEF upVars, requestVars
  <1> QED BY <1>1, <1>2, <1>3, <1>4, <1>5 DEF UpNext

LEMMA ForwardStep == ASSUME UpInv, ForwardInv, [UpNext]_upVars PROVE ForwardInv'
  <1>1. Forward(None) /\ Forward(NoResult)
    BY DEF Forward, None, NoResult
  <1>2. \A c \in Commands, v \in Versions : ReleaseOf[c] > v => v < ReleaseOf[c]
    BY UpgradeAssumption DEF Versions
  <1>3. Forward(pending)'
    BY <1>1, <1>2, RequestsMove DEF ForwardInv, Forward
  <1>4. Forward(claimed)' /\ Forward(helper.req)'
    BY <1>1, RequestsMove DEF ForwardInv, Forward
  <1>5. Forward(result)'
    BY <1>1, RequestsMove DEF ForwardInv, Forward
  <1>6. Forward(handle.res)'
    BY <1>1, RequestsMove DEF ForwardInv, Forward
  <1> QED BY <1>3, <1>4, <1>5, <1>6 DEF ForwardInv

\* An Agent that is started has no proof; one that goes on stays ready.
LEMMA ProofStep == ASSUME UpInv, ProofInv, [UpNext]_upVars PROVE ProofInv'
  <1>1. ASSUME NEW s \in Signals, MarkReady(s) PROVE ProofInv'
    <2> DEFINE w == /\ ~agent.proofWritten /\ agent.ready \cup {s} = Signals
                    /\ pending # None /\ ReleaseOf[pending.cmd] = agent.version
               r == agent.ready \cup {s}
               p == agent.proofWritten \/ w
    <2>1. /\ agent' = [agent EXCEPT !.ready = r, !.proofWritten = p]
          /\ proof' = IF w THEN pending.cmd ELSE proof
      BY <1>1 DEF MarkReady
    <2>2. agent \in AgentTypes /\ pending \in Requests \cup {None}
      BY DEF UpInv, SharedTypes
    <2>3. agent.ready \subseteq Signals
      BY <2>2 DEF AgentTypes
    <2>4. CASE w
      <3>1. r = Signals /\ pending.cmd \in Commands /\ ReleaseOf[pending.cmd] = agent.version
        BY <2>2, <2>4 DEF Requests
      <3>2. proof' = pending.cmd
        BY <2>1, <2>4
      <3> HIDE DEF w, r, p
      <3>3. agent'.version = agent.version /\ agent'.ready = r
        BY <2>1, <2>2 DEF AgentTypes
      <3> QED BY <3>1, <3>2, <3>3 DEF ProofInv
    <2>5. CASE ~w
      <3>1. proof' = proof
        BY <2>1, <2>5
      <3>2. agent.ready = Signals => r = Signals
        BY <1>1
      <3> HIDE DEF w, r, p
      <3>3. agent'.version = agent.version /\ agent'.ready = r
        BY <2>1, <2>2 DEF AgentTypes
      <3> QED BY <3>1, <3>2, <3>3 DEF ProofInv
    <2> QED BY <2>4, <2>5
  <1>2. CASE proof' = 0
    BY <1>2 DEF ProofInv
  <1>3. CASE UNCHANGED <<proof, agent>>
    BY <1>3 DEF ProofInv
  <1>4. HelperStep => proof' = 0 \/ UNCHANGED <<proof, agent>>
    BY DEF HelperStep, Trigger, Claim, Validate, Install, Switch, Restart, WaitProof, ProofTimeout,
           Retain, RollbackSwitch, RollbackRestart, WriteResult, AgentStarts, RestartFails, systemVars
  <1>5. HandleStep => UNCHANGED <<proof, agent>>
    BY DEF HandleStep, ReadResult, ReadClaimed, ReadPending, Stage, Poll, PersistOutcome,
           CleanupCommand, CleanupRejected
  <1>6. AgentCrash \/ Reboot => proof' = 0
    BY DEF AgentCrash, Reboot, AgentStarts
  <1>7. \A c \in Commands : Deliver(c) \/ Lapse(c) => UNCHANGED <<proof, agent>>
    BY DEF Deliver, Lapse
  <1>8. UNCHANGED upVars => UNCHANGED <<proof, agent>>
    BY DEF upVars
  <1> QED BY <1>1, <1>2, <1>3, <1>4, <1>5, <1>6, <1>7, <1>8 DEF UpNext

\* Retain is the only step to "applied"; an Agent that dies meanwhile comes back
\* from the link.
LEMMA AppliedRunsStep == ASSUME UpInv, AppliedRuns, [UpNext]_upVars PROVE AppliedRuns'
  <1>0. helper \in HelperTypes /\ agent \in AgentTypes
    BY DEF UpInv, SharedTypes
  <1>1. CASE Retain
    <2>1. target' = Release /\ agent'.version = Release /\ helper'.req = helper.req
      BY <1>0, <1>1 DEF Retain, UpInv, HelperInv, HelperAt, HelperTypes
    <2> QED BY <2>1 DEF AppliedRuns, Release
  <1>2. CASE RollbackRestart
    <2>1. helper'.code \in {helper.code, "upgrade_rollback_failed"} /\ helper.pc = "restore"
      BY <1>0, <1>2 DEF RollbackRestart, HelperAt, HelperTypes
    <2>2. helper'.code # "upgrade_applied"
      BY <2>1 DEF UpInv, ReportInv
    <2> QED BY <2>2 DEF AppliedRuns
  <1>3. CASE Install \/ Switch
    <2>1. helper'.code = helper.code /\ helper.code = "upgrade_not_applied"
      BY <1>0, <1>3 DEF Install, Switch, HelperAt, UpInv, HelperInv, HelperTypes
    <2> QED BY <2>1 DEF AppliedRuns
  <1>4. CASE Trigger \/ Restart \/ WaitProof \/ ProofTimeout \/ RollbackSwitch
    <2>1. helper'.pc # "report"
      BY <1>0, <1>4 DEF Trigger, Restart, WaitProof, ProofTimeout, RollbackSwitch, HelperAt, HelperTypes
    <2> QED BY <2>1 DEF AppliedRuns
  <1>5. CASE Claim \/ WriteResult
    <2>1. helper'.pc # "report"
      BY <1>0, <1>5, Nothings DEF Claim, WriteResult, HelperTypes
    <2> QED BY <2>1 DEF AppliedRuns
  <1>6. CASE Validate
    <2>0. \/ helper' = HelperIdle
          \/ helper' = [pc |-> "install", req |-> claimed, code |-> "upgrade_not_applied"]
          \/ helper' = [pc |-> "report", req |-> claimed, code |-> "upgrade_rejected"]
      BY <1>6 DEF Validate
    <2>1. helper'.pc = "report" => helper'.code = "upgrade_rejected"
      <3>1. CASE helper' = HelperIdle
        BY <3>1 DEF HelperIdle
      <3>2. CASE helper' = [pc |-> "install", req |-> claimed, code |-> "upgrade_not_applied"]
        BY <3>2
      <3>3. CASE helper' = [pc |-> "report", req |-> claimed, code |-> "upgrade_rejected"]
        BY <3>3
      <3> QED BY <2>0, <3>1, <3>2, <3>3
    <2> QED BY <2>1 DEF AppliedRuns
  <1>7. CASE UNCHANGED <<target, helper>> /\ agent'.version \in {agent.version, target}
    BY <1>7 DEF AppliedRuns, Release
  <1>8. CASE Reboot
    BY <1>8, Nothings DEF Reboot, AppliedRuns
  <1>9. AgentCrash => UNCHANGED <<target, helper>> /\ agent'.version = target
    BY DEF AgentCrash, AgentStarts, Started, systemVars
  <1>10. HandleStep => UNCHANGED <<target, helper, agent>>
    BY DEF HandleStep, ReadResult, ReadClaimed, ReadPending, Stage, Poll, PersistOutcome,
           CleanupCommand, CleanupRejected, systemVars
  <1>11. \A s \in Signals : MarkReady(s) => UNCHANGED <<target, helper>> /\ agent'.version = agent.version
    BY <1>0 DEF MarkReady, systemVars, AgentTypes
  <1>12. \A c \in Commands : Deliver(c) \/ Lapse(c) => UNCHANGED <<target, helper, agent>>
    BY DEF Deliver, Lapse, systemVars
  <1>13. UNCHANGED upVars => UNCHANGED <<target, helper, agent>>
    BY DEF upVars, systemVars
  <1> QED BY <1>1, <1>2, <1>3, <1>4, <1>5, <1>6, <1>7, <1>8, <1>9, <1>10, <1>11, <1>12, <1>13
          DEF UpNext, HelperStep

\* What existingOutcome settles on fits the version that runs.
LEMMA DecideFits ==
    ASSUME UpInv, ForwardInv, handle.pc # "idle", NEW req \in Requests \cup {None}
    PROVE  /\ Decide(req).cmd = handle.cmd
           /\ Decide(req).pc \in {"settle", "stage", "wait"}
           /\ Decide(req).pc = "settle" => Fits(handle.cmd, Decide(req).code)
  <1>0. handle \in CallTypes
    BY DEF UpInv, SharedTypes
  <1>1. CASE handle.res # NoResult /\ ValidResult(handle.res, req)
    <2>1. handle.res \in HelperResults /\ handle.res.cmd = handle.cmd
      BY <1>0, <1>1 DEF CallTypes, UpInv, AppliedInv
    <2>2. handle.res.code \in HelperCodes /\ handle.res.cmd \in Commands
      BY <2>1 DEF HelperResults
    <2>3. handle.res.prev < ReleaseOf[handle.cmd]
      BY <2>1, <2>2, Nothings DEF ForwardInv, Forward
    <2>4. Fits(handle.cmd, handle.res.code)
      BY <1>1, <2>1, <2>2, <2>3 DEF ValidResult, Fits
    <2>5. Decide(req) = Settle(handle.res.code, "completed")
      BY <1>1 DEF Decide
    <2> QED BY <1>0, <2>4, <2>5 DEF Settle, CallTypes
  <1>2. CASE handle.res # NoResult /\ ~ValidResult(handle.res, req)
    <2>1. Decide(req) = Settle("helper_result_invalid", "no")
      BY <1>2 DEF Decide
    <2> QED BY <1>0, <2>1 DEF Settle, CallTypes, Fits, HelperCodes, HandleCodes
  <1>3. CASE handle.res = NoResult
    <2>1. \/ Decide(req) = [handle EXCEPT !.pc = "stage"]
          \/ Decide(req) = [handle EXCEPT !.pc = "wait", !.staged = TRUE]
          \/ Decide(req) = Settle("upgrade_busy", "no")
      BY <1>3 DEF Decide
    <2> QED BY <1>0, <2>1 DEF Settle, CallTypes, Fits, HelperCodes, HandleCodes
  <1> QED BY <1>1, <1>2, <1>3

\* Any step of the call that writes no outcome.
LEMMA CallInvMoves ==
    ASSUME CallInv, UNCHANGED <<record, agent>>,
           \/ handle' = NoCall
           \/ /\ handle.pc \notin {"idle", "clean"} /\ handle'.cmd = handle.cmd
              /\ handle'.pc = "settle" => Fits(handle.cmd, handle'.code)
    PROVE  CallInv'
  BY Nothings DEF CallInv, Fits

LEMMA CallInvHandle == ASSUME UpInv, ForwardInv, CallInv, HandleStep PROVE CallInv'
  <1>0. /\ handle \in CallTypes /\ pending \in Requests \cup {None} /\ claimed \in Requests \cup {None}
        /\ result \in HelperResults \cup {NoResult}
        /\ handle.pc # "idle" => handle.cmd \in Commands
        /\ record \in [Commands -> Codes \cup {"none", "running"}]
    BY DEF UpInv, SharedTypes, AppliedInv
  <1>1. CASE ReadResult
    <2>1. handle'.cmd = handle.cmd /\ handle.pc = "result" /\ UNCHANGED <<record, agent>>
      BY <1>0, <1>1 DEF ReadResult, Settle, NoOutcome, CallTypes
    <2>2. \/ handle'.pc # "settle"
          \/ handle'.code \in {"helper_result_invalid", "upgrade_busy"}
          \/ handle'.code = "upgrade_rejected" /\ result.cmd = handle.cmd /\ result.prev = agent.version
      BY <1>0, <1>1 DEF ReadResult, Settle, NoOutcome, CallTypes
    <2>3. result.cmd = handle.cmd /\ result.prev = agent.version => agent.version < ReleaseOf[handle.cmd]
      BY <1>0, <2>1, Nothings DEF ForwardInv, Forward
    <2>4. handle'.pc = "settle" => Fits(handle.cmd, handle'.code)
      BY <2>2, <2>3 DEF Fits, HelperCodes, HandleCodes
    <2> QED BY <2>1, <2>4, CallInvMoves
  <1>2. CASE ReadClaimed \/ ReadPending
    <2>1. handle.pc \in {"claimed", "pending"} /\ UNCHANGED <<record, agent>>
      BY <1>2 DEF ReadClaimed, ReadPending
    <2>2. handle' = [handle EXCEPT !.pc = "pending"] \/ handle' = Decide(claimed) \/ handle' = Decide(pending)
      BY <1>2 DEF ReadClaimed, ReadPending
    <2>3. handle'.cmd = handle.cmd /\ (handle'.pc = "settle" => Fits(handle.cmd, handle'.code))
      <3>1. CASE handle' = [handle EXCEPT !.pc = "pending"]
        BY <1>0, <3>1 DEF CallTypes
      <3>2. CASE handle' = Decide(claimed)
        BY <1>0, <2>1, <3>2, DecideFits
      <3>3. CASE handle' = Decide(pending)
        BY <1>0, <2>1, <3>3, DecideFits
      <3> QED BY <2>2, <3>1, <3>2, <3>3
    <2> QED BY <2>1, <2>3, CallInvMoves
  <1>3. CASE Stage
    <2>1. handle'.cmd = handle.cmd /\ handle.pc = "stage" /\ UNCHANGED <<record, agent>>
          /\ (handle'.pc # "settle" \/ handle'.code = "not_staged")
      BY <1>0, <1>3 DEF Stage, Settle, CallTypes
    <2>2. handle'.pc = "settle" => Fits(handle.cmd, handle'.code)
      BY <2>1 DEF Fits, HelperCodes, HandleCodes
    <2> QED BY <2>1, <2>2, CallInvMoves
  <1>4. CASE Poll
    <2>1. UNCHANGED <<record, agent>> /\ handle.pc = "wait"
          /\ (handle' = NoCall \/ (handle'.cmd = handle.cmd /\ handle'.pc = "result"))
      BY <1>0, <1>4 DEF Poll, CallTypes
    <2> QED BY <2>1, CallInvMoves
  <1>5. CASE PersistOutcome
    <2>1. handle'.pc \in {"idle", "clean"}
      BY <1>0, <1>5, Nothings DEF PersistOutcome, CallTypes
    <2> QED BY <2>1 DEF CallInv
  <1>6. CASE CleanupCommand \/ CleanupRejected
    <2>1. UNCHANGED <<record, agent>> /\ handle' = NoCall
      BY <1>6 DEF CleanupCommand, CleanupRejected
    <2> QED BY <2>1, CallInvMoves
  <1> QED BY <1>1, <1>2, <1>3, <1>4, <1>5, <1>6 DEF HandleStep

LEMMA CallInvStep == ASSUME UpInv, ForwardInv, CallInv, [UpNext]_upVars PROVE CallInv'
  <1>0. agent \in AgentTypes /\ record \in [Commands -> Codes \cup {"none", "running"}]
    BY DEF UpInv, SharedTypes
  <1>1. CASE record' = record /\ (handle' = NoCall \/ (handle' = handle /\ agent'.version = agent.version))
    BY <1>1, Nothings DEF CallInv, Fits
  <1>2. HelperStep => record' = record /\ (handle' = NoCall \/ UNCHANGED <<handle, agent>>)
    BY DEF HelperStep, Trigger, Claim, Validate, Install, Switch, Restart, WaitProof, ProofTimeout,
           Retain, RollbackSwitch, RollbackRestart, WriteResult, AgentStarts, RestartFails
  <1>3. \A s \in Signals : MarkReady(s) => UNCHANGED <<record, handle>> /\ agent'.version = agent.version
    BY <1>0 DEF MarkReady, AgentTypes
  <1>4. AgentCrash \/ Reboot => record' = record /\ handle' = NoCall
    BY DEF AgentCrash, Reboot, AgentStarts
  <1>5. (\E c \in Commands : Lapse(c)) \/ UNCHANGED upVars => UNCHANGED <<record, handle, agent>>
    BY DEF Lapse, upVars
  <1>6. ASSUME NEW c \in Commands, Deliver(c) PROVE CallInv'
    <2>1. handle'.pc = "result" /\ handle'.cmd = c /\ record'[c] = "running"
      BY <1>0, <1>6, Nothings DEF Deliver, CallTypes
    <2> QED BY <2>1 DEF CallInv
  <1> QED BY <1>1, <1>2, <1>3, <1>4, <1>5, <1>6, CallInvHandle DEF UpNext

LEMMA SwitchoverStep == SwitchoverInv /\ [UpNext]_upVars => SwitchoverInv'
  BY UpStep, ForwardStep, ProofStep, AppliedRunsStep, CallInvStep DEF SwitchoverInv

-----------------------------------------------------------------------------
\* The Panel is told nothing while no record is written.
LEMMA ToldAlone ==
    ASSUME record' = record PROVE [c \in Commands |-> Told(c)]' = [c \in Commands |-> Told(c)]
  BY DEF Told, Final

LEMMA SwitchoverRests ==
    ASSUME UNCHANGED <<systemVars, result, record>>,
           agent'.version = agent.version, agent'.ready = Signals <=> agent.ready = Signals
    PROVE  AsSwitchover
  <1>1. UNCHANGED Promise!switchoverVars
    BY ToldAlone DEF Promise!switchoverVars, systemVars
  <1> QED BY <1>1 DEF AsSwitchover

\* The Agent starts from the link.
LEMMA StartIsStart ==
    ASSUME UpInv, UNCHANGED <<systemVars, result, record>>, AgentStarts(target) PROVE AsSwitchover
  <1>1. agent'.version = target /\ agent'.ready = {}
    BY DEF AgentStarts, Started
  <1>2. agent'.ready # Signals
    BY <1>1 DEF Signals
  <1>3. Promise!Start
    BY <1>1, <1>2, ToldAlone DEF Promise!Start, systemVars
  <1> QED BY <1>3 DEF AsSwitchover, Promise!Next

LEMMA ForgetIsForget ==
    ASSUME UNCHANGED <<systemVars, agent, record>>, result' \in {result, NoResult} PROVE AsSwitchover
  <1>1. CASE result' = result
    BY <1>1, SwitchoverRests
  <1>2. CASE result' = NoResult
    <2>1. Promise!Forget
      BY <1>2, ToldAlone DEF Promise!Forget, systemVars, NoResult, Promise!NoReport
    <2> QED BY <2>1 DEF AsSwitchover, Promise!Next
  <1> QED BY <1>1, <1>2

\* The link is set to a release that is on disk.
LEMMA LinkIsLink ==
    ASSUME UNCHANGED <<store, proved, result, record, agent>>,
           target' = target \/ target' \in store
    PROVE  AsSwitchover
  <1>1. CASE target' = target
    BY <1>1, SwitchoverRests DEF systemVars
  <1>2. CASE target' \in store
    <2>1. Promise!Link(target')
      BY <1>2, ToldAlone DEF Promise!Link
    <2> QED BY <1>2, <2>1 DEF AsSwitchover, Promise!Next
  <1> QED BY <1>1, <1>2

\* The Panel is told once, and what it is told fits.
LEMMA PersistTells == ASSUME SwitchoverInv, PersistOutcome PROVE AsSwitchover
  <1> PICK c \in Commands : c = handle.cmd
    BY DEF PersistOutcome, SwitchoverInv, UpInv, AppliedInv
  <1> DEFINE t == IF handle.code = "upgrade_applied" THEN "applied"
                  ELSE IF handle.code \in HelperCodes THEN "kept" ELSE "failed"
  <1>0. /\ handle.pc = "settle" /\ c \in Commands /\ record[c] = "running" /\ Fits(c, handle.code)
        /\ record \in [Commands -> Codes \cup {"none", "running"}]
        /\ record' = [record EXCEPT ![c] = handle.code]
        /\ UNCHANGED <<systemVars, result, agent>>
    BY DEF PersistOutcome, SwitchoverInv, CallInv, UpInv, SharedTypes, AppliedInv
  <1>1. Told(c) = "open"
    BY <1>0 DEF Told, Final, HelperCodes
  <1>2. record'[c] = handle.code /\ \A d \in Commands : d # c => record'[d] = record[d]
    BY <1>0
  <1>3. Told(c)' = t
    <2>1. handle.code \notin {"none", "running"}
      BY <1>0 DEF Fits, HelperCodes, HandleCodes
    <2> QED BY <1>2, <2>1 DEF Told, Final
  <1>4. \A d \in Commands : d # c => Told(d)' = Told(d)
    BY <1>2 DEF Told, Final
  <1>5. agent.version = ReleaseOf[c] /\ handle.code = "upgrade_applied" => agent.version \in proved
    BY DEF SwitchoverInv, UpInv, AppliedInv
  <1>6. /\ t = "applied" => agent.version = ReleaseOf[c] /\ agent.version \in proved
        /\ t = "kept" => agent.version < ReleaseOf[c]
        /\ t \in {"applied", "kept", "failed"}
    BY <1>0, <1>5 DEF Fits
  <1> HIDE DEF t
  <1>7. [d \in Commands |-> Told(d)]' = [[d \in Commands |-> Told(d)] EXCEPT ![c] = t]
    BY <1>3, <1>4
  <1>8. Promise!Tell(c, t)
    BY <1>0, <1>1, <1>6, <1>7 DEF Promise!Tell, systemVars
  <1> QED BY <1>0, <1>6, <1>8 DEF AsSwitchover, Promise!Next

LEMMA HandlePromises == ASSUME SwitchoverInv, HandleStep PROVE AsSwitchover
  <1>1. CASE PersistOutcome
    BY <1>1, PersistTells
  <1>2. CASE ~PersistOutcome
    <2>1. UNCHANGED <<systemVars, agent, record>> /\ result' \in {result, NoResult}
      BY <1>2 DEF HandleStep, ReadResult, ReadClaimed, ReadPending, Stage, Poll, CleanupCommand, CleanupRejected
    <2> QED BY <2>1, ForgetIsForget
  <1> QED BY <1>1, <1>2

LEMMA DeliverTellsNothing == ASSUME SwitchoverInv, NEW c \in Commands, Deliver(c) PROVE AsSwitchover
  <1>0. /\ record \in [Commands -> Codes \cup {"none", "running"}]
        /\ record' = [record EXCEPT ![c] = "running"] /\ ~Final(c)
        /\ UNCHANGED <<systemVars, result, agent>>
    BY DEF Deliver, SwitchoverInv, UpInv, SharedTypes
  <1>1. record'[c] = "running" /\ \A d \in Commands : d # c => record'[d] = record[d]
    BY <1>0
  <1>2. record[c] \in {"none", "running"}
    BY <1>0 DEF Final
  <1>3. Told(c) = "open"
    BY <1>2 DEF Told, Final, HelperCodes
  <1>4. Told(c)' = "open"
    BY <1>1 DEF Told, Final, HelperCodes
  <1>5. \A d \in Commands : Told(d)' = Told(d)
    <2>1. \A d \in Commands : d # c => Told(d)' = Told(d)
      BY <1>1 DEF Told, Final
    <2> QED BY <1>3, <1>4, <2>1
  <1>6. [d \in Commands |-> Told(d)]' = [d \in Commands |-> Told(d)]
    BY <1>5
  <1>7. UNCHANGED Promise!switchoverVars
    BY <1>0, <1>6 DEF Promise!switchoverVars, systemVars
  <1> QED BY <1>7 DEF AsSwitchover

\* The helper reports what is so when it writes.
LEMMA WriteReports == ASSUME SwitchoverInv, WriteResult PROVE AsSwitchover
  <1> DEFINE u == helper.req.cmd
             p == helper.req.prev
             k == helper.code
  <1>0. /\ helper.pc = "report" /\ u \in Commands /\ p \in Versions
        /\ UNCHANGED <<systemVars, agent, record>>
        /\ result' = result \/ result' = [cmd |-> u, prev |-> p, code |-> k]
    BY DEF WriteResult, SwitchoverInv, UpInv, HelperInv, Requests
  <1>1. CASE result' = result
    BY <1>0, <1>1, SwitchoverRests
  <1>2. CASE result' = [cmd |-> u, prev |-> p, code |-> k]
    <2>1. p < ReleaseOf[u]
      BY <1>0, Nothings DEF SwitchoverInv, ForwardInv, Forward
    <2>2. k = "upgrade_applied" =>
             target = ReleaseOf[u] /\ agent.version = target /\ agent.version \in proved
      BY <1>0 DEF SwitchoverInv, AppliedRuns, UpInv, ReportInv, Release
    <2>3. k = "upgrade_rolled_back" => target = p /\ agent.version = target
      BY <1>0 DEF SwitchoverInv, UpInv, ReportInv
    <2> HIDE DEF u, p, k
    <2>4. result'.prev = p /\ result'.code = k
      BY <1>2
    <2>5. Promise!Report(u, p, k)
      BY <1>0, <1>2, <2>1, <2>2, <2>3, ToldAlone DEF Promise!Report, systemVars
    <2> QED BY <1>0, <2>4, <2>5 DEF AsSwitchover, Promise!Next
  <1> QED BY <1>0, <1>1, <1>2

LEMMA HelperPromises == ASSUME SwitchoverInv, HelperStep PROVE AsSwitchover
  <1>0. UpInv
    BY DEF SwitchoverInv
  <1>1. CASE Trigger \/ Claim \/ Validate \/ ProofTimeout
    <2>1. UNCHANGED <<systemVars, result, record, agent>>
      BY <1>1 DEF Trigger, Claim, Validate, ProofTimeout
    <2> QED BY <2>1, SwitchoverRests
  <1>2. CASE Install
    <2>1. UNCHANGED <<result, record, agent, target, proved>> /\ store' \in {store, store \cup {Release}}
      BY <1>2 DEF Install
    <2>2. CASE store' = store
      BY <2>1, <2>2, SwitchoverRests DEF systemVars
    <2>3. CASE store' = store \cup {Release}
      <3>1. helper.req.cmd \in Commands
        BY <1>0, <1>2 DEF UpInv, HelperInv, Install, Requests
      <3>2. Promise!Install(Release)
        BY <2>1, <2>3, ToldAlone DEF Promise!Install
      <3> QED BY <3>1, <3>2 DEF AsSwitchover, Promise!Next, Release
    <2> QED BY <2>1, <2>2, <2>3
  <1>3. CASE Switch
    <2>1. UNCHANGED <<store, proved, result, record, agent>> /\ target' \in {target, Release} /\ Release \in store
      BY <1>0, <1>3 DEF Switch, UpInv, HelperInv
    <2> QED BY <2>1, LinkIsLink
  <1>4. CASE RollbackSwitch
    <2>1. UNCHANGED <<store, proved, result, record, agent>> /\ target' \in {target, helper.req.prev}
          /\ helper.req.prev \in store
      BY <1>0, <1>4 DEF RollbackSwitch, UpInv, HelperInv
    <2> QED BY <2>1, LinkIsLink
  <1>5. CASE Restart \/ RollbackRestart
    <2>1. UNCHANGED <<systemVars, result, record>> /\ (AgentStarts(target) \/ agent' = agent)
      BY <1>5 DEF Restart, RollbackRestart, RestartFails
    <2> QED BY <1>0, <2>1, StartIsStart, SwitchoverRests
  <1>6. CASE WaitProof
    <2>1. helper.req.cmd \in Commands /\ target = Release /\ agent.version = Release
      BY <1>0, <1>6 DEF UpInv, HelperInv, WaitProof, Requests
    <2>2. agent.ready = Signals
      BY <1>6, <2>1, Nothings DEF SwitchoverInv, ProofInv, WaitProof
    <2>3. Promise!Vouch
      BY <1>6, <2>1, <2>2, ToldAlone DEF Promise!Vouch, WaitProof
    <2> QED BY <2>3 DEF AsSwitchover, Promise!Next
  <1>7. CASE Retain
    <2>1. target = Release /\ agent.version = Release /\ Release \in store
      BY <1>0, <1>7 DEF UpInv, HelperInv, Retain
    <2>2. store' \subseteq store /\ Release \in store' /\ UNCHANGED <<result, record, agent, target, proved>>
      BY <1>7, <2>1 DEF Retain
    <2>3. Promise!Remove
      BY <2>1, <2>2, ToldAlone DEF Promise!Remove
    <2> QED BY <2>3 DEF AsSwitchover, Promise!Next
  <1>8. CASE WriteResult
    BY <1>8, WriteReports
  <1> QED BY <1>1, <1>2, <1>3, <1>4, <1>5, <1>6, <1>7, <1>8 DEF HelperStep

LEMMA EnvironmentPromises ==
    ASSUME SwitchoverInv,
           (\E s \in Signals : MarkReady(s)) \/ AgentCrash \/ Reboot \/ \E c \in Commands : Lapse(c)
    PROVE  AsSwitchover
  <1>0. UpInv /\ agent \in AgentTypes
    BY DEF SwitchoverInv, UpInv, SharedTypes
  <1>1. ASSUME NEW s \in Signals, MarkReady(s) PROVE AsSwitchover
    <2> DEFINE r == agent.ready \cup {s}
               w == agent.proofWritten \/ (/\ ~agent.proofWritten /\ agent.ready \cup {s} = Signals
                      /\ pending # None /\ ReleaseOf[pending.cmd] = agent.version)
    <2>0. agent' = [agent EXCEPT !.ready = r, !.proofWritten = w] /\ UNCHANGED <<systemVars, result, record>>
      BY <1>1 DEF MarkReady
    <2>1. r \subseteq Signals /\ (agent.ready = Signals => r = Signals)
      BY <1>0 DEF AgentTypes
    <2> HIDE DEF r, w
    <2>2. agent'.version = agent.version /\ agent'.ready = r
      BY <1>0, <2>0 DEF AgentTypes
    <2>3. CASE r = Signals
      <3>1. Promise!BecomeReady
        BY <2>0, <2>2, <2>3, ToldAlone DEF Promise!BecomeReady, systemVars
      <3> QED BY <3>1 DEF AsSwitchover, Promise!Next
    <2>4. CASE r # Signals
      BY <2>0, <2>1, <2>2, <2>4, SwitchoverRests
    <2> QED BY <2>3, <2>4
  <1>2. CASE AgentCrash \/ Reboot
    BY <1>0, <1>2, StartIsStart DEF AgentCrash, Reboot
  <1>3. CASE \E c \in Commands : Lapse(c)
    BY <1>3, SwitchoverRests DEF Lapse
  <1> QED BY <1>1, <1>2, <1>3

\* Over the files they share, the Agent and the root helper keep the promise of an
\* upgrade, for every number of commands, releases and mishaps: every step of
\* upgrade.go, root.go and helper.go is a step of Switchover or none.
THEOREM UpgradeImplementsSwitchover == UpSpec => ImplementsSwitchover
  <1>1. SwitchoverInv /\ [UpNext]_upVars => AsSwitchover
    <2>1. UNCHANGED upVars => AsSwitchover
      BY SwitchoverRests DEF upVars, systemVars
    <2> QED BY <2>1, HandlePromises, HelperPromises, EnvironmentPromises, DeliverTellsNothing DEF UpNext
  <1> QED BY <1>1, SwitchoverInit, SwitchoverStep, PTL DEF UpSpec, ImplementsSwitchover, Promise!Spec, AsSwitchover

\* The rest of the types: what no step has to know.
RestTypes ==
    /\ rejected \in Requests \cup {None}
    /\ artifacts \subseteq Commands
    /\ proof \in 0 .. MaxCommand
    /\ store \subseteq Versions /\ proved \subseteq Versions
    /\ lapsed \subseteq Commands
    /\ record \in [Commands -> HelperCodes \cup HandleCodes \cup {"none", "running"}]
    /\ mishaps \in 0 .. MaxMishaps

LEMMA RestStep == ASSUME SwitchoverInv, RestTypes, [UpNext]_upVars PROVE RestTypes'
  <1>0. /\ pending \in Requests \cup {None} /\ claimed \in Requests \cup {None} /\ handle \in CallTypes
        /\ helper \in HelperTypes /\ target \in Versions /\ agent.version \in Versions
        /\ rejected \in Requests \cup {None} /\ artifacts \subseteq Commands /\ proof \in 0 .. MaxCommand
        /\ store \subseteq Versions /\ proved \subseteq Versions /\ lapsed \subseteq Commands
        /\ mishaps \in 0 .. MaxMishaps /\ MaxMishaps \in Nat
    BY UpgradeAssumption DEF SwitchoverInv, UpInv, SharedTypes, RestTypes, AgentTypes
  <1>1. /\ \A r \in Requests \cup {None} : r.cmd \in 0 .. MaxCommand
        /\ handle.pc # "idle" => handle.cmd \in Commands
        /\ helper.pc \notin {"idle", "claim", "validate"} => Release \in Versions
    BY <1>0, Nothings DEF SwitchoverInv, UpInv, AppliedInv, HelperInv, Requests, Release
  <1>2. mishaps' \in 0 .. MaxMishaps
    <2>1. mishaps' = mishaps \/ Mishap
      BY DEF UpNext, HandleStep, HelperStep, MarkReady, Deliver, ReadResult, ReadClaimed, ReadPending, Stage,
             Poll, PersistOutcome, CleanupCommand, CleanupRejected, Trigger, Claim, Validate, Install, Switch,
             Restart, WaitProof, ProofTimeout, Retain, RollbackSwitch, RollbackRestart, WriteResult,
             AgentCrash, Reboot, Lapse, Fine, upVars
    <2> QED BY <1>0, <2>1 DEF Mishap
  <1>3. rejected' \in Requests \cup {None}
    <2>1. rejected' \in {rejected, claimed, None}
      BY DEF UpNext, HandleStep, HelperStep, MarkReady, Deliver, ReadResult, ReadClaimed, ReadPending, Stage,
             Poll, PersistOutcome, CleanupCommand, CleanupRejected, RemoveCompleted, Trigger, Claim, Validate,
             Install, Switch, Restart, WaitProof, ProofTimeout, Retain, RollbackSwitch, RollbackRestart,
             WriteResult, AgentCrash, Reboot, Lapse, requestVars, upVars
    <2> QED BY <1>0, <2>1
  <1>4. artifacts' \subseteq Commands
    <2>1. artifacts' \subseteq artifacts \/ (Stage /\ artifacts' = artifacts \cup {handle.cmd})
      BY DEF UpNext, HandleStep, HelperStep, MarkReady, Deliver, ReadResult, ReadClaimed, ReadPending, Stage,
             Poll, PersistOutcome, CleanupCommand, CleanupRejected, RemoveCompleted, Trigger, Claim, Validate,
             Install, Switch, Restart, WaitProof, ProofTimeout, Retain, RollbackSwitch, RollbackRestart,
             WriteResult, AgentCrash, Reboot, Lapse, requestVars, upVars
    <2>2. Stage => handle.cmd \in Commands
      BY <1>1 DEF Stage
    <2> QED BY <1>0, <2>1, <2>2
  <1>5. proof' \in 0 .. MaxCommand
    <2>1. proof' \in {proof, 0, pending.cmd}
      BY DEF UpNext, HandleStep, HelperStep, MarkReady, Deliver, ReadResult, ReadClaimed, ReadPending, Stage,
             Poll, PersistOutcome, CleanupCommand, CleanupRejected, Trigger, Claim, Validate, Install, Switch,
             Restart, RestartFails, AgentStarts, WaitProof, ProofTimeout, Retain, RollbackSwitch,
             RollbackRestart, WriteResult, AgentCrash, Reboot, Lapse, upVars
    <2> QED BY <1>0, <1>1, <2>1, Nothings
  <1>6. store' \subseteq Versions /\ proved' \subseteq Versions
    <2>1. CASE Install
      BY <1>0, <1>1, <2>1 DEF Install
    <2>2. CASE WaitProof
      BY <1>0, <1>1, <2>2 DEF WaitProof
    <2>3. CASE Retain
      BY <1>0, <2>3 DEF Retain
    <2>4. CASE UNCHANGED <<store, proved>>
      BY <1>0, <2>4
    <2> QED BY <2>1, <2>2, <2>3, <2>4
           DEF UpNext, HandleStep, HelperStep, MarkReady, Deliver, ReadResult, ReadClaimed, ReadPending, Stage,
               Poll, PersistOutcome, CleanupCommand, CleanupRejected, Trigger, Claim, Validate, Switch, Restart,
               ProofTimeout, RollbackSwitch, RollbackRestart, WriteResult, AgentCrash, Reboot, Lapse,
               systemVars, upVars
  <1>7. lapsed' \subseteq Commands
    <2>1. lapsed' = lapsed \/ \E c \in Commands : lapsed' = lapsed \cup {c}
      BY DEF UpNext, HandleStep, HelperStep, MarkReady, Deliver, ReadResult, ReadClaimed, ReadPending, Stage,
             Poll, PersistOutcome, CleanupCommand, CleanupRejected, Trigger, Claim, Validate, Install, Switch,
             Restart, WaitProof, ProofTimeout, Retain, RollbackSwitch, RollbackRestart, WriteResult,
             AgentCrash, Reboot, Lapse, upVars
    <2> QED BY <1>0, <2>1
  <1>8. record' \in [Commands -> HelperCodes \cup HandleCodes \cup {"none", "running"}]
    <2>1. \/ record' = record
          \/ \E c \in Commands : record' = [record EXCEPT ![c] = "running"]
          \/ PersistOutcome /\ record' = [record EXCEPT ![handle.cmd] = handle.code]
      BY DEF UpNext, HandleStep, HelperStep, MarkReady, Deliver, ReadResult, ReadClaimed, ReadPending, Stage,
             Poll, PersistOutcome, CleanupCommand, CleanupRejected, Trigger, Claim, Validate, Install, Switch,
             Restart, WaitProof, ProofTimeout, Retain, RollbackSwitch, RollbackRestart, WriteResult,
             AgentCrash, Reboot, Lapse, upVars
    <2>2. PersistOutcome => handle.code \in HelperCodes \cup HandleCodes
      BY DEF PersistOutcome, SwitchoverInv, CallInv, Fits
    <2> QED BY <2>1, <2>2 DEF RestTypes
  <1> QED BY <1>2, <1>3, <1>4, <1>5, <1>6, <1>7, <1>8 DEF RestTypes

\* Request files, link, versions on disk, proof, Agent, Handle and helper keep their
\* types for every number of commands and releases: a request, a result and a proof are
\* of a command there is, and a command ends with a code of the helper or of Handle.
THEOREM UpTypeCorrect == UpSpec => []UpTypeOK
  <1>1. UpInit => RestTypes
    <2> SUFFICES ASSUME UpInit PROVE RestTypes
      OBVIOUS
    <2>1. /\ rejected = None /\ artifacts = {} /\ proof = 0 /\ store = {1} /\ lapsed = {} /\ mishaps = 0 /\ proved = {1}
          /\ record = [c \in Commands |-> "none"]
      BY DEF UpInit
    <2>2. MaxMishaps \in Nat /\ MaxCommand \in Nat /\ 1 \in Versions
      BY UpgradeAssumption DEF Versions
    <2> QED BY <2>1, <2>2 DEF RestTypes
  <1>2. UpInv /\ RestTypes => UpTypeOK
    <2> SUFFICES ASSUME UpInv, RestTypes PROVE UpTypeOK
      OBVIOUS
    <2>1. {pending, claimed, rejected} \subseteq [cmd : Commands, prev : Versions] \cup {None}
      BY DEF UpInv, SharedTypes, RestTypes, Requests
    <2>2. result \in [cmd : Commands, prev : Versions, code : HelperCodes] \cup {NoResult}
      BY DEF UpInv, SharedTypes, HelperResults
    <2>3. agent \in [version : Versions, ready : SUBSET Signals, proofWritten : BOOLEAN]
      BY DEF UpInv, SharedTypes, AgentTypes
    <2>4. handle \in [pc : {"idle", "result", "claimed", "pending", "stage", "wait", "settle", "clean"},
                      cmd : 0 .. MaxCommand,
                      res : [cmd : Commands, prev : Versions, code : HelperCodes] \cup {NoResult},
                      code : HelperCodes \cup HandleCodes \cup {""},
                      staged : BOOLEAN,
                      clean : {"no", "completed", "rejected"}]
      BY DEF UpInv, SharedTypes, CallTypes, HelperResults, Codes
    <2>5. /\ helper.pc \in {"idle", "claim", "validate", "install", "switch", "restart", "prove",
                            "retain", "rollback", "restore", "report"}
          /\ helper.req \in [cmd : Commands, prev : Versions] \cup {None}
      BY DEF UpInv, SharedTypes, HelperTypes, Requests
    <2>6. target \in Versions
      BY DEF UpInv, SharedTypes
    <2> QED BY <2>1, <2>2, <2>3, <2>4, <2>5, <2>6 DEF RestTypes, UpTypeOK
  <1>3. SwitchoverInv /\ RestTypes /\ [UpNext]_upVars => SwitchoverInv' /\ RestTypes'
    BY SwitchoverStep, RestStep
  <1>4. SwitchoverInv => UpInv
    BY DEF SwitchoverInv
  <1> QED BY <1>1, <1>2, <1>3, <1>4, SwitchoverInit, PTL DEF UpSpec

-----------------------------------------------------------------------------
(* FleetUpgrades *)

FleetCommands == [agent : Members, order : Orders, token : Tokens]

OrderTypes == [pc : {"idle", "password", "check", "look", "insert", "answer", "created", "refused", "cut"},
               token : Tokens, recent : BOOLEAN, version : ReleaseNumbers \cup {0},
               agents : SUBSET Members, left : SUBSET Members, shown : BOOLEAN]

FleetTypes ==
    /\ login \in [Tokens -> [st : {"unused", "open", "expired", "deleted"}, recent : BOOLEAN]]
    /\ given \in [Tokens -> BOOLEAN]
    /\ order \in [Orders -> OrderTypes]
    /\ tx \in [of : SUBSET Orders, rows : SUBSET FleetCommands, fresh : BOOLEAN]

\* An order that is yet to commit, or was refused, has no command; one that was
\* committed has them all.
CommandsInv ==
    \A o \in Orders :
        /\ order[o].pc \in {"idle", "password", "check", "look", "insert", "refused"} => Commanded(o) = {}
        /\ order[o].pc \in {"answer", "created"} => Commanded(o) = order[o].agents
        /\ order[o].pc = "cut" => Commanded(o) \in {{}, order[o].agents}

\* The transaction is that of the one order that inserts, and has its rows so far.
TxInv ==
    /\ \A o \in Orders : o \in tx.of <=> order[o].pc = "insert"
    /\ \A o, p \in tx.of : o = p
    /\ \A c \in tx.rows : c.order \in tx.of /\ c.token = order[c.order].token /\ InTable(c.token)
    /\ \A o \in tx.of : {c.agent : c \in tx.rows} = order[o].agents \ order[o].left

\* What the Panel takes for a recent password is one.
PasswordInv ==
    /\ \A t \in Tokens : login[t].recent => given[t]
    /\ \A o \in Orders :
          /\ order[o].recent => order[o].shown
          /\ order[o].pc \in {"look", "insert"} => order[o].shown

\* What is left of an order is of it.
LeftInv == \A o \in Orders : order[o].left \subseteq order[o].agents

FleetInv == FleetTypes /\ CommandsInv /\ TxInv /\ PasswordInv /\ LeftInv

\* The records that the module starts from.
LEMMA OrderFacts ==
    /\ NoOrder \in OrderTypes /\ NoOrder.pc = "idle" /\ ~NoOrder.recent /\ ~NoOrder.shown
    /\ NoOrder.left = {}
    /\ NoTx \in [of : SUBSET Orders, rows : SUBSET FleetCommands, fresh : BOOLEAN]
    /\ NoTx.of = {} /\ NoTx.rows = {}
  BY FleetAssumption DEF NoOrder, NoTx, OrderTypes, Tokens, Orders, FleetCommands

\* The Panel starts in the invariant.
LEMMA FleetInvInit == FleetInit => FleetInv
  <1> SUFFICES ASSUME FleetInit PROVE FleetInv
    OBVIOUS
  <1>1. FleetTypes
    BY OrderFacts DEF FleetInit, FleetTypes, NoLogin
  <1>2. CommandsInv
    BY OrderFacts DEF FleetInit, CommandsInv, Commanded
  <1>3. TxInv
    BY OrderFacts DEF FleetInit, TxInv
  <1>4. PasswordInv
    BY OrderFacts DEF FleetInit, PasswordInv, NoLogin
  <1>5. LeftInv
    BY OrderFacts DEF FleetInit, LeftInv
  <1> QED BY <1>1, <1>2, <1>3, <1>4, <1>5 DEF FleetInv

\* A step of one order that creates nothing and leaves the transaction alone.
LEMMA OrderMoves ==
    ASSUME FleetInv, NEW o \in Orders, NEW r \in OrderTypes, order' = [order EXCEPT ![o] = r],
           order[o].pc # "insert", r.pc # "insert",
           r.pc \in {"answer", "created", "cut"} => order[o].pc = "answer" /\ r.agents = order[o].agents,
           r.pc \in {"idle", "password", "check", "look", "refused"} => order[o].pc # "answer",
           order[o].pc \notin {"created", "cut"},
           r.recent => r.shown, r.pc = "look" => r.shown, r.left \subseteq r.agents,
           UNCHANGED <<login, ordered, tx, given>>
    PROVE  FleetInv'
  <1>1. FleetTypes'
    BY DEF FleetInv, FleetTypes
  <1>2. CommandsInv'
    BY DEF FleetInv, FleetTypes, CommandsInv, Commanded, OrderTypes
  <1>3. TxInv'
    BY DEF FleetInv, FleetTypes, TxInv, OrderTypes, InTable
  <1>4. PasswordInv'
    BY DEF FleetInv, FleetTypes, PasswordInv, OrderTypes
  <1>5. LeftInv'
    BY DEF FleetInv, FleetTypes, LeftInv
  <1> QED BY <1>1, <1>2, <1>3, <1>4, <1>5 DEF FleetInv

\* Another writer leaves the rows of the transaction alone.
LEMMA WrittenFacts ==
    ASSUME FleetTypes, Written
    PROVE  /\ tx' \in [of : SUBSET Orders, rows : SUBSET FleetCommands, fresh : BOOLEAN]
           /\ tx'.of = tx.of /\ tx'.rows = {} /\ tx.rows = {}
  <1> DEFINE fresh == (tx.of = {})
  <1>1. fresh \in BOOLEAN
    OBVIOUS
  <1>2. tx' = [tx EXCEPT !.fresh = fresh] /\ tx.rows = {}
    BY DEF Written
  <1> HIDE DEF fresh
  <1> QED BY <1>1, <1>2 DEF FleetTypes

\* What is kept of an order that is over.
LEMMA OverFacts ==
    ASSUME FleetTypes, NEW o \in Orders,
           NEW pc \in {"answer", "created", "refused", "cut"}
    PROVE  /\ Over(o, pc) \in OrderTypes /\ Over(o, pc).pc = pc /\ Over(o, pc).agents = order[o].agents
           /\ ~Over(o, pc).recent /\ Over(o, pc).left = {}
  <1>1. order[o].agents \in SUBSET Members
    BY DEF FleetTypes, OrderTypes
  <1> QED BY <1>1, OrderFacts DEF Over, OrderTypes

\* Logging in and out, and the seven days.
LEMMA SessionKeeps ==
    ASSUME FleetInv, NEW t \in Tokens, LogIn(t) \/ LogOut(t) \/ SessionExpires(t) PROVE FleetInv'
  <1>1. FleetTypes'
    <2>1. login' \in [Tokens -> [st : {"unused", "open", "expired", "deleted"}, recent : BOOLEAN]]
      <3>1. PICK r \in [st : {"unused", "open", "expired", "deleted"}, recent : BOOLEAN] :
               login' = [login EXCEPT ![t] = r]
        <4>1. CASE LogIn(t) \/ LogOut(t)
          BY <4>1 DEF LogIn, LogOut, NoLogin
        <4>2. CASE SessionExpires(t)
          <5>1. [login[t] EXCEPT !.st = "expired"]
                   \in [st : {"unused", "open", "expired", "deleted"}, recent : BOOLEAN]
            BY DEF FleetInv, FleetTypes
          <5>2. login' = [login EXCEPT ![t] = [login[t] EXCEPT !.st = "expired"]]
            BY <4>2 DEF SessionExpires
          <5> QED BY <5>1, <5>2
        <4> QED BY <4>1, <4>2
      <3> QED BY <3>1 DEF FleetInv, FleetTypes
    <2>2. tx' \in [of : SUBSET Orders, rows : SUBSET FleetCommands, fresh : BOOLEAN]
      BY WrittenFacts DEF FleetInv, FleetTypes, LogIn, LogOut, SessionExpires
    <2>3. UNCHANGED <<given, order>>
      BY DEF LogIn, LogOut, SessionExpires
    <2> QED BY <2>1, <2>2, <2>3 DEF FleetInv, FleetTypes
  <1>2. CommandsInv'
    BY DEF FleetInv, CommandsInv, Commanded, LogIn, LogOut, SessionExpires
  <1>3. TxInv'
    <2>1. CASE LogIn(t) \/ LogOut(t)
      BY <2>1, WrittenFacts DEF FleetInv, TxInv, LogIn, LogOut
    <2>2. CASE SessionExpires(t)
      BY <2>2 DEF FleetInv, FleetTypes, TxInv, SessionExpires, InTable, FleetCommands
    <2> QED BY <2>1, <2>2
  <1>4. PasswordInv'
    BY DEF FleetInv, FleetTypes, PasswordInv, LogIn, LogOut, SessionExpires, NoLogin
  <1>5. LeftInv'
    BY DEF FleetInv, LeftInv, LogIn, LogOut, SessionExpires
  <1> QED BY <1>1, <1>2, <1>3, <1>4, <1>5 DEF FleetInv

\* handleReauth is of one session.
LEMMA PasswordKeeps ==
    ASSUME FleetInv, NEW o \in Orders, GivePassword(o) PROVE FleetInv'
  <1>0. order[o].token \in Tokens
    BY DEF FleetInv, FleetTypes, OrderTypes
  <1>1. FleetTypes'
    BY <1>0, WrittenFacts, OrderFacts DEF FleetInv, FleetTypes, GivePassword, Confirmed
  <1>2. CommandsInv'
    BY OrderFacts DEF FleetInv, FleetTypes, CommandsInv, Commanded, GivePassword, OrderAt
  <1>3. TxInv'
    BY WrittenFacts, OrderFacts DEF FleetInv, FleetTypes, TxInv, GivePassword, OrderAt
  <1>4. PasswordInv'
    BY <1>0, OrderFacts DEF FleetInv, FleetTypes, PasswordInv, GivePassword, Confirmed
  <1>5. LeftInv'
    BY OrderFacts DEF FleetInv, FleetTypes, LeftInv, GivePassword
  <1> QED BY <1>1, <1>2, <1>3, <1>4, <1>5 DEF FleetInv

\* After ten minutes.
LEMMA AgeKeeps ==
    ASSUME FleetInv, NEW t \in Tokens, PasswordAges(t) PROVE FleetInv'
  <1>0. ASSUME NEW p \in Orders
        PROVE  /\ order'[p] \in OrderTypes
               /\ order'[p].pc = order[p].pc /\ order'[p].token = order[p].token
               /\ order'[p].agents = order[p].agents /\ order'[p].left = order[p].left
               /\ order'[p].recent => order'[p].shown
               /\ order[p].pc # "check" => order'[p] = order[p]
    <2>1. order[p] \in OrderTypes /\ (order[p].recent => order[p].shown)
      BY DEF FleetInv, FleetTypes, PasswordInv
    <2>2. CASE order[p].pc = "check" /\ order[p].token = t
      <3>1. order'[p] = [order[p] EXCEPT !.recent = FALSE, !.shown = FALSE]
        BY <2>2 DEF PasswordAges, OrderAt
      <3> QED BY <2>1, <2>2, <3>1 DEF OrderTypes
    <2>3. CASE ~(order[p].pc = "check" /\ order[p].token = t)
      <3>1. order'[p] = order[p]
        BY <2>3 DEF PasswordAges, OrderAt
      <3> QED BY <2>1, <3>1
    <2> QED BY <2>2, <2>3
  <1>1. FleetTypes'
    <2>1. order' \in [Orders -> OrderTypes]
      <3>1. order' = [p \in Orders |-> order'[p]]
        BY DEF PasswordAges
      <3> QED BY <1>0, <3>1
    <2>2. /\ login' \in [Tokens -> [st : {"unused", "open", "expired", "deleted"}, recent : BOOLEAN]]
          /\ given' \in [Tokens -> BOOLEAN] /\ tx' = tx
      BY DEF FleetInv, FleetTypes, PasswordAges
    <2> QED BY <2>1, <2>2 DEF FleetInv, FleetTypes
  <1>2. CommandsInv'
    <2>1. ordered' = ordered
      BY DEF PasswordAges
    <2> QED BY <1>0, <2>1 DEF FleetInv, CommandsInv, Commanded
  <1>3. TxInv'
    <2>1. tx' = tx
      BY DEF PasswordAges
    <2>2. \A c \in tx.rows : c.order \in Orders /\ c.token \in Tokens
      BY DEF FleetInv, FleetTypes, FleetCommands
    <2>3. \A s \in Tokens : InTable(s)' = InTable(s)
      BY DEF FleetInv, FleetTypes, InTable, PasswordAges
    <2>4. tx.of \subseteq Orders
      BY DEF FleetInv, FleetTypes
    <2>5. \A c \in tx'.rows : c.order \in tx'.of /\ c.token = order'[c.order].token /\ InTable(c.token)'
      BY <1>0, <2>1, <2>2, <2>3 DEF FleetInv, TxInv
    <2> QED BY <1>0, <2>1, <2>4, <2>5 DEF FleetInv, TxInv
  <1>4. PasswordInv'
    <2>1. \A s \in Tokens : login'[s].recent => given'[s]
      BY DEF FleetInv, FleetTypes, PasswordInv, PasswordAges
    <2> QED BY <1>0, <2>1 DEF FleetInv, PasswordInv
  <1>5. LeftInv'
    BY <1>0 DEF FleetInv, LeftInv
  <1> QED BY <1>1, <1>2, <1>3, <1>4, <1>5 DEF FleetInv

\* A request is admitted.
LEMMA AskKeeps ==
    ASSUME FleetInv, NEW o \in Orders, NEW t \in Tokens, AskToConfirm(o, t) \/ AskForUpgrade(o, t)
    PROVE  FleetInv'
  <1>1. CASE AskToConfirm(o, t)
    <2> DEFINE r == [NoOrder EXCEPT !.pc = "password", !.token = t]
    <2>1. r \in OrderTypes /\ r.pc = "password" /\ ~r.recent /\ r.left = {}
      BY OrderFacts DEF OrderTypes
    <2>2. order' = [order EXCEPT ![o] = r] /\ order[o].pc = "idle" /\ UNCHANGED <<login, ordered, tx, given>>
      BY <1>1 DEF AskToConfirm, Free, OrderAt
    <2> HIDE DEF r
    <2> QED BY <2>1, <2>2, OrderMoves
  <1>2. CASE AskForUpgrade(o, t)
    <2>1. PICK v \in ReleaseNumbers, as \in SUBSET Members \ {{}} :
             order' = [order EXCEPT ![o] = [NoOrder EXCEPT !.pc = "check", !.token = t, !.version = v,
                                               !.recent = login[t].recent, !.shown = given[t], !.agents = as]]
      BY <1>2 DEF AskForUpgrade
    <2> DEFINE r == [NoOrder EXCEPT !.pc = "check", !.token = t, !.version = v,
                                    !.recent = login[t].recent, !.shown = given[t], !.agents = as]
    <2>2. r \in OrderTypes /\ r.pc = "check" /\ (r.recent => r.shown) /\ r.left = {}
      BY OrderFacts DEF OrderTypes, FleetInv, FleetTypes, PasswordInv
    <2>3. order' = [order EXCEPT ![o] = r] /\ order[o].pc = "idle" /\ UNCHANGED <<login, ordered, tx, given>>
      BY <1>2, <2>1 DEF AskForUpgrade, Free, OrderAt
    <2> HIDE DEF r
    <2> QED BY <2>2, <2>3, OrderMoves
  <1> QED BY <1>1, <1>2

\* The steps of an order that write nothing.
LEMMA CheckKeeps ==
    ASSUME FleetInv, NEW o \in Orders,
           PasswordRefused(o) \/ CheckOrder(o) \/ OrderRefused(o) \/ AnswerCreated(o) \/ ReadPasswordAges(o)
    PROVE  FleetInv'
  <1>0. order[o] \in OrderTypes /\ FleetTypes
    BY DEF FleetInv, FleetTypes
  <1>1. CASE PasswordRefused(o)
    BY <1>1, OrderFacts, OrderMoves DEF PasswordRefused, OrderAt
  <1>2. CASE CheckOrder(o)
    <2> DEFINE r == [order[o] EXCEPT !.pc = "look", !.left = order[o].agents]
    <2>1. r \in OrderTypes /\ r.pc = "look" /\ r.shown /\ r.left \subseteq r.agents
      BY <1>0, <1>2 DEF OrderTypes, CheckOrder, ConfirmedRecently, FleetInv, PasswordInv
    <2>2. order' = [order EXCEPT ![o] = r] /\ order[o].pc = "check" /\ UNCHANGED <<login, ordered, tx, given>>
      BY <1>0, <1>2 DEF CheckOrder, OrderAt, FleetTypes
    <2> HIDE DEF r
    <2> QED BY <2>1, <2>2, OrderMoves
  <1>3. CASE OrderRefused(o)
    BY <1>0, <1>3, OverFacts, OrderMoves DEF OrderRefused, OrderAt, Ends
  <1>4. CASE AnswerCreated(o)
    BY <1>0, <1>4, OverFacts, OrderMoves DEF AnswerCreated, OrderAt, Ends
  <1>5. CASE ReadPasswordAges(o)
    <2> DEFINE r == [order[o] EXCEPT !.recent = FALSE, !.shown = FALSE]
    <2>1. r \in OrderTypes /\ r.pc = order[o].pc /\ ~r.recent /\ r.left \subseteq r.agents
      BY <1>0 DEF OrderTypes, FleetInv, LeftInv
    <2>2. order' = [order EXCEPT ![o] = r] /\ order[o].pc = "check" /\ UNCHANGED <<login, ordered, tx, given>>
      BY <1>0, <1>5 DEF ReadPasswordAges, OrderAt, FleetTypes
    <2> HIDE DEF r
    <2> QED BY <2>1, <2>2, OrderMoves
  <1> QED BY <1>1, <1>2, <1>3, <1>4, <1>5

\* An Agent suits, or the order is refused.
LEMMA LookKeeps ==
    ASSUME FleetInv, NEW o \in Orders, NEW a \in Members, LookAt(o, a) PROVE FleetInv'
  <1>0. order[o] \in OrderTypes /\ FleetTypes /\ order[o].pc = "look" /\ order[o].shown
    BY DEF FleetInv, FleetTypes, PasswordInv, LookAt, OrderAt
  <1>1. CASE Suits(a, order[o].version)
    <2> DEFINE r == [order[o] EXCEPT !.left = order[o].left \ {a}]
    <2>1. r \in OrderTypes /\ r.pc = "look" /\ r.shown /\ r.left \subseteq r.agents
      BY <1>0 DEF OrderTypes, FleetInv, LeftInv
    <2>2. order' = [order EXCEPT ![o] = r] /\ UNCHANGED <<login, ordered, tx, given>>
      BY <1>0, <1>1 DEF LookAt, FleetTypes
    <2> HIDE DEF r
    <2> QED BY <1>0, <2>1, <2>2, OrderMoves
  <1>2. CASE ~Suits(a, order[o].version)
    <2>1. order' = [order EXCEPT ![o] = Over(o, "refused")] /\ UNCHANGED <<login, ordered, tx, given>>
      BY <1>2 DEF LookAt, Ends
    <2> QED BY <1>0, <2>1, OverFacts, OrderMoves
  <1> QED BY <1>1, <1>2

\* The mutex of CreateBatch.
LEMMA BeginKeeps ==
    ASSUME FleetInv, NEW o \in Orders, BeginBatch(o) PROVE FleetInv'
  <1>0. /\ order[o] \in OrderTypes /\ order[o].pc = "look" /\ order[o].shown
        /\ tx'.of = {o} /\ tx'.rows = {} /\ tx' \in [of : SUBSET Orders, rows : SUBSET FleetCommands, fresh : BOOLEAN]
        /\ order'[o].pc = "insert" /\ order'[o].left = order'[o].agents
    BY OrderFacts DEF FleetInv, FleetTypes, PasswordInv, BeginBatch, OrderAt, NoTx, OrderTypes
  <1>1. FleetTypes'
    BY <1>0 DEF FleetInv, FleetTypes, BeginBatch, OrderTypes
  <1>2. CommandsInv'
    BY <1>0 DEF FleetInv, FleetTypes, CommandsInv, Commanded, BeginBatch, OrderTypes
  <1>3. TxInv'
    <2>1. \A p \in Orders : p # o => order'[p] = order[p]
      BY DEF BeginBatch, FleetInv, FleetTypes
    <2>2. tx.of = {}
      BY DEF BeginBatch
    <2>3. \A p \in Orders : p \in tx'.of <=> order'[p].pc = "insert"
      BY <1>0, <2>1, <2>2 DEF FleetInv, TxInv
    <2>4. {c.agent : c \in tx'.rows} = {}
      BY <1>0
    <2> QED BY <1>0, <2>3, <2>4 DEF TxInv
  <1>4. PasswordInv'
    BY <1>0 DEF FleetInv, FleetTypes, PasswordInv, BeginBatch, OrderTypes
  <1>5. LeftInv'
    BY <1>0 DEF FleetInv, FleetTypes, LeftInv, BeginBatch
  <1> QED BY <1>1, <1>2, <1>3, <1>4, <1>5 DEF FleetInv

\* A command is inserted for an Agent that had none.
LEMMA InsertKeeps ==
    ASSUME FleetInv, NEW o \in Orders, NEW a \in Members, InsertCommand(o, a) PROVE FleetInv'
  <1> DEFINE c == CommandFor(o, a)
             r == [order[o] EXCEPT !.left = order[o].left \ {a}]
  <1>0. /\ order[o] \in OrderTypes /\ order[o].pc = "insert" /\ a \in order[o].left /\ o \in tx.of
        /\ c \in FleetCommands /\ c.agent = a /\ c.order = o /\ c.token = order[o].token /\ InTable(c.token)
        /\ tx'.rows = tx.rows \cup {c} /\ tx'.of = tx.of
        /\ tx' \in [of : SUBSET Orders, rows : SUBSET FleetCommands, fresh : BOOLEAN]
        /\ ordered' = ordered /\ login' = login /\ given' = given
    BY DEF FleetInv, FleetTypes, TxInv, InsertCommand, OrderAt, Insert, CommandFor, FleetCommands,
           OrderTypes, SessionKnown
  <1> HIDE DEF c
  <1>r. /\ r \in OrderTypes /\ r.pc = "insert" /\ r.left = order[o].left \ {a}
        /\ r.token = order[o].token /\ r.agents = order[o].agents
        /\ r.recent = order[o].recent /\ r.shown = order[o].shown
    BY <1>0 DEF OrderTypes
  <1>o. order' = [order EXCEPT ![o] = r]
    BY DEF InsertCommand, FleetInv, FleetTypes
  <1> HIDE DEF r
  <1>p. /\ order' \in [Orders -> OrderTypes] /\ order'[o] = r
        /\ \A p \in Orders : p # o => order'[p] = order[p]
    BY <1>r, <1>o DEF FleetInv, FleetTypes
  <1>1. FleetTypes'
    BY <1>0, <1>p DEF FleetInv, FleetTypes
  <1>2. CommandsInv'
    BY <1>0, <1>r, <1>p DEF FleetInv, CommandsInv, Commanded
  <1>3. TxInv'
    <2>1. \A p \in Orders : order'[p].pc = order[p].pc /\ order'[p].token = order[p].token
                            /\ order'[p].agents = order[p].agents
      BY <1>0, <1>r, <1>p
    <2>2. \A s : InTable(s)' = InTable(s)
      BY <1>0 DEF InTable
    <2>3. \A d \in tx'.rows : d.order \in tx'.of /\ d.token = order'[d.order].token /\ InTable(d.token)'
      BY <1>0, <2>1, <2>2 DEF FleetInv, FleetTypes, TxInv
    <2>4. \A p \in tx'.of : p = o
      BY <1>0 DEF FleetInv, TxInv
    <2>5. {d.agent : d \in tx'.rows} = {d.agent : d \in tx.rows} \cup {a}
      BY <1>0
    <2>6. a \in order[o].agents
      BY <1>0 DEF FleetInv, LeftInv
    <2>7. {d.agent : d \in tx'.rows} = order'[o].agents \ order'[o].left
      BY <1>0, <1>r, <1>p, <2>5, <2>6 DEF FleetInv, TxInv
    <2>8. \A p \in Orders : p \in tx'.of <=> order'[p].pc = "insert"
      BY <1>0, <2>1 DEF FleetInv, TxInv
    <2> QED BY <2>3, <2>4, <2>7, <2>8 DEF TxInv
  <1>4. PasswordInv'
    BY <1>0, <1>r, <1>p DEF FleetInv, PasswordInv
  <1>5. LeftInv'
    BY <1>0, <1>r, <1>p DEF FleetInv, LeftInv
  <1> QED BY <1>1, <1>2, <1>3, <1>4, <1>5 DEF FleetInv

\* The only step that creates commands: it creates them all.
LEMMA CommitKeeps ==
    ASSUME FleetInv, NEW o \in Orders, CommitBatch(o) PROVE FleetInv'
  <1>0. /\ order[o] \in OrderTypes /\ order[o].pc = "insert" /\ order[o].left = {} /\ o \in tx.of
        /\ FleetTypes /\ ordered' = ordered \cup tx.rows /\ tx' = NoTx
        /\ login' = login /\ given' = given
    BY DEF FleetInv, FleetTypes, TxInv, CommitBatch, OrderAt
  <1>r. order' = [order EXCEPT ![o] = Over(o, "answer")]
    BY DEF CommitBatch, Ends
  <1>p. /\ order' \in [Orders -> OrderTypes]
        /\ order'[o].pc = "answer" /\ order'[o].agents = order[o].agents
        /\ ~order'[o].recent /\ order'[o].left = {}
        /\ \A p \in Orders : p # o => order'[p] = order[p]
    BY <1>0, <1>r, OverFacts DEF FleetTypes
  <1>1. FleetTypes'
    BY <1>0, <1>p, OrderFacts DEF FleetTypes
  <1>2. CommandsInv'
    <2>1. Commanded(o) = {}
      BY <1>0 DEF FleetInv, CommandsInv
    <2>2. \A c \in tx.rows : c.order = o
      BY <1>0 DEF FleetInv, TxInv
    <2>3. {c.agent : c \in tx.rows} = order[o].agents
      BY <1>0 DEF FleetInv, TxInv
    <2>4. Commanded(o)' = order[o].agents
      BY <1>0, <2>1, <2>2, <2>3 DEF Commanded
    <2>5. \A p \in Orders : p # o => Commanded(p)' = Commanded(p)
      BY <1>0, <2>2 DEF Commanded
    <2> QED BY <1>p, <2>4, <2>5 DEF FleetInv, CommandsInv
  <1>3. TxInv'
    <2>1. \A p \in Orders : order'[p].pc # "insert"
      BY <1>0, <1>p DEF FleetInv, TxInv
    <2> QED BY <1>0, <2>1, OrderFacts DEF TxInv
  <1>4. PasswordInv'
    BY <1>0, <1>p DEF FleetInv, PasswordInv
  <1>5. LeftInv'
    BY <1>p DEF FleetInv, LeftInv
  <1> QED BY <1>1, <1>2, <1>3, <1>4, <1>5 DEF FleetInv

\* A rollback creates none.
LEMMA FailKeeps ==
    ASSUME FleetInv, NEW o \in Orders, BatchFails(o) PROVE FleetInv'
  <1>0. /\ order[o].pc = "insert" /\ o \in tx.of
        /\ FleetTypes /\ ordered' = ordered /\ tx' = NoTx
        /\ login' = login /\ given' = given
    BY DEF FleetInv, TxInv, BatchFails, OrderAt
  <1>r. order' = [order EXCEPT ![o] = Over(o, "refused")]
    BY DEF BatchFails, Ends
  <1>p. /\ order' \in [Orders -> OrderTypes]
        /\ order'[o].pc = "refused" /\ ~order'[o].recent /\ order'[o].left = {}
        /\ \A p \in Orders : p # o => order'[p] = order[p]
    BY <1>0, <1>r, OverFacts DEF FleetTypes
  <1>1. FleetTypes'
    BY <1>0, <1>p, OrderFacts DEF FleetTypes
  <1>2. CommandsInv'
    BY <1>0, <1>p DEF FleetInv, CommandsInv, Commanded
  <1>3. TxInv'
    <2>1. \A p \in Orders : order'[p].pc # "insert"
      BY <1>0, <1>p DEF FleetInv, TxInv
    <2> QED BY <1>0, <2>1, OrderFacts DEF TxInv
  <1>4. PasswordInv'
    BY <1>0, <1>p DEF FleetInv, PasswordInv
  <1>5. LeftInv'
    BY <1>p DEF FleetInv, LeftInv
  <1> QED BY <1>1, <1>2, <1>3, <1>4, <1>5 DEF FleetInv

\* Whatever else is written, no order moves.
LEMMA WritersKeep ==
    ASSUME FleetInv, UNCHANGED <<login, order, ordered, given>>, Written \/ UNCHANGED tx
    PROVE  FleetInv'
  <1>0. /\ FleetTypes /\ tx'.of = tx.of /\ tx'.rows = tx.rows
        /\ tx' \in [of : SUBSET Orders, rows : SUBSET FleetCommands, fresh : BOOLEAN]
    BY WrittenFacts DEF FleetInv, FleetTypes
  <1>1. FleetTypes'
    BY <1>0 DEF FleetTypes
  <1>2. CommandsInv' /\ PasswordInv' /\ LeftInv'
    BY DEF FleetInv, CommandsInv, Commanded, PasswordInv, LeftInv
  <1>3. TxInv'
    BY <1>0 DEF FleetInv, TxInv, InTable
  <1> QED BY <1>1, <1>2, <1>3 DEF FleetInv

\* What a crash cuts off has all of its commands or none.
LEMMA CrashKeeps ==
    ASSUME FleetInv, PanelCrash PROVE FleetInv'
  <1>0. /\ FleetTypes /\ tx' = NoTx /\ UNCHANGED <<login, ordered, given>>
    BY DEF FleetInv, PanelCrash
  <1>p. ASSUME NEW p \in Orders
        PROVE  /\ order'[p] \in OrderTypes /\ order'[p].agents = order[p].agents
               /\ \/ order'[p] = order[p] /\ order[p].pc \in {"idle", "created", "refused", "cut"}
                  \/ /\ order'[p].pc = "cut" /\ ~order'[p].recent /\ order'[p].left = {}
                     /\ order[p].pc \in {"password", "check", "look", "insert", "answer"}
    <2>1. order[p] \in OrderTypes
      BY <1>0 DEF FleetTypes
    <2>2. CASE Ended(p)
      <3>1. order'[p] = order[p]
        BY <2>2 DEF PanelCrash
      <3> QED BY <2>1, <2>2, <3>1 DEF Ended
    <2>3. CASE ~Ended(p)
      <3>1. order'[p] = Over(p, "cut")
        BY <2>3 DEF PanelCrash
      <3>2. order[p].pc \in {"password", "check", "look", "insert", "answer"}
        BY <2>1, <2>3 DEF Ended, OrderTypes
      <3> QED BY <1>0, <3>1, <3>2, OverFacts
    <2> QED BY <2>2, <2>3
  <1>1. FleetTypes'
    <2>1. order' = [p \in Orders |-> order'[p]]
      BY DEF PanelCrash
    <2>2. order' \in [Orders -> OrderTypes]
      BY <1>p, <2>1
    <2> QED BY <1>0, <2>2, OrderFacts DEF FleetTypes
  <1>2. CommandsInv'
    <2>1. \A p \in Orders : Commanded(p)' = Commanded(p)
      BY <1>0 DEF Commanded
    <2> QED BY <1>p, <2>1 DEF FleetInv, CommandsInv
  <1>3. TxInv'
    <2>1. \A p \in Orders : order'[p].pc # "insert"
      BY <1>p
    <2> QED BY <1>0, <2>1, OrderFacts DEF TxInv
  <1>4. PasswordInv'
    BY <1>0, <1>p DEF FleetInv, PasswordInv
  <1>5. LeftInv'
    BY <1>p DEF FleetInv, LeftInv
  <1> QED BY <1>1, <1>2, <1>3, <1>4, <1>5 DEF FleetInv

\* Every step keeps the invariant.
LEMMA FleetInvStep == FleetInv /\ [FleetNext]_fleetVars => FleetInv'
  <1> SUFFICES ASSUME FleetInv, [FleetNext]_fleetVars PROVE FleetInv'
    OBVIOUS
  <1>1. CASE UNCHANGED fleetVars
    BY <1>1, WritersKeep DEF fleetVars
  <1>2. CASE \E t \in Tokens : LogIn(t) \/ LogOut(t) \/ SessionExpires(t) \/ PasswordAges(t)
    BY <1>2, SessionKeeps, AgeKeeps
  <1>3. CASE \E o \in Orders, t \in Tokens : AskToConfirm(o, t) \/ AskForUpgrade(o, t)
    BY <1>3, AskKeeps
  <1>4. CASE \E o \in Orders :
                \/ GivePassword(o) \/ PasswordRefused(o) \/ CheckOrder(o) \/ OrderRefused(o)
                \/ BeginBatch(o) \/ CommitBatch(o) \/ BatchFails(o) \/ AnswerCreated(o)
                \/ ReadPasswordAges(o)
    BY <1>4, PasswordKeeps, CheckKeeps, BeginKeeps, CommitKeeps, FailKeeps
  <1>5. CASE \E o \in Orders, a \in Members : LookAt(o, a) \/ InsertCommand(o, a)
    BY <1>5, LookKeeps, InsertKeeps
  <1>6. CASE \/ \E v \in ReleaseNumbers : ImportRelease(v) \/ ReleaseLapses(v)
             \/ \E a \in Members, v \in ReleaseNumbers : MemberChanges(a, v)
    <2>1. UNCHANGED <<login, order, ordered, given>> /\ (Written \/ UNCHANGED tx)
      BY <1>6 DEF ImportRelease, ReleaseLapses, MemberChanges
    <2> QED BY <2>1, WritersKeep
  <1>7. CASE PanelCrash
    BY <1>7, CrashKeeps
  <1> QED BY <1>1, <1>2, <1>3, <1>4, <1>5, <1>6, <1>7 DEF FleetNext

\* Inductive.
LEMMA FleetInvariant == FleetSpec => []FleetInv
  BY FleetInvInit, FleetInvStep, PTL DEF FleetSpec

\* An order for a fleet is one command for each Agent or none, for every number of
\* sessions, orders and Agents: CreateBatch commits once.
THEOREM OrdersAreWhole == FleetSpec => []FleetIsWhole
  <1>1. FleetInv => FleetIsWhole
    <2> SUFFICES ASSUME FleetInv, NEW o \in Orders
                 PROVE  /\ Commanded(o) \in {{}, order[o].agents}
                        /\ order[o].pc = "created" => Commanded(o) = order[o].agents
                        /\ order[o].pc = "refused" => Commanded(o) = {}
      BY DEF FleetIsWhole, OrderAt
    <2> QED BY DEF FleetInv, FleetTypes, OrderTypes, CommandsInv
  <1> QED BY <1>1, FleetInvariant, PTL

\* A command is created only in a session that is there and in which the password was
\* given a short time before the order was admitted, however the sessions change while
\* handleCreateUpgrades looks at the Agents.
THEOREM OrdersWereConfirmed == FleetSpec => UpgradesAreConfirmed
  <1>1. FleetInv /\ [FleetNext]_fleetVars
          => [\A c \in ordered' \ ordered :
                 /\ InTable(c.token)
                 /\ order[c.order].shown]_fleetVars
    <2> SUFFICES ASSUME FleetInv, FleetNext, NEW c \in ordered' \ ordered
                 PROVE  InTable(c.token) /\ order[c.order].shown
      BY DEF fleetVars
    <2>1. PICK o \in Orders : CommitBatch(o)
      BY DEF FleetNext, LogIn, LogOut, SessionExpires, PasswordAges, AskToConfirm, AskForUpgrade,
             GivePassword, PasswordRefused, CheckOrder, OrderRefused, BeginBatch, BatchFails,
             AnswerCreated, ReadPasswordAges, LookAt, InsertCommand, Insert, ImportRelease,
             ReleaseLapses, MemberChanges, PanelCrash
    <2>2. c \in tx.rows
      BY <2>1 DEF CommitBatch
    <2>3. c.order \in Orders /\ order[c.order].pc = "insert" /\ InTable(c.token)
      BY <2>2 DEF FleetInv, FleetTypes, TxInv, FleetCommands
    <2> QED BY <2>3 DEF FleetInv, PasswordInv
  <1> QED BY <1>1, FleetInvariant, PTL DEF FleetSpec, UpgradesAreConfirmed

-----------------------------------------------------------------------------
\* What no step of an order has to know of the types.
RestFleetTypes ==
    /\ imported \in [ReleaseNumbers -> {"no", "valid", "lapsed"}]
    /\ ordered \subseteq FleetCommands

LEMMA RestFleetStep == ASSUME FleetInv, RestFleetTypes, [FleetNext]_fleetVars PROVE RestFleetTypes'
  <1>1. imported' \in [ReleaseNumbers -> {"no", "valid", "lapsed"}]
    <2>1. \/ imported' = imported
          \/ \E v \in ReleaseNumbers : imported' = [imported EXCEPT ![v] = "valid"]
          \/ \E v \in ReleaseNumbers : imported' = [imported EXCEPT ![v] = "lapsed"]
      BY DEF FleetNext, LogIn, LogOut, SessionExpires, PasswordAges, AskToConfirm, AskForUpgrade, GivePassword,
             PasswordRefused, CheckOrder, OrderRefused, BeginBatch, CommitBatch, BatchFails, AnswerCreated,
             ReadPasswordAges, LookAt, InsertCommand, ImportRelease, ReleaseLapses, MemberChanges, PanelCrash,
             fleetVars
    <2> QED BY <2>1 DEF RestFleetTypes
  <1>2. ordered' \subseteq FleetCommands
    <2>1. ordered' = ordered \/ ordered' = ordered \cup tx.rows
      BY DEF FleetNext, LogIn, LogOut, SessionExpires, PasswordAges, AskToConfirm, AskForUpgrade, GivePassword,
             PasswordRefused, CheckOrder, OrderRefused, BeginBatch, CommitBatch, BatchFails, AnswerCreated,
             ReadPasswordAges, LookAt, InsertCommand, Insert, ImportRelease, ReleaseLapses, MemberChanges,
             PanelCrash, fleetVars
    <2>2. tx.rows \subseteq FleetCommands
      BY DEF FleetInv, FleetTypes
    <2> QED BY <2>1, <2>2 DEF RestFleetTypes
  <1> QED BY <1>1, <1>2 DEF RestFleetTypes

\* Sessions, releases, orders, the transaction and the commands keep their types for
\* every number of sessions, orders, Agents and releases.
THEOREM FleetTypeCorrect == FleetSpec => []FleetTypeOK
  <1>1. FleetInit => RestFleetTypes
    BY DEF FleetInit, RestFleetTypes
  <1>2. FleetInv /\ RestFleetTypes => FleetTypeOK
    BY DEF FleetInv, FleetTypes, LeftInv, OrderTypes, RestFleetTypes, FleetTypeOK, FleetCommands
  <1>3. FleetInv /\ RestFleetTypes /\ [FleetNext]_fleetVars => FleetInv' /\ RestFleetTypes'
    BY FleetInvStep, RestFleetStep
  <1> QED BY <1>1, <1>2, <1>3, FleetInvInit, PTL DEF FleetSpec
=============================================================================
