---------------------------- MODULE AgentIdentity ----------------------------
(***************************************************************************)
(* The certificate of one enrolled Agent, from both sides: renewal by the  *)
(* Agent (internal/agent/identity.go, called by runtime.go at start and on *)
(* reload), the Panel's identity row (internal/panel/api/enrollment.go),   *)
(* the check of every request (agentauth.go), and the control sessions     *)
(* that renewal and revocation must end (api/control.go, control/hub.go).  *)
(*                                                                         *)
(* A certificate is its serial number; serials are issued in order.        *)
(***************************************************************************)
EXTENDS Integers

CONSTANTS
    MaxSerial,    \* bound on the certificates issued
    MaxSession,   \* bound on the control sessions
    MaxAsk,       \* bound on the renewal requests
    IdentityFaults    \* what may happen, of the list below

ASSUME IdentityAssumption ==
    /\ MaxSerial \in Nat \ {0} /\ MaxSession \in Nat /\ MaxAsk \in Nat
    /\ IdentityFaults \subseteq {"crash", "lost_response", "drop", "reload", "revoke"}

Serials == 1..MaxSerial
Sessions == 1..MaxSession
Asks == 1..MaxAsk

VARIABLES
    row,      \* agent_identities: the accepted serial, and whether it is revoked
    age,      \* of each certificate: more than 30 days left, fewer, none
    issued,   \* the highest serial IssueAgent has given out
    disk,     \* the serial of the certificate file
    client,   \* the serials used by the control client and by the reporter
    running,       \* whether the Agent's runtime runs
    renewal,  \* the call of RenewIfNeeded under way: 0, or its request
    ask,      \* the renewal requests, as the Panel sees them
    sess,     \* the control sessions, as the Panel sees them
    mine,     \* the session the Agent's control client holds; 0 for none
    hub,      \* Hub.sessions of the Agent; 0 when it is offline
    revoking  \* the call of handleRevokeAgent

agentVars == <<disk, client, running, renewal, mine>>
identityVars == <<row, age, issued, agentVars, ask, sess, hub, revoking>>

-----------------------------------------------------------------------------
NoAsk == [st |-> "off", why |-> "start", serial |-> 0, new |-> 0]
NoSession == [st |-> "off", serial |-> 0]

IdentityInit ==
    /\ row = [serial |-> 1, revoked |-> FALSE]
    /\ age = [k \in Serials |-> "fresh"]
    /\ issued = 1
    /\ disk = 1
    /\ client = [control |-> 0, report |-> 0]
    /\ running = FALSE
    /\ renewal = 0
    /\ ask = [a \in Asks |-> NoAsk]
    /\ sess = [s \in Sessions |-> NoSession]
    /\ mine = 0
    /\ hub = 0
    /\ revoking = "no"

\* requireAgent: the row must hold this very serial, not revoked, not expired.
RequireAgent(k) ==
    /\ k = row.serial
    /\ ~row.revoked
    /\ age[k] # "expired"

-----------------------------------------------------------------------------
(* The Agent: start, reload, renewal *)

\* What the runtime uses once buildSnapshot has succeeded with certificate k.
\* Reload replaces the reporter; the control client that runs stays.
Built(why, k) ==
    /\ running' = TRUE
    /\ client' = [control |-> IF why = "start" THEN k ELSE client.control, report |-> k]

\* buildSnapshot loads the identity; a certificate with more than 30 days left
\* is used as it is, otherwise RenewIfNeeded sends a request.
Build(why) ==
    /\ renewal = 0
    /\ \/ /\ age[disk] = "fresh"
          /\ Built(why, disk)
          /\ UNCHANGED <<renewal, ask>>
       \/ /\ age[disk] # "fresh"
          /\ \E a \in Asks :
                /\ ask[a].st = "off"
                /\ \A b \in Asks : b < a => ask[b].st # "off"
                /\ ask' = [ask EXCEPT ![a] = [st |-> "sent", why |-> why, serial |-> disk, new |-> 0]]
                /\ renewal' = a
          /\ UNCHANGED <<running, client>>
    /\ UNCHANGED <<row, age, issued, disk, sess, mine, hub, revoking>>

\* systemd starts the Agent, also after NewRuntime failed.
Start == ~running /\ Build("start")

\* SIGHUP or a reload_config command.
Reload == "reload" \in IdentityFaults /\ running /\ Build("reload")

\* Mutant: the new certificate is used, and the file stays as it is.
ReceiveCertificateInMemory ==
    /\ renewal # 0
    /\ ask[renewal].st = "ok"
    /\ Built(ask[renewal].why, ask[renewal].new)
    /\ renewal' = 0
    /\ ask' = [ask EXCEPT ![renewal].st = "gone"]
    /\ UNCHANGED <<row, age, issued, disk, sess, mine, hub, revoking>>

\* The answer: the file is replaced first, then the identity in memory.
ReceiveCertificate ==
    /\ renewal # 0
    /\ ask[renewal].st = "ok"
    /\ disk' = ask[renewal].new
    /\ Built(ask[renewal].why, ask[renewal].new)
    /\ renewal' = 0
    /\ ask' = [ask EXCEPT ![renewal].st = "gone"]
    /\ UNCHANGED <<row, age, issued, sess, mine, hub, revoking>>

\* RenewIfNeeded fails: refused, or no answer in time, or one that is lost.
\* The start or the reload fails with it.
RenewalFails ==
    /\ renewal # 0
    /\ ask[renewal].st = "refused" \/ "lost_response" \in IdentityFaults
    /\ renewal' = 0
    /\ UNCHANGED <<row, age, issued, disk, client, running, ask, sess, mine, hub, revoking>>

AgentCrash ==
    /\ "crash" \in IdentityFaults
    /\ running
    /\ running' = FALSE
    /\ renewal' = 0
    /\ mine' = 0
    /\ UNCHANGED <<row, age, issued, disk, client, ask, sess, hub, revoking>>

-----------------------------------------------------------------------------
(* The Panel: renewal and revocation *)

\* requireAgent in front of handleRenew, and its own check that it is due.
AdmitRenewal(a) ==
    /\ ask[a].st = "sent"
    /\ ask' = [ask EXCEPT ![a].st =
                  IF RequireAgent(ask[a].serial) /\ age[ask[a].serial] = "due"
                  THEN "admitted" ELSE "refused"]
    /\ UNCHANGED <<row, age, issued, agentVars, sess, hub, revoking>>

\* Mutant: the UPDATE does not look at revoked_at.
StillCurrentUnchecked(k) == row.serial = k

\* The condition of the UPDATE: nothing has changed since the check.
StillCurrent(k) == row.serial = k /\ ~row.revoked

\* IssueAgent, then the UPDATE: the old serial is retired.
CommitRenewal(a) ==
    /\ ask[a].st = "admitted"
    /\ issued < MaxSerial
    /\ issued' = issued + 1
    /\ IF StillCurrent(ask[a].serial)
       THEN /\ row' = [row EXCEPT !.serial = issued + 1]
            /\ ask' = [ask EXCEPT ![a].st = "ok", ![a].new = issued + 1]
       ELSE /\ ask' = [ask EXCEPT ![a].st = "refused"]
            /\ UNCHANGED row
    /\ UNCHANGED <<age, agentVars, sess, hub, revoking>>

\* handleRevokeAgent commits the revocation ...
Revoke ==
    /\ "revoke" \in IdentityFaults
    /\ ~row.revoked
    /\ row' = [row EXCEPT !.revoked = TRUE]
    /\ revoking' = "committed"
    /\ UNCHANGED <<age, issued, agentVars, ask, sess, hub>>

Closing(s) == [sess EXCEPT ![s].st = "closing"]

\* ... and Hub.Disconnect closes the session there is.
Disconnect ==
    /\ revoking = "committed"
    /\ revoking' = "done"
    /\ sess' = IF hub = 0 THEN sess ELSE Closing(hub)
    /\ hub' = 0
    /\ UNCHANGED <<row, age, issued, agentVars, ask>>

-----------------------------------------------------------------------------
(* Control sessions *)

\* runSession dials; requireAgent lets the request through to handleControl.  A
\* refusal is retried after 15 minutes.
Dial(s) ==
    /\ running
    /\ mine = 0
    /\ sess[s].st = "off"
    /\ \A r \in Sessions : r < s => sess[r].st # "off"
    /\ RequireAgent(client.control)
    /\ sess' = [sess EXCEPT ![s] = [st |-> "admitted", serial |-> client.control]]
    /\ mine' = s
    /\ UNCHANGED <<row, age, issued, disk, client, running, renewal, ask, hub, revoking>>

\* Mutant: the session in the hub is not closed by the new one.
RegisterBeside(s) ==
    /\ sess[s].st = "admitted"
    /\ sess' = [sess EXCEPT ![s].st = "live"]
    /\ hub' = s
    /\ UNCHANGED <<row, age, issued, agentVars, ask, revoking>>

\* After the hello, Hub.Register: the session it replaces is closed.
RegisterSession(s) ==
    /\ sess[s].st = "admitted"
    /\ sess' = [r \in Sessions |->
                  CASE r = s -> [sess[s] EXCEPT !.st = "live"]
                    [] r # s /\ r = hub -> [sess[r] EXCEPT !.st = "closing"]
                    [] OTHER -> sess[r]]
    /\ hub' = s
    /\ UNCHANGED <<row, age, issued, agentVars, ask, revoking>>

\* Mutant: a heartbeat looks at the serial only.
RefusedHeartbeatSerial(s) == sess[s].serial # row.serial

\* The UPDATE of a heartbeat finds no row: revoked, or the serial is retired.
RefusedHeartbeat(s) == sess[s].serial # row.serial \/ row.revoked

\* A heartbeat, or the end of the 90 seconds without one.
Heartbeat(s) ==
    /\ sess[s].st = "live"
    /\ RefusedHeartbeat(s) \/ mine # s
    /\ sess' = Closing(s)
    /\ UNCHANGED <<row, age, issued, agentVars, ask, hub, revoking>>

\* The connection breaks, before or after the registration.
Drop(s) ==
    /\ "drop" \in IdentityFaults
    /\ sess[s].st \in {"admitted", "live"}
    /\ sess' = Closing(s)
    /\ UNCHANGED <<row, age, issued, agentVars, ask, hub, revoking>>

\* handleControl returns: Unregister only removes the session itself.
Leave(s) ==
    /\ sess[s].st = "closing"
    /\ sess' = [sess EXCEPT ![s].st = "ended"]
    /\ hub' = IF hub = s THEN 0 ELSE hub
    /\ mine' = IF mine = s THEN 0 ELSE mine
    /\ UNCHANGED <<row, age, issued, disk, client, running, renewal, ask, revoking>>

\* Time passes for a certificate that was issued.
Age(k) ==
    /\ k <= issued
    /\ age[k] # "expired"
    /\ age' = [age EXCEPT ![k] = IF @ = "fresh" THEN "due" ELSE "expired"]
    /\ UNCHANGED <<row, issued, agentVars, ask, sess, hub, revoking>>

-----------------------------------------------------------------------------
IdentityNext ==
    \/ Start \/ Reload \/ ReceiveCertificate \/ RenewalFails \/ AgentCrash
    \/ \E a \in Asks : AdmitRenewal(a) \/ CommitRenewal(a)
    \/ Revoke \/ Disconnect
    \/ \E s \in Sessions : Dial(s) \/ RegisterSession(s) \/ Heartbeat(s) \/ Drop(s) \/ Leave(s)
    \/ \E k \in Serials : Age(k)

IdentitySpec == IdentityInit /\ [][IdentityNext]_identityVars

\* Both programs go on: systemd starts the Agent, requests are served and
\* answered, sessions beat and end.  Reloads, faults and time owe nothing.
IdentityFairness ==
    /\ WF_identityVars(Start)
    /\ WF_identityVars(ReceiveCertificate)
    /\ WF_identityVars(Disconnect)
    /\ \A a \in Asks : WF_identityVars(AdmitRenewal(a)) /\ WF_identityVars(CommitRenewal(a))
    /\ \A s \in Sessions : WF_identityVars(RegisterSession(s)) /\ WF_identityVars(Heartbeat(s))
                           /\ WF_identityVars(Leave(s)) /\ WF_identityVars(Dial(s))

IdentityFairSpec == IdentitySpec /\ IdentityFairness

-----------------------------------------------------------------------------
\* Type correctness of the identity's state.
IdentityTypeOK ==
    /\ row \in [serial: Serials, revoked: BOOLEAN]
    /\ age \in [Serials -> {"fresh", "due", "expired"}]
    /\ issued \in Serials
    /\ disk \in Serials
    /\ client \in [control: 0..MaxSerial, report: 0..MaxSerial]
    /\ running \in BOOLEAN
    /\ renewal \in 0..MaxAsk
    /\ ask \in [Asks -> [st: {"off", "sent", "admitted", "ok", "refused", "gone"},
                         why: {"start", "reload"}, serial: 0..MaxSerial, new: 0..MaxSerial]]
    /\ sess \in [Sessions -> [st: {"off", "admitted", "live", "closing", "ended"}, serial: 0..MaxSerial]]
    /\ mine \in 0..MaxSession
    /\ hub \in 0..MaxSession
    /\ revoking \in {"no", "committed", "done"}

\* A revoked identity never gets a certificate again, even by a renewal that
\* was admitted before the revocation.
RevokedIsFinal == [][row.revoked => row'.serial = row.serial]_identityVars

\* "Only one current session is allowed per Agent ID": a session that is not
\* the one in the hub has been told to close.
OneCurrentSession == \A s \in Sessions : sess[s].st = "live" => hub = s

\* A revoked Agent loses its session, also one that was admitted before the
\* revocation and registered after it.
RevokedLosesSession == row.revoked ~> (\A s \in Sessions : sess[s].st # "live")

\* However renewals, crashes, reloads and answers interleave, the one certificate
\* the Panel accepts is in the Agent's file, or in an answer the Agent did not get.
AccessIsKept ==
    \/ row.revoked
    \/ disk = row.serial
    \/ \E a \in Asks : ask[a].st = "ok" /\ ask[a].new = row.serial
=============================================================================
