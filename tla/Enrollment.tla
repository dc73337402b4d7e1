----------------------------- MODULE Enrollment -----------------------------
(***************************************************************************)
(* Enrollment: the one-time codes and the identity rows of the Panel       *)
(* (internal/panel/api/enrollment.go, the constraints of db.go), and the   *)
(* runs of `net-probe enroll` (cmd/net-probe/main.go, Enroll and           *)
(* persistIdentity in internal/agent/identity.go) with the files they      *)
(* leave on their hosts.                                                   *)
(*                                                                         *)
(* An Agent ID, its key and its certificate are those of the run that      *)
(* asked for them, so a run stands for all three.                          *)
(***************************************************************************)
EXTENDS Naturals

CONSTANTS
    Hosts,        \* the machines; a host is also the first node ID it reports
    NewNames,     \* node IDs a host may be renamed to
    Codes,        \* bound on the codes: handleCreateEnrollment draws from these
    Runs,         \* bound on the runs of `net-probe enroll`
    EnrollFaults  \* what may happen, of the list below

\* lost: a request or its answer is lost, or the client gives up.  kill: a run
\* dies, or a write fails, between two files.  revoke: an administrator revokes
\* an identity.  lapse: a certificate, or a code, expires.  rename: a host is
\* given another node ID.
AllEnrollFaults == {"lost", "kill", "revoke", "lapse", "rename"}

ASSUME EnrollAssumption ==
    /\ EnrollFaults \subseteq AllEnrollFaults
    /\ "none" \notin Runs

NodeIDs == Hosts \cup NewNames

\* persistIdentity writes these in turn; trust stands for the CA bundle and the
\* two verification keys, which are the same for every run.
Files == {"key", "cert", "trust", "state"}

VARIABLES
    code,      \* agent_enrollment_tokens: unused, open, expired or consumed
    rows,      \* agent_identities
    request,   \* the POST of each run: none, sent, or how the Panel ended it
    proc,      \* the runs
    name,      \* the node ID of each host (agent.NodeID)
    file       \* per host, the run whose content each file holds

panelVars == <<code, rows, request>>
enrollVars == <<panelVars, proc, name, file>>

-----------------------------------------------------------------------------
CodeStates == {"unused", "open", "expired", "consumed"}
Verdicts == {"created", "unauthorized", "conflict", "dropped"}
Identities == [run: Runs, node: NodeIDs, code: Codes, status: {"valid", "revoked", "expired"}]

\* wait: the POST is out; save: writing files; todo: the files not written yet.
Procs == [pc: {"idle", "wait", "save", "done", "failed"},
          host: Hosts, code: Codes, node: NodeIDs, todo: SUBSET Files]

EnrollInit ==
    /\ code = [c \in Codes |-> "unused"]
    /\ rows = {}
    /\ request = [r \in Runs |-> "none"]
    /\ proc \in [Runs -> {p \in Procs : p.pc = "idle" /\ p.node = p.host /\ p.todo = Files}]
    /\ name = [h \in Hosts |-> h]
    /\ file = [h \in Hosts |-> [f \in Files |-> "none"]]

\* The file a run writes next.
NextFile(p) ==
    CASE "key" \in p.todo -> "key"
      [] "cert" \in p.todo -> "cert"
      [] "trust" \in p.todo -> "trust"
      [] OTHER -> "state"

\* LoadIdentity: all files are there, the certificate is for the key, and it
\* names the Agent ID of the state file.
Loads(h) ==
    /\ \A f \in Files : file[h][f] # "none"
    /\ file[h]["key"] = file[h]["cert"]
    /\ file[h]["cert"] = file[h]["state"]

-----------------------------------------------------------------------------
(* The Panel *)

CreateEnrollment(c) ==
    /\ code[c] = "unused"
    /\ code' = [code EXCEPT ![c] = "open"]
    /\ UNCHANGED <<rows, request, proc, name, file>>

\* Mutant: consumed_at is not looked at.
ConsumableAgain(c) == code[c] \in {"open", "consumed"}

\* The UPDATE of handleEnroll matches one row: not consumed and not expired.
Consumable(c) == code[c] = "open"

\* Mutant: only an identity that is still valid keeps its node ID.
TakenWhileValid(n) == \E i \in rows : i.node = n /\ i.status = "valid"

\* UNIQUE(node_id) of agent_identities: a row keeps its node ID whatever
\* becomes of the identity.
Taken(n) == \E i \in rows : i.node = n

\* handleEnroll: one transaction, rolled back on both refusals.
HandleEnroll(r) ==
    LET p == proc[r]
    IN  /\ request[r] = "sent"
        /\ \/ /\ ~Consumable(p.code)
              /\ request' = [request EXCEPT ![r] = "unauthorized"]
              /\ UNCHANGED <<code, rows>>
           \/ /\ Consumable(p.code)
              /\ Taken(p.node)
              /\ request' = [request EXCEPT ![r] = "conflict"]
              /\ UNCHANGED <<code, rows>>
           \/ /\ Consumable(p.code)
              /\ ~Taken(p.node)
              /\ code' = [code EXCEPT ![p.code] = "consumed"]
              /\ rows' = rows \cup {[run |-> r, node |-> p.node, code |-> p.code, status |-> "valid"]}
              /\ request' = [request EXCEPT ![r] = "created"]
        /\ UNCHANGED <<proc, name, file>>

\* A row changes its status; it is never deleted.
Restatus(i, status) ==
    /\ rows' = (rows \ {i}) \cup {[i EXCEPT !.status = status]}
    /\ UNCHANGED <<code, request, proc, name, file>>

\* handleRevokeAgent.
RevokeIdentity(i) ==
    /\ "revoke" \in EnrollFaults
    /\ i.status # "revoked"
    /\ Restatus(i, "revoked")

\* expires_at of an identity, or of a code, passes.
IdentityLapses(i) ==
    /\ "lapse" \in EnrollFaults
    /\ i.status = "valid"
    /\ Restatus(i, "expired")

CodeLapses(c) ==
    /\ "lapse" \in EnrollFaults
    /\ code[c] = "open"
    /\ code' = [code EXCEPT ![c] = "expired"]
    /\ UNCHANGED <<rows, request, proc, name, file>>

-----------------------------------------------------------------------------
(* A run of `net-probe enroll` *)

\* runEnroll, and Enroll up to the POST: the CA is fetched and pinned.  The code
\* is any that was ever shown, a used one included.
StartRun(r) ==
    /\ proc[r].pc = "idle"
    /\ code[proc[r].code] # "unused"
    /\ proc' = [proc EXCEPT ![r].pc = "wait", ![r].node = name[proc[r].host]]
    /\ request' = [request EXCEPT ![r] = "sent"]
    /\ UNCHANGED <<code, rows, name, file>>

\* Mutant: an answer of any status is taken for success.
CreatedOrRefused(r) == request[r] \in {"created", "conflict"}

\* The status Enroll goes on with.
Created(r) == request[r] = "created"

\* The answer arrives: created, and the response is validated and kept, or the
\* run fails and writes nothing.
Receive(r) ==
    /\ proc[r].pc = "wait"
    /\ request[r] \in Verdicts
    /\ proc' = [proc EXCEPT ![r].pc = IF Created(r) THEN "save" ELSE "failed"]
    /\ UNCHANGED <<panelVars, name, file>>

\* The run gives up waiting (15 s), or dies; its request may still be handled.
GiveUp(r) ==
    /\ "lost" \in EnrollFaults
    /\ proc[r].pc = "wait"
    /\ proc' = [proc EXCEPT ![r].pc = "failed"]
    /\ UNCHANGED <<panelVars, name, file>>

\* The request never reaches handleEnroll, or its context ends there.
RequestDropped(r) ==
    /\ "lost" \in EnrollFaults
    /\ request[r] = "sent"
    /\ request' = [request EXCEPT ![r] = "dropped"]
    /\ UNCHANGED <<code, rows, proc, name, file>>

\* One writeAtomic of persistIdentity; after the last one the run is done.
Save(r) ==
    LET p == proc[r]
        left == p.todo \ {NextFile(p)}
    IN  /\ p.pc = "save"
        /\ file' = [file EXCEPT ![p.host][NextFile(p)] = r]
        /\ proc' = [proc EXCEPT ![r].todo = left, ![r].pc = IF left = {} THEN "done" ELSE "save"]
        /\ UNCHANGED <<panelVars, name>>

SaveFails(r) ==
    /\ "kill" \in EnrollFaults
    /\ proc[r].pc = "save"
    /\ proc' = [proc EXCEPT ![r].pc = "failed"]
    /\ UNCHANGED <<panelVars, name, file>>

\* The host's node_id setting, or its machine-id, changes.
Rename(h) ==
    /\ "rename" \in EnrollFaults
    /\ \E n \in NewNames : name' = [name EXCEPT ![h] = n]
    /\ UNCHANGED <<panelVars, proc, file>>

-----------------------------------------------------------------------------
RunStep(r) == HandleEnroll(r) \/ Receive(r) \/ Save(r)

EnrollNext ==
    \/ \E c \in Codes : CreateEnrollment(c) \/ CodeLapses(c)
    \/ \E i \in rows : RevokeIdentity(i) \/ IdentityLapses(i)
    \/ \E r \in Runs :
          \/ StartRun(r)
          \/ RunStep(r)
          \/ GiveUp(r)
          \/ RequestDropped(r)
          \/ SaveFails(r)
    \/ \E h \in Hosts : Rename(h)

EnrollSpec == EnrollInit /\ [][EnrollNext]_enrollVars

-----------------------------------------------------------------------------
\* Type correctness.
EnrollTypeOK ==
    /\ code \in [Codes -> CodeStates]
    /\ rows \subseteq Identities
    /\ request \in [Runs -> {"none", "sent"} \cup Verdicts]
    /\ proc \in [Runs -> Procs]
    /\ name \in [Hosts -> NodeIDs]
    /\ file \in [Hosts -> [Files -> Runs \cup {"none"}]]

\* "exactly one successful use" of a code, however many runs send it at the same
\* time and whatever is refused or lost: a code is consumed by exactly one
\* identity, and an identity never goes without its code.
CodeBuysOneIdentity ==
    /\ \A i \in rows : code[i.code] = "consumed"
    /\ \A c \in Codes : code[c] = "consumed" => \E i \in rows : i.code = c
    /\ \A i, j \in rows : i.code = j.code => i = j

\* Files a host can load are an identity the Panel issued, under a node ID of
\* that host: what was refused, or rolled back, leaves nothing on disk.
LoadedWasIssued ==
    \A h \in Hosts : Loads(h) =>
        \E i \in rows : i.run = file[h]["key"] /\ proc[i.run].host = h

\* A host that can load its identity never loses it to another enrollment while
\* its node ID stays the same: the files are replaced one by one, but a second
\* run for the node is refused before it writes, revoked or not.
IdentityIsKept == [][\A h \in Hosts : Loads(h) /\ name[h] = h => Loads(h)']_enrollVars
=============================================================================
