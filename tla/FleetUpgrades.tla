--------------------------- MODULE FleetUpgrades ---------------------------
(***************************************************************************)
(* What an administrator does to upgrade a fleet: the sessions of the      *)
(* Panel (handleLogin, handleLogout, requireRole and handleReauth,         *)
(* internal/panel/api, auth), the import of releases and the order that    *)
(* asks several Agents for one (handleImportRelease, handleCreateUpgrades, *)
(* api/releases.go), down to the transaction that creates their commands   *)
(* (CreateBatch, command/store.go).  What becomes of a command is          *)
(* ControlChannel's and Upgrade's matter.                                  *)
(*                                                                         *)
(* A handler reads the session once, when it starts, and everything else   *)
(* by statements of its own.  The transaction reads a snapshot of the      *)
(* database and can write only while nothing was written since             *)
(* (SQLITE_BUSY_SNAPSHOT); once it has written, other writers wait.        *)
(***************************************************************************)
EXTENDS Naturals

CONSTANTS
    MaxToken,     \* bound on the sessions that are opened, numbered in that order
    Members,      \* the Agents
    MaxOrder,     \* bound on the orders and on what is served at once
    MaxRelease,   \* bound on the releases, which are numbered in their order
    FleetFaults   \* "statement" (one fails, or the client has gone) and "crash"

Tokens == 1 .. MaxToken
Orders == 1 .. MaxOrder
ReleaseNumbers == 1 .. MaxRelease

ASSUME FleetAssumption ==
    /\ MaxToken \in Nat \ {0} /\ MaxOrder \in Nat /\ MaxRelease \in Nat
    /\ FleetFaults \subseteq {"statement", "crash"}

VARIABLES
    login,     \* the rows of sessions
    imported,  \* of each release, whether agent_releases has it and its manifest is valid
    member,    \* of the row of each Agent, the releases it cannot be upgraded to
    order,     \* the requests
    tx,        \* the transaction of CreateBatch, which a mutex admits one at a time
    ordered,   \* the upgrade commands created
    given      \* history: whether the password was given in a session in the last ten minutes

fleetVars == <<login, imported, member, order, tx, ordered, given>>

-----------------------------------------------------------------------------
\* st: whether a session was opened, has expired (after seven days; its row stays),
\* or was logged out; recent: whether its reauthenticated_at is less than ten minutes
\* ago.
NoLogin == [st |-> "unused", recent |-> FALSE]

\* pc: the next step; token and recent: the actor of the request, as read when
\* it was admitted; version and agents: what it asks for; left: the Agents still to
\* be looked at, or to get a command; shown: history, the password of that session.
NoOrder == [pc |-> "idle", token |-> 1, recent |-> FALSE, version |-> 0,
            agents |-> {}, left |-> {}, shown |-> FALSE]

\* fresh: whether nothing was written since the snapshot.
NoTx == [of |-> {}, rows |-> {}, fresh |-> TRUE]

FleetInit ==
    /\ login = [t \in Tokens |-> NoLogin]
    /\ imported = [v \in ReleaseNumbers |-> "no"]
    /\ member = [a \in Members |-> {}]
    /\ order = [o \in Orders |-> NoOrder]
    /\ tx = NoTx
    /\ ordered = {}
    /\ given = [t \in Tokens |-> FALSE]

-----------------------------------------------------------------------------
\* A statement of another connection, which waits for the transaction once that
\* has written, and makes its snapshot old before.
Written ==
    /\ tx.rows = {}
    /\ tx' = [tx EXCEPT !.fresh = (tx.of = {})]

OrderAt(o, pc) == order[o].pc = pc
Ended(o) == order[o].pc \in {"idle", "created", "refused", "cut"}
Free(o) == OrderAt(o, "idle") /\ \A p \in 1 .. o - 1 : ~OrderAt(p, "idle")
Over(o, pc) == [NoOrder EXCEPT !.pc = pc, !.agents = order[o].agents]
Ends(o, pc) == order' = [order EXCEPT ![o] = Over(o, pc)]

\* requireRole: the session of the cookie is there and has not expired.
InTable(t) == login[t].st \in {"open", "expired"}
Valid(t) == login[t].st = "open"

LogIn(t) ==
    /\ login[t].st = "unused" /\ \A s \in 1 .. t - 1 : login[s].st # "unused"
    /\ login' = [login EXCEPT ![t] = [NoLogin EXCEPT !.st = "open"]]
    /\ Written
    /\ UNCHANGED <<imported, member, order, ordered, given>>

LogOut(t) ==
    /\ Valid(t)
    /\ login' = [login EXCEPT ![t] = [NoLogin EXCEPT !.st = "deleted"]]
    /\ Written
    /\ UNCHANGED <<imported, member, order, ordered, given>>

-----------------------------------------------------------------------------
(* handleReauth *)

AskToConfirm(o, t) ==
    /\ Free(o) /\ Valid(t)
    /\ order' = [order EXCEPT ![o] = [NoOrder EXCEPT !.pc = "password", !.token = t]]
    /\ UNCHANGED <<login, imported, member, tx, ordered, given>>

\* Mutant: the UPDATE names the user only, whose sessions these all are.
ConfirmedUser(t) == [s \in Tokens |-> [login[s] EXCEPT !.recent = TRUE]]

\* The UPDATE names the session.
Confirmed(t) == [login EXCEPT ![t].recent = TRUE]

\* The password is right and its session still there.
GivePassword(o) ==
    LET t == order[o].token
    IN  /\ OrderAt(o, "password")
        /\ InTable(t)
        /\ login' = Confirmed(t)
        /\ given' = [given EXCEPT ![t] = TRUE]
        /\ order' = [order EXCEPT ![o] = NoOrder]
        /\ Written
        /\ UNCHANGED <<imported, member, ordered>>

\* A wrong password, a session that was logged out, or an error.
PasswordRefused(o) ==
    /\ OrderAt(o, "password")
    /\ order' = [order EXCEPT ![o] = NoOrder]
    /\ UNCHANGED <<login, imported, member, tx, ordered, given>>

-----------------------------------------------------------------------------
(* handleImportRelease, handleImportGitHubRelease and storeRelease *)

\* The index wants a version that is new.
ImportRelease(v) ==
    /\ \E t \in Tokens : login[t].st # "unused"
    /\ imported[v] = "no"
    /\ imported' = [imported EXCEPT ![v] = "valid"]
    /\ Written
    /\ UNCHANGED <<login, member, order, ordered, given>>

-----------------------------------------------------------------------------
(* handleCreateUpgrades *)

AskForUpgrade(o, t) ==
    /\ Free(o) /\ Valid(t)
    /\ \E v \in ReleaseNumbers, as \in SUBSET Members \ {{}} :
          order' = [order EXCEPT ![o] = [NoOrder EXCEPT !.pc = "check", !.token = t, !.version = v,
                                            !.recent = login[t].recent, !.shown = given[t],
                                            !.agents = as]]
    /\ UNCHANGED <<login, imported, member, tx, ordered, given>>

\* RequireRecentReauth, of what the request read at its start.
ConfirmedRecently(o) == order[o].recent

\* The release is loaded.
CheckOrder(o) ==
    /\ OrderAt(o, "check")
    /\ ConfirmedRecently(o) /\ imported[order[o].version] # "no"
    /\ order' = [order EXCEPT ![o].pc = "look", ![o].left = order[o].agents]
    /\ UNCHANGED <<login, imported, member, tx, ordered, given>>

OrderRefused(o) ==
    /\ OrderAt(o, "check") \/ OrderAt(o, "look")
    /\ \/ "statement" \in FleetFaults
       \/ OrderAt(o, "check") /\ ~(ConfirmedRecently(o) /\ imported[order[o].version] # "no")
    /\ Ends(o, "refused")
    /\ UNCHANGED <<login, imported, member, tx, ordered, given>>

\* The identity is neither revoked nor expired, the release fits the Agent and is
\* newer, and its manifest has not lapsed (VerifyManifest).
Suits(a, v) == v \notin member[a] /\ imported[v] = "valid"

LookAt(o, a) ==
    /\ OrderAt(o, "look") /\ a \in order[o].left
    /\ IF Suits(a, order[o].version) THEN order' = [order EXCEPT ![o].left = @ \ {a}]
                                     ELSE Ends(o, "refused")
    /\ UNCHANGED <<login, imported, member, tx, ordered, given>>

-----------------------------------------------------------------------------
(* CreateBatch *)

CommandFor(o, a) == [agent |-> a, order |-> o, token |-> order[o].token]

\* The mutex, and the first SELECT.
BeginBatch(o) ==
    /\ OrderAt(o, "look") /\ order[o].left = {}
    /\ tx.of = {}
    /\ tx' = [NoTx EXCEPT !.of = {o}]
    /\ order' = [order EXCEPT ![o].pc = "insert", ![o].left = order[o].agents]
    /\ UNCHANGED <<login, imported, member, ordered, given>>

\* The trigger of agent_commands.
SessionKnown(o) == InTable(order[o].token)

\* Mutant: each command is committed by itself.
InsertCommitted(o, a) ==
    /\ ordered' = ordered \cup {CommandFor(o, a)}
    /\ tx' = tx

\* The row of a command and its first event.
Insert(o, a) ==
    /\ tx' = [tx EXCEPT !.rows = @ \cup {CommandFor(o, a)}]
    /\ ordered' = ordered

InsertCommand(o, a) ==
    /\ OrderAt(o, "insert") /\ a \in order[o].left
    /\ tx.fresh /\ SessionKnown(o)
    /\ Insert(o, a)
    /\ order' = [order EXCEPT ![o].left = @ \ {a}]
    /\ UNCHANGED <<login, imported, member, given>>

CommitBatch(o) ==
    /\ OrderAt(o, "insert") /\ order[o].left = {}
    /\ ordered' = ordered \cup tx.rows
    /\ tx' = NoTx
    /\ Ends(o, "answer")
    /\ UNCHANGED <<login, imported, member, given>>

\* Rollback, and 500.
BatchFails(o) ==
    /\ OrderAt(o, "insert")
    /\ "statement" \in FleetFaults \/ (order[o].left # {} /\ ~(tx.fresh /\ SessionKnown(o)))
    /\ tx' = NoTx
    /\ Ends(o, "refused")
    /\ UNCHANGED <<login, imported, member, ordered, given>>

\* 201, whatever became of the dispatch.
AnswerCreated(o) ==
    /\ OrderAt(o, "answer")
    /\ Ends(o, "created")
    /\ UNCHANGED <<login, imported, member, tx, ordered, given>>

-----------------------------------------------------------------------------
(* Around the handlers *)

\* The identity is revoked, or a hello or a report tells a later version; after a
\* rollback it tells an earlier one.
MemberChanges(a, v) ==
    /\ member' = [member EXCEPT ![a] = IF v \in @ THEN @ \ {v} ELSE @ \cup {v}]
    /\ Written
    /\ UNCHANGED <<login, imported, order, ordered, given>>

\* A manifest is valid for at most a day, and its row stays.
ReleaseLapses(v) ==
    /\ imported[v] = "valid"
    /\ imported' = [imported EXCEPT ![v] = "lapsed"]
    /\ UNCHANGED <<login, member, order, tx, ordered, given>>

SessionExpires(t) ==
    /\ Valid(t)
    /\ login' = [login EXCEPT ![t].st = "expired"]
    /\ UNCHANGED <<imported, member, order, tx, ordered, given>>

\* Ten minutes after a password was given.  What an order read of it before was given
\* no later.
PasswordAges(t) ==
    /\ login[t].recent
    /\ login' = [login EXCEPT ![t].recent = FALSE]
    /\ given' = [given EXCEPT ![t] = FALSE]
    /\ order' = [o \in Orders |-> IF OrderAt(o, "check") /\ order[o].token = t
                     THEN [order[o] EXCEPT !.recent = FALSE, !.shown = FALSE] ELSE order[o]]
    /\ UNCHANGED <<imported, member, tx, ordered>>

ReadPasswordAges(o) ==
    /\ OrderAt(o, "check") /\ ConfirmedRecently(o)
    /\ order' = [order EXCEPT ![o].recent = FALSE, ![o].shown = FALSE]
    /\ UNCHANGED <<login, imported, member, tx, ordered, given>>

\* The Panel stops and starts: what was being served is cut off.
PanelCrash ==
    /\ "crash" \in FleetFaults
    /\ \E o \in Orders : ~Ended(o)
    /\ order' = [o \in Orders |-> IF Ended(o) THEN order[o] ELSE Over(o, "cut")]
    /\ tx' = NoTx
    /\ UNCHANGED <<login, imported, member, ordered, given>>

FleetNext ==
    \/ \E t \in Tokens : LogIn(t) \/ LogOut(t) \/ SessionExpires(t) \/ PasswordAges(t)
    \/ \E o \in Orders, t \in Tokens : AskToConfirm(o, t) \/ AskForUpgrade(o, t)
    \/ \E o \in Orders :
          \/ GivePassword(o) \/ PasswordRefused(o) \/ CheckOrder(o) \/ OrderRefused(o)
          \/ BeginBatch(o) \/ CommitBatch(o) \/ BatchFails(o) \/ AnswerCreated(o)
          \/ ReadPasswordAges(o)
    \/ \E o \in Orders, a \in Members : LookAt(o, a) \/ InsertCommand(o, a)
    \/ \E v \in ReleaseNumbers : ImportRelease(v) \/ ReleaseLapses(v)
    \/ \E a \in Members, v \in ReleaseNumbers : MemberChanges(a, v)
    \/ PanelCrash

FleetSpec == FleetInit /\ [][FleetNext]_fleetVars

-----------------------------------------------------------------------------
Commanded(o) == {c.agent : c \in {d \in ordered : d.order = o}}

\* Type correctness.
FleetTypeOK ==
    /\ \A t \in Tokens :
          /\ login[t].st \in {"unused", "open", "expired", "deleted"}
          /\ login[t].recent \in BOOLEAN /\ given[t] \in BOOLEAN
    /\ imported \in [ReleaseNumbers -> {"no", "valid", "lapsed"}]
    /\ \A o \in Orders : order[o].left \subseteq order[o].agents /\ order[o].agents \subseteq Members
    /\ tx.of \subseteq Orders
    /\ ordered \cup tx.rows \subseteq [agent : Members, order : Orders, token : Tokens]

\* An order for a fleet is one command for each of its Agents or none, wherever a
\* statement fails, a session is logged out, another order is in the way or the Panel
\* stops; 201 says that they are there, an error that none is (the comment of
\* CreateBatch).
FleetIsWhole ==
    \A o \in Orders :
        /\ Commanded(o) \in {{}, order[o].agents}
        /\ OrderAt(o, "created") => Commanded(o) = order[o].agents
        /\ OrderAt(o, "refused") => Commanded(o) = {}

\* An upgrade is only ever ordered in a session in which the password was given a
\* short time before, and which was not logged out while the order was checked: not
\* in another session of the user, nor in one that was opened since.
UpgradesAreConfirmed ==
    [][\A c \in ordered' \ ordered :
          /\ InTable(c.token)
          /\ order[c.order].shown]_fleetVars
=============================================================================
