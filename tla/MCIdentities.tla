---------------------------- MODULE MCIdentities ----------------------------
(* For TLC: the making of identities (Enrollment), the life of one            *)
(* (AgentIdentity) and the trust set of the Panel (PanelKeys), side by side.  *)
(* They share no variable, and a behaviour is one of one of them.             *)
EXTENDS Enrollment, AgentIdentity, PanelKeys

VARIABLE part    \* the component whose behaviour it is

partsVars == <<part, enrollVars, identityVars, keysVars>>

EnrollOnly(A) == part = "enrollment" /\ A /\ UNCHANGED <<part, identityVars, keysVars>>
IdentityOnly(A) == part = "identity" /\ A /\ UNCHANGED <<part, enrollVars, keysVars>>
KeysOnly(A) == part = "keys" /\ A /\ UNCHANGED <<part, enrollVars, identityVars>>

\* IdentityFairness.
PartsFairness ==
    /\ WF_partsVars(IdentityOnly(Start))
    /\ WF_partsVars(IdentityOnly(ReceiveCertificate))
    /\ WF_partsVars(IdentityOnly(Disconnect))
    /\ \A a \in Asks :
          WF_partsVars(IdentityOnly(AdmitRenewal(a))) /\ WF_partsVars(IdentityOnly(CommitRenewal(a)))
    /\ \A s \in Sessions :
          /\ WF_partsVars(IdentityOnly(RegisterSession(s)))
          /\ WF_partsVars(IdentityOnly(Heartbeat(s)))
          /\ WF_partsVars(IdentityOnly(Leave(s)))
          /\ WF_partsVars(IdentityOnly(Dial(s)))

\* Where the runs of enroll are not what happens, one choice of theirs is enough.
PartsInit ==
    /\ part \in {"enrollment", "identity", "keys"}
    /\ EnrollInit /\ IdentityInit /\ KeysInit
    /\ part # "enrollment" => \A r \in Runs : /\ proc[r].host = CHOOSE h \in Hosts : TRUE
                                             /\ proc[r].code = CHOOSE c \in Codes : TRUE

PartsFairSpec ==
    /\ PartsInit
    /\ [][EnrollOnly(EnrollNext) \/ IdentityOnly(IdentityNext) \/ KeysOnly(KeysNext)]_partsVars
    /\ PartsFairness
=============================================================================
