--------------------------- MODULE PanelDataProofs ---------------------------
(***************************************************************************)
(* What the Panel's settings, its retention of metrics and its geolocation *)
(* refresher keep for every value of the constants.                        *)
(***************************************************************************)
EXTENDS Settings, Retention, GeoRefresher, Sums, SequenceTheorems, TLAPS

-----------------------------------------------------------------------------
(* Settings, for every number of fields, values and PATCHes served at the   *)
(* same time: SettingsSurvive holds because a PATCH that met no other one   *)
(* finds the memory as it changed it and the file as it opened it, and      *)
(* because one that did is known to have met.                               *)

Partial == UNION {[c -> Values] : c \in SUBSET Fields}
PatchTypes == [pc : {"idle", "change", "encode", "flush"}, change : SUBSET Fields,
               to : Partial, text : Partial, met : BOOLEAN]

SettingsTypes ==
    /\ panel \in {"up", "down", "refused"}
    /\ cfg \in Config
    /\ configFile \in {Empty, Torn} \cup {Holds(c) : c \in Config}
    /\ patch \in [Patches -> PatchTypes]
    /\ \A p \in Patches : patch[p].change \subseteq DOMAIN patch[p].to
    /\ patches \in 0 .. MaxPatches
    /\ settled \in BOOLEAN /\ harmed \in BOOLEAN

Busy(p) == patch[p].pc # "idle"

\* Of two PATCHes being served each knows; none is served by a process that is not up.
MeetingsAreKnown ==
    /\ \A p, q \in Patches : p # q /\ Busy(p) /\ Busy(q) => patch[p].met
    /\ panel # "up" => Quiet

\* What a PATCH has encoded; alone, it reads what is in memory, and its file is empty.
TextIsMemory ==
    \A p \in Patches :
        /\ patch[p].pc = "change" => DOMAIN patch[p].text = {}
        /\ patch[p].pc = "flush" => DOMAIN patch[p].text = Fields
        /\ Opened(p) /\ ~patch[p].met =>
              /\ configFile = Empty
              /\ \A f \in DOMAIN patch[p].text : patch[p].text[f] = cfg[f]

FileIsGood ==
    /\ settled /\ Quiet => configFile = Holds(cfg)
    /\ ~harmed /\ (\A p \in Patches : ~Opened(p)) => configFile.kind = "config"
    /\ panel = "refused" => harmed

SettingsInv == SettingsTypes /\ MeetingsAreKnown /\ TextIsMemory /\ FileIsGood

-----------------------------------------------------------------------------
LEMMA FileKinds ==
    /\ Empty.kind = "empty" /\ Torn.kind = "torn"
    /\ \A c : Holds(c).kind = "config" /\ Holds(c).of = c
  BY DEF Empty, Torn, Holds

LEMMA RestingTypes ==
    /\ Resting \in PatchTypes /\ Resting.pc = "idle" /\ ~Resting.met
    /\ Resting.change = {} /\ DOMAIN Resting.text = {}
  <1>1. NoText \in [{} -> Values] /\ DOMAIN NoText = {}
    BY DEF NoText
  <1>2. NoText \in Partial
    BY <1>1 DEF Partial
  <1> HIDE DEF NoText
  <1> QED BY <1>1, <1>2 DEF Resting, PatchTypes

LEMMA SettingsInvInit == SettingsInit => SettingsInv
  <1> SUFFICES ASSUME SettingsInit PROVE SettingsInv
    OBVIOUS
  <1>1. \A p \in Patches : patch[p] = Resting
    BY DEF SettingsInit
  <1>2. Installed \in Config
    <2>1. (CHOOSE v \in Values : TRUE) \in Values
      BY SettingsAssumption
    <2> QED BY <2>1 DEF Installed, Config
  <1>3. SettingsTypes
    <2>1. patch \in [Patches -> PatchTypes]
      BY RestingTypes DEF SettingsInit
    <2>2. 0 \in 0 .. MaxPatches
      BY SettingsAssumption
    <2> QED BY <1>1, <1>2, <2>1, <2>2, RestingTypes DEF SettingsInit, SettingsTypes
  <1>4. MeetingsAreKnown /\ TextIsMemory
    BY <1>1, RestingTypes DEF MeetingsAreKnown, TextIsMemory, Busy, Opened, Quiet
  <1>5. FileIsGood
    BY FileKinds DEF SettingsInit, FileIsGood
  <1> QED BY <1>3, <1>4, <1>5 DEF SettingsInv

-----------------------------------------------------------------------------
\* A step of the PATCH p, which becomes r: what it does to the others' knowledge.
LEMMA OnePatch ==
    ASSUME SettingsInv, NEW p \in Patches, NEW r \in PatchTypes,
           panel = "up", panel' = panel, Busy(p),
           r.pc = "idle" \/ r.met = patch[p].met,
           r.change \subseteq DOMAIN r.to,
           patch' = [patch EXCEPT ![p] = r]
    PROVE  /\ patch'[p] = r /\ \A q \in Patches \ {p} : patch'[q] = patch[q]
           /\ patch' \in [Patches -> PatchTypes]
           /\ \A q \in Patches : patch'[q].change \subseteq DOMAIN patch'[q].to
           /\ MeetingsAreKnown'
           /\ \A q \in Patches \ {p} : patch[q].pc = "idle" \/ (patch[p].met /\ patch[q].met)
  <1>1. patch \in [Patches -> PatchTypes]
    BY DEF SettingsInv, SettingsTypes
  <1>2. patch'[p] = r /\ \A q \in Patches \ {p} : patch'[q] = patch[q]
    BY <1>1
  <1>3. patch' \in [Patches -> PatchTypes]
    BY <1>1
  <1>4. \A q \in Patches : patch'[q].change \subseteq DOMAIN patch'[q].to
    BY <1>2 DEF SettingsInv, SettingsTypes
  <1>5. MeetingsAreKnown'
    BY <1>2 DEF SettingsInv, MeetingsAreKnown, Busy
  <1>6. \A q \in Patches \ {p} : patch[q].pc = "idle" \/ (patch[p].met /\ patch[q].met)
    BY DEF SettingsInv, MeetingsAreKnown, Busy
  <1> QED BY <1>2, <1>3, <1>4, <1>5, <1>6

\* A new PATCH meets those being served.
LEMMA ArrivalKeeps == ASSUME SettingsInv, NEW p \in Patches, PatchArrives(p) PROVE SettingsInv'
  <1>0. PICK c \in SUBSET Fields : \E v \in [c -> Values] :
          patch' = [q \in Patches |->
              IF q = p THEN [Resting EXCEPT !.pc = "change", !.change = c, !.to = v, !.met = ~Quiet]
              ELSE [patch[q] EXCEPT !.met = patch[q].pc # "idle"]]
    BY DEF PatchArrives
  <1>1. PICK v \in [c -> Values] :
          patch' = [q \in Patches |->
              IF q = p THEN [Resting EXCEPT !.pc = "change", !.change = c, !.to = v, !.met = ~Quiet]
              ELSE [patch[q] EXCEPT !.met = patch[q].pc # "idle"]]
    BY <1>0
  <1> DEFINE r == [Resting EXCEPT !.pc = "change", !.change = c, !.to = v, !.met = ~Quiet]
             o(q) == [patch[q] EXCEPT !.met = patch[q].pc # "idle"]
  <1>2. v \in Partial /\ DOMAIN v = c /\ Quiet \in BOOLEAN
    BY DEF Partial, Quiet
  <1>3. /\ r \in PatchTypes /\ r.pc = "change" /\ r.change = c /\ r.to = v /\ (r.met <=> ~Quiet)
        /\ DOMAIN r.text = {}
    BY <1>2, RestingTypes DEF PatchTypes
  <1>4. \A q \in Patches :
          /\ o(q) \in PatchTypes /\ o(q).pc = patch[q].pc /\ o(q).change = patch[q].change
          /\ o(q).to = patch[q].to /\ o(q).text = patch[q].text
          /\ o(q).met = (patch[q].pc # "idle")
    BY DEF SettingsInv, SettingsTypes, PatchTypes
  <1>5. patch'[p] = r /\ \A q \in Patches \ {p} : patch'[q] = o(q)
    BY <1>1
  <1>6. patch' \in [Patches -> PatchTypes]
    BY <1>1, <1>3, <1>4
  <1> HIDE DEF r, o
  <1>7. /\ panel = "up" /\ patch[p].pc = "idle" /\ patches' \in 0 .. MaxPatches
        /\ UNCHANGED <<panel, cfg, configFile, settled, harmed>>
    BY SettingsAssumption DEF PatchArrives, In, SettingsInv, SettingsTypes
  <1>8. SettingsTypes'
    <2>1. \A q \in Patches : patch'[q].change \subseteq DOMAIN patch'[q].to
      BY <1>2, <1>3, <1>4, <1>5 DEF SettingsInv, SettingsTypes
    <2> QED BY <1>6, <1>7, <2>1 DEF SettingsInv, SettingsTypes
  <1>9. MeetingsAreKnown'
    <2>1. \A q \in Patches \ {p} : Busy(q)' => ~Quiet /\ patch'[q].met
      BY <1>4, <1>5 DEF Busy, Quiet
    <2>2. Busy(p)' /\ (patch'[p].met <=> ~Quiet)
      BY <1>3, <1>5 DEF Busy
    <2>3. \A a, q \in Patches : a # q /\ Busy(a)' /\ Busy(q)' => patch'[a].met
      BY <2>1, <2>2
    <2> QED BY <1>7, <2>3 DEF MeetingsAreKnown
  <1>10. TextIsMemory'
    <2>1. ASSUME NEW q \in Patches \ {p}
          PROVE  /\ patch'[q].pc = patch[q].pc /\ patch'[q].text = patch[q].text
                 /\ Opened(q)' => patch'[q].met
      BY <1>4, <1>5 DEF Opened
    <2> QED BY <1>3, <1>5, <2>1 DEF SettingsInv, TextIsMemory, Opened
  <1>11. FileIsGood'
    <2>1. ~Quiet'
      BY <1>3, <1>5 DEF Quiet
    <2>2. \A q \in Patches : Opened(q)' <=> Opened(q)
      BY <1>3, <1>4, <1>5, <1>7 DEF Opened
    <2> QED BY <1>7, <2>1, <2>2 DEF SettingsInv, FileIsGood
  <1> QED BY <1>8, <1>9, <1>10, <1>11 DEF SettingsInv

LEMMA ChangeKeeps == ASSUME SettingsInv, NEW p \in Patches, ChangeField(p) PROVE SettingsInv'
  <1>1. PICK f \in patch[p].change :
          /\ cfg' = [cfg EXCEPT ![f] = patch[p].to[f]]
          /\ patch' = [patch EXCEPT ![p].change = @ \ {f}]
    BY DEF ChangeField
  <1> DEFINE r == [patch[p] EXCEPT !.change = @ \ {f}]
  <1>2. /\ panel = "up" /\ patch[p].pc = "change" /\ DOMAIN patch[p].text = {}
        /\ UNCHANGED <<panel, configFile, patches, settled, harmed>>
    BY DEF ChangeField, In, SettingsInv, TextIsMemory
  <1>3. patch[p] \in PatchTypes /\ f \in Fields /\ patch[p].change \subseteq DOMAIN patch[p].to
    BY DEF SettingsInv, SettingsTypes, PatchTypes
  <1>4. /\ r \in PatchTypes /\ r.pc = "change" /\ r.met = patch[p].met /\ r.text = patch[p].text
        /\ r.change \subseteq DOMAIN r.to
    BY <1>2, <1>3 DEF PatchTypes
  <1>5. patch' = [patch EXCEPT ![p] = r]
    BY <1>1
  <1> HIDE DEF r
  <1>6. /\ patch'[p] = r /\ \A q \in Patches \ {p} : patch'[q] = patch[q]
        /\ patch' \in [Patches -> PatchTypes]
        /\ \A q \in Patches : patch'[q].change \subseteq DOMAIN patch'[q].to
        /\ MeetingsAreKnown'
        /\ \A q \in Patches \ {p} : patch[q].pc = "idle" \/ (patch[p].met /\ patch[q].met)
    BY <1>2, <1>4, <1>5, OnePatch DEF Busy
  <1>7. cfg' \in Config
    <2>1. patch[p].to[f] \in Values
      BY <1>3 DEF PatchTypes, Partial
    <2> QED BY <1>1, <1>3, <2>1 DEF SettingsInv, SettingsTypes, Config
  <1>8. SettingsTypes'
    BY <1>2, <1>6, <1>7 DEF SettingsInv, SettingsTypes
  <1>9. TextIsMemory'
    BY <1>2, <1>4, <1>6 DEF SettingsInv, TextIsMemory, Opened
  <1>10. FileIsGood'
    <2>1. ~Quiet' /\ \A q \in Patches : Opened(q)' <=> Opened(q)
      BY <1>2, <1>4, <1>6 DEF Quiet, Opened
    <2> QED BY <1>2, <2>1 DEF SettingsInv, FileIsGood
  <1> QED BY <1>6, <1>8, <1>9, <1>10 DEF SettingsInv

LEMMA OpenKeeps == ASSUME SettingsInv, NEW p \in Patches, OpenFile(p) PROVE SettingsInv'
  <1> DEFINE r == [patch[p] EXCEPT !.pc = "encode"]
  <1>1. /\ panel = "up" /\ patch[p].pc = "change" /\ DOMAIN patch[p].text = {}
        /\ configFile' = Empty /\ patch' = [patch EXCEPT ![p] = r]
        /\ harmed' = (harmed \/ patch[p].met)
        /\ UNCHANGED <<panel, cfg, patches, settled>>
    BY DEF OpenFile, AfterOpen, In, SettingsInv, TextIsMemory
  <1>2. patch[p] \in PatchTypes /\ patch[p].change \subseteq DOMAIN patch[p].to
    BY DEF SettingsInv, SettingsTypes
  <1>3. /\ r \in PatchTypes /\ r.pc = "encode" /\ r.met = patch[p].met /\ r.text = patch[p].text
        /\ r.change \subseteq DOMAIN r.to
    BY <1>2 DEF PatchTypes
  <1> HIDE DEF r
  <1>4. /\ patch'[p] = r /\ \A q \in Patches \ {p} : patch'[q] = patch[q]
        /\ patch' \in [Patches -> PatchTypes]
        /\ \A q \in Patches : patch'[q].change \subseteq DOMAIN patch'[q].to
        /\ MeetingsAreKnown'
        /\ \A q \in Patches \ {p} : patch[q].pc = "idle" \/ (patch[p].met /\ patch[q].met)
    BY <1>1, <1>3, OnePatch DEF Busy
  <1>5. harmed' \in BOOLEAN
    BY <1>1, <1>2 DEF SettingsInv, SettingsTypes, PatchTypes
  <1>6. SettingsTypes'
    BY <1>1, <1>4, <1>5 DEF SettingsInv, SettingsTypes
  <1>7. TextIsMemory'
    BY <1>1, <1>3, <1>4 DEF SettingsInv, TextIsMemory, Opened
  <1>8. FileIsGood'
    <2>1. ~Quiet' /\ Opened(p)'
      BY <1>3, <1>4 DEF Quiet, Opened
    <2> QED BY <1>1, <2>1 DEF SettingsInv, FileIsGood
  <1> QED BY <1>4, <1>6, <1>7, <1>8 DEF SettingsInv

LEMMA EncodeKeeps == ASSUME SettingsInv, NEW p \in Patches, EncodeField(p) PROVE SettingsInv'
  <1> DEFINE text == patch[p].text
             more(f) == [g \in DOMAIN text \cup {f} |-> IF g = f THEN cfg[f] ELSE text[g]]
             pc(f) == IF DOMAIN more(f) = Fields THEN "flush" ELSE "encode"
  <1>1. PICK f \in Fields \ DOMAIN text :
          patch' = [patch EXCEPT ![p].text = more(f), ![p].pc = pc(f)]
    BY DEF EncodeField
  <1> DEFINE r == [patch[p] EXCEPT !.text = more(f), !.pc = pc(f)]
  <1>2. /\ panel = "up" /\ patch[p].pc = "encode"
        /\ UNCHANGED <<panel, cfg, configFile, patches, settled, harmed>>
        /\ patch' = [patch EXCEPT ![p] = r]
    BY <1>1 DEF EncodeField, In
  <1>3. patch[p] \in PatchTypes /\ patch[p].change \subseteq DOMAIN patch[p].to
    BY DEF SettingsInv, SettingsTypes
  <1>4. /\ more(f) \in Partial /\ pc(f) \in {"encode", "flush"}
        /\ pc(f) = "flush" => DOMAIN more(f) = Fields
    <2>1. text \in Partial
      BY <1>3 DEF PatchTypes
    <2>2. PICK c \in SUBSET Fields : text \in [c -> Values]
      BY <2>1 DEF Partial
    <2>3. cfg[f] \in Values
      BY DEF SettingsInv, SettingsTypes, Config
    <2>4. c \cup {f} \in SUBSET Fields /\ DOMAIN text = c
      BY <2>2
    <2>5. more(f) \in [c \cup {f} -> Values]
      BY <2>2, <2>3, <2>4
    <2>6. more(f) \in Partial
      BY <2>4, <2>5 DEF Partial
    <2> QED BY <2>6
  <1>5. \A g \in DOMAIN more(f) : more(f)[g] = IF g = f THEN cfg[f] ELSE text[g]
    OBVIOUS
  <1>6. \A g \in DOMAIN more(f) : g = f \/ g \in DOMAIN text
    OBVIOUS
  <1> HIDE DEF more, pc
  <1>7. /\ r \in PatchTypes /\ r.pc = pc(f) /\ r.met = patch[p].met /\ r.text = more(f)
        /\ r.change \subseteq DOMAIN r.to
    BY <1>3, <1>4 DEF PatchTypes
  <1> HIDE DEF r
  <1>8. /\ patch'[p] = r /\ \A q \in Patches \ {p} : patch'[q] = patch[q]
        /\ patch' \in [Patches -> PatchTypes]
        /\ \A q \in Patches : patch'[q].change \subseteq DOMAIN patch'[q].to
        /\ MeetingsAreKnown'
        /\ \A q \in Patches \ {p} : patch[q].pc = "idle" \/ (patch[p].met /\ patch[q].met)
    BY <1>2, <1>7, OnePatch DEF Busy
  <1>9. SettingsTypes'
    BY <1>2, <1>8 DEF SettingsInv, SettingsTypes
  <1>10. TextIsMemory'
    <2>1. ~patch[p].met =>
            configFile = Empty /\ \A g \in DOMAIN more(f) : more(f)[g] = cfg[g]
      BY <1>2, <1>5, <1>6 DEF SettingsInv, TextIsMemory, Opened
    <2> QED BY <1>2, <1>4, <1>7, <1>8, <2>1 DEF SettingsInv, TextIsMemory, Opened
  <1>11. FileIsGood'
    <2>1. ~Quiet' /\ Opened(p)'
      BY <1>4, <1>7, <1>8 DEF Quiet, Opened
    <2> QED BY <1>2, <2>1 DEF SettingsInv, FileIsGood
  <1> QED BY <1>8, <1>9, <1>10, <1>11 DEF SettingsInv

\* What is encoded are values of some fields.
LEMMA TextTypes ==
    ASSUME SettingsInv, NEW p \in Patches
    PROVE  \E c \in SUBSET Fields : patch[p].text \in [c -> Values]
  <1>1. patch[p].text \in Partial
    BY DEF SettingsInv, SettingsTypes, PatchTypes
  <1> QED BY <1>1 DEF Partial

\* The answers: 200 after the file was written, 500 otherwise.
LEMMA AnswerKeeps ==
    ASSUME SettingsInv, NEW p \in Patches, Flush(p) \/ CannotOpen(p) \/ CannotWrite(p)
    PROVE  SettingsInv'
  <1>1. PICK ok \in BOOLEAN : Answers(p, ok) /\ (ok => Flush(p))
    BY DEF Flush, CannotOpen, CannotWrite
  <1>2. /\ panel = "up" /\ Busy(p)
        /\ patch' = [patch EXCEPT ![p] = Resting]
        /\ settled' = (ok /\ ~patch[p].met)
        /\ harmed' = (harmed \/ ~ok \/ patch[p].met)
        /\ UNCHANGED <<panel, cfg, patches>>
    BY <1>1 DEF Answers, Flush, CannotOpen, CannotWrite, In, Busy
  <1>3. Resting.change \subseteq DOMAIN Resting.to
    BY RestingTypes
  <1>4. /\ patch'[p] = Resting /\ \A q \in Patches \ {p} : patch'[q] = patch[q]
        /\ patch' \in [Patches -> PatchTypes]
        /\ \A q \in Patches : patch'[q].change \subseteq DOMAIN patch'[q].to
        /\ MeetingsAreKnown'
        /\ \A q \in Patches \ {p} : patch[q].pc = "idle" \/ (patch[p].met /\ patch[q].met)
    BY <1>2, <1>3, RestingTypes, OnePatch
  <1>5. ok /\ ~patch[p].met => configFile' = Holds(cfg)
    <2> SUFFICES ASSUME ok, ~patch[p].met PROVE configFile' = Holds(cfg)
      OBVIOUS
    <2>1. Flush(p) /\ patch[p].pc = "flush"
      BY <1>1 DEF Flush, In
    <2>2. /\ configFile = Empty /\ DOMAIN patch[p].text = Fields
          /\ \A f \in Fields : patch[p].text[f] = cfg[f]
      BY <2>1 DEF SettingsInv, TextIsMemory, Opened
    <2>3. patch[p].text = cfg
      <3>1. \E c \in SUBSET Fields : patch[p].text \in [c -> Values]
        BY TextTypes
      <3>2. patch[p].text \in [Fields -> Values] /\ cfg \in [Fields -> Values]
        BY <2>2, <3>1 DEF SettingsInv, SettingsTypes, Config
      <3> QED BY <2>2, <3>2
    <2> QED BY <2>1, <2>2, <2>3 DEF Flush
  <1>6. configFile' \in {Empty, Torn} \cup {Holds(c) : c \in Config}
    <2>1. CASE configFile' = Holds(patch[p].text) /\ Flush(p)
      <3>1. patch[p].pc = "flush" /\ DOMAIN patch[p].text = Fields
        BY <2>1 DEF Flush, In, SettingsInv, TextIsMemory
      <3>2. \E c \in SUBSET Fields : patch[p].text \in [c -> Values]
        BY TextTypes
      <3>3. patch[p].text \in Config
        BY <3>1, <3>2 DEF Config
      <3> QED BY <2>1, <3>3
    <2>2. CASE configFile' \in {configFile, Torn}
      BY <2>2 DEF SettingsInv, SettingsTypes
    <2> QED BY <2>1, <2>2 DEF Flush, CannotOpen, CannotWrite
  <1>7. SettingsTypes'
    <2>1. settled' \in BOOLEAN /\ harmed' \in BOOLEAN
      BY <1>2
    <2> QED BY <1>2, <1>4, <1>6, <2>1 DEF SettingsInv, SettingsTypes
  <1>8. TextIsMemory'
    BY <1>2, <1>4, RestingTypes DEF SettingsInv, TextIsMemory, Opened
  <1>9. FileIsGood'
    BY <1>2, <1>5, FileKinds DEF SettingsInv, FileIsGood
  <1> QED BY <1>4, <1>7, <1>8, <1>9 DEF SettingsInv

-----------------------------------------------------------------------------
LEMMA KillKeeps == ASSUME SettingsInv, Kill PROVE SettingsInv'
  <1>1. /\ panel' = "down" /\ patch' = [p \in Patches |-> Resting]
        /\ settled' = (settled /\ Quiet)
        /\ harmed' = (harmed \/ \E p \in Patches : Opened(p))
        /\ UNCHANGED <<cfg, configFile, patches>>
    BY DEF Kill
  <1>2. patch' \in [Patches -> PatchTypes] /\ \A p \in Patches : patch'[p] = Resting
    BY <1>1, RestingTypes
  <1>3. SettingsTypes'
    <2>1. settled' \in BOOLEAN /\ harmed' \in BOOLEAN
      BY <1>1, Zenon DEF SettingsInv, SettingsTypes, Quiet
    <2> QED BY <1>1, <1>2, <2>1, RestingTypes DEF SettingsInv, SettingsTypes
  <1>4. MeetingsAreKnown' /\ TextIsMemory'
    BY <1>2, RestingTypes DEF MeetingsAreKnown, TextIsMemory, Busy, Opened, Quiet
  <1>5. FileIsGood'
    BY <1>1 DEF SettingsInv, FileIsGood
  <1> QED BY <1>3, <1>4, <1>5 DEF SettingsInv

LEMMA StartKeeps == ASSUME SettingsInv, Start PROVE SettingsInv'
  <1>1. Quiet /\ UNCHANGED <<configFile, patch, patches, settled, harmed>>
    BY DEF Start, SettingsInv, MeetingsAreKnown
  <1>2. \A p \in Patches : ~Opened(p)
    BY <1>1 DEF Quiet, Opened
  <1>3. cfg' \in Config /\ panel' \in {"up", "refused"}
    BY FileKinds DEF Start, SettingsInv, SettingsTypes
  <1>4. SettingsTypes'
    BY <1>1, <1>3 DEF SettingsInv, SettingsTypes
  <1>5. MeetingsAreKnown' /\ TextIsMemory'
    BY <1>1, <1>2 DEF SettingsInv, MeetingsAreKnown, TextIsMemory, Busy, Opened, Quiet
  <1>6. FileIsGood'
    <2>1. settled => configFile.kind = "config" /\ configFile.of = cfg
      BY <1>1, FileKinds DEF SettingsInv, FileIsGood
    <2>2. ~harmed => configFile.kind = "config"
      BY <1>2 DEF SettingsInv, FileIsGood
    <2>3. settled => configFile = Holds(cfg)
      BY <1>1 DEF SettingsInv, FileIsGood
    <2>4. settled => cfg' = cfg
      BY <2>1 DEF Start
    <2>5. panel' = "refused" => harmed
      BY <2>2 DEF Start
    <2> QED BY <1>1, <1>2, <2>2, <2>3, <2>4, <2>5 DEF FileIsGood, Quiet, Opened
  <1> QED BY <1>4, <1>5, <1>6 DEF SettingsInv

LEMMA SettingsStep == SettingsInv /\ [SettingsNext]_settingsVars => SettingsInv'
  <1> SUFFICES ASSUME SettingsInv, [SettingsNext]_settingsVars PROVE SettingsInv'
    OBVIOUS
  <1>1. CASE UNCHANGED settingsVars
    BY <1>1 DEF settingsVars, SettingsInv, SettingsTypes, MeetingsAreKnown, TextIsMemory,
                FileIsGood, Busy, Opened, Quiet
  <1> QED BY <1>1, ArrivalKeeps, ChangeKeeps, OpenKeeps, EncodeKeeps, AnswerKeeps, KillKeeps,
             StartKeeps DEF SettingsNext, PatchStep

\* What the last PATCH was told it set, alone, is what the file holds, and a Panel
\* that cannot start with its file owes it to a PATCH that failed, met another or was
\* killed; for every number of fields and of PATCHes, at any interleaving.
THEOREM AnsweredSettingsSurvive == SettingsSpec => []SettingsSurvive
  <1>1. SettingsInv => SettingsSurvive
    BY DEF SettingsInv, FileIsGood, SettingsSurvive
  <1> QED BY <1>1, SettingsInvInit, SettingsStep, PTL DEF SettingsSpec

\* The configuration in memory and in the file and the PATCHes keep their types for
\* every number of fields, values and PATCHes; a PATCH changes only fields it names.
THEOREM SettingsTypeCorrect == SettingsSpec => []SettingsTypeOK
  <1>1. SettingsInv => SettingsTypeOK
    BY DEF SettingsInv, SettingsTypes, SettingsTypeOK, PatchTypes
  <1> QED BY <1>1, SettingsInvInit, SettingsStep, PTL DEF SettingsSpec

-----------------------------------------------------------------------------
(* Retention: SamplesAreKept holds because what a DELETE removes is in the  *)
(* averages made before it, and because no report is stored under the       *)
(* cutoff in between.                                                       *)

Granularities == {"raw", "hourly", "daily"}
RunPCs == {"idle", "insert_hourly", "delete_raw", "insert_daily", "delete_hourly", "delete_daily"}

\* What the steps of a run keep of the types; a report is stored within StoreWithin.
RetentionTypes ==
    /\ now \in Nat
    /\ run \in [pc : RunPCs, now : Nat, days : [raw : Int, hourly : Int, daily : Int]]
    /\ run.now <= now
    /\ \A s \in arrived : s.ts \in Nat /\ s.ts <= now /\ now - s.ts <= StoreWithin

\* A row of a granularity, and a sample in it.
RightlyStamped(r, s) ==
    /\ s.ts \in Nat
    /\ r.granularity \in Granularities
    /\ r.granularity = "raw" => r.ts = s.ts
    /\ r.granularity = "hourly" => r.ts = Floor(s.ts, Hour)
    /\ r.granularity = "daily" => r.ts = Floor(s.ts, Day)

\* Every row is stamped with the start of the bucket its samples are in.
RowsAreStamped == \A r \in DOMAIN rows : \A s \in r.of : RightlyStamped(r, s)

\* What a DELETE is about to remove has been averaged.
IsIn(s, granularity) == \E q \in DOMAIN rows : q.granularity = granularity /\ s \in q.of
OldIsAveraged ==
    /\ run.pc = "delete_raw" /\ run.days.raw >= 1 => \A r \in Old("raw") : \A s \in r.of : IsIn(s, "hourly")
    /\ run.pc = "delete_hourly" => \A r \in Old("hourly") : \A s \in r.of : IsIn(s, "daily")

RetentionInv == RetentionTypes /\ RowsAreStamped /\ OldIsAveraged

\* What the property says of a step.
KeptOrPast ==
    \A s \in Stored : s \notin Stored' => Floor(s.ts, Day) < Cutoff("daily") \/ run.days.raw < 1

-----------------------------------------------------------------------------
\* A bucket begins before what it holds, and ends after it.
LEMMA FloorIsBelow ==
    ASSUME NEW x \in Nat, NEW b \in Nat \ {0}
    PROVE  Floor(x, b) \in Nat /\ Floor(x, b) <= x /\ x < Floor(x, b) + b /\ Floor(x, b) = b * (x \div b)
           /\ x \div b \in Nat
  BY DEF Floor

\* Less by a factor.
LEMMA Cancel ==
    ASSUME NEW a \in Int, NEW b \in Int, NEW h \in Nat \ {0}, h * a < h * b PROVE a < b
  OBVIOUS

\* The same multiple of a bucket.
LEMMA Between ==
    ASSUME NEW d \in Nat \ {0}, NEW m \in Int, NEW n \in Int, NEW x \in Int,
           d * m <= x, x < d * m + d, d * n <= x, x < d * n + d
    PROVE  m = n
  <1>1. d * m < d * (n + 1) /\ d * n < d * (m + 1)
    OBVIOUS
  <1>2. m < n + 1 /\ n < m + 1
    BY <1>1, Cancel
  <1> QED BY <1>2

\* The hours of a day are in one day.
LEMMA FloorOfFloor ==
    ASSUME NEW x \in Nat PROVE Floor(Floor(x, Hour), Day) = Floor(x, Day)
  <1>0. Hour \in Nat \ {0} /\ Day \in Nat \ {0} /\ Day % Hour = 0
    BY RetentionAssumption
  <1> DEFINE y == Floor(x, Hour)
             k == Day \div Hour
             m == x \div Hour
             q == x \div Day
             p == y \div Day
  <1>1. k \in Int /\ Day = Hour * k
    BY <1>0
  <1>2. y \in Nat /\ y <= x /\ x < y + Hour /\ y = Hour * m /\ m \in Nat
    BY <1>0, FloorIsBelow
  <1>3. q \in Nat /\ Day * q <= x /\ x < Day * q + Day /\ Floor(x, Day) = Day * q
    BY <1>0, FloorIsBelow
  <1>4. p \in Nat /\ Day * p <= y /\ y < Day * p + Day /\ Floor(y, Day) = Day * p
    BY <1>0, <1>2, FloorIsBelow
  <1> HIDE DEF y, k, m, q, p
  <1>5. Day * q <= y
    <2>1. Hour * (k * q) < Hour * (m + 1)
      <3>1. Hour * (k * q) = Day * q
        BY <1>0, <1>1, <1>3
      <3>2. Hour * (m + 1) = y + Hour
        BY <1>0, <1>2
      <3> QED BY <1>0, <1>2, <1>3, <3>1, <3>2
    <2>2. k * q < m + 1
      BY <2>1, <1>0, <1>1, <1>2, <1>3, Cancel
    <2>3. Hour * (k * q) <= Hour * m
      <3>1. k * q \in Int /\ k * q <= m
        BY <2>2, <1>1, <1>2, <1>3
      <3> QED BY <3>1, <1>0, <1>2
    <2> QED BY <2>3, <1>0, <1>1, <1>2, <1>3
  <1>6. y < Day * q + Day
    BY <1>0, <1>2, <1>3
  <1>7. p = q
    BY <1>0, <1>2, <1>3, <1>4, <1>5, <1>6, Between
  <1> QED BY <1>3, <1>4, <1>7 DEF y

\* The rows after an insertion.
LEMMA SumOfBags ==
    ASSUME NEW A, NEW S PROVE DOMAIN (A (+) SetToBag(S)) = DOMAIN A \cup S
  BY DEF SetToBag, (+)

\* The averages cover what is averaged, and hold nothing else.
LEMMA AveragesFacts ==
    ASSUME NEW target, NEW source, NEW bucket
    PROVE  /\ \A q \in Averages(target, source, bucket) :
                 /\ q.granularity = target
                 /\ \A s \in q.of : \E o \in Old(source) : s \in o.of /\ q.ts = Floor(o.ts, bucket)
           /\ \A o \in Old(source) : \A s \in o.of : \E q \in Averages(target, source, bucket) : s \in q.of
  <1> DEFINE olds == Old(source)
             Key(r) == <<r.node, Floor(r.ts, bucket)>>
             Of(k) == UNION {r.of : r \in {o \in olds : Key(o) = k}}
             Row(k) == [node |-> k[1], ts |-> k[2], granularity |-> target, of |-> Of(k)]
  <1>1. Averages(target, source, bucket) = {Row(k) : k \in {Key(r) : r \in olds}}
    BY DEF Averages, Averaged
  <1>2. ASSUME NEW k, NEW s \in Of(k) PROVE \E o \in olds : s \in o.of /\ Key(o) = k
    OBVIOUS
  <1>3. ASSUME NEW o \in olds, NEW s \in o.of PROVE s \in Of(Key(o))
    OBVIOUS
  <1>4. \A k : Row(k).granularity = target /\ Row(k).ts = k[2] /\ Row(k).of = Of(k)
    OBVIOUS
  <1>5. \A o : Key(o)[2] = Floor(o.ts, bucket)
    OBVIOUS
  <1> HIDE DEF olds, Key, Of, Row
  <1>6. ASSUME NEW q \in Averages(target, source, bucket)
        PROVE  /\ q.granularity = target
               /\ \A s \in q.of : \E o \in olds : s \in o.of /\ q.ts = Floor(o.ts, bucket)
    <2>1. PICK k : q = Row(k)
      BY <1>1
    <2>2. q.granularity = target /\ q.ts = k[2] /\ q.of = Of(k)
      BY <2>1, <1>4
    <2>3. ASSUME NEW s \in q.of PROVE \E o \in olds : s \in o.of /\ q.ts = Floor(o.ts, bucket)
      <3>1. PICK o \in olds : s \in o.of /\ Key(o) = k
        BY <1>2, <2>2, <2>3
      <3>2. k[2] = Floor(o.ts, bucket)
        BY <3>1, <1>5
      <3> QED BY <2>2, <3>1, <3>2
    <2> QED BY <2>2, <2>3
  <1>7. ASSUME NEW o \in olds, NEW s \in o.of PROVE \E q \in Averages(target, source, bucket) : s \in q.of
    <2>1. Row(Key(o)) \in Averages(target, source, bucket)
      BY <1>1
    <2> QED BY <2>1, <1>3, <1>4
  <1> QED BY <1>6, <1>7 DEF olds

LEMMA RetentionStart == RetentionInit => RetentionInv
  <1> SUFFICES ASSUME RetentionInit PROVE RetentionInv
    OBVIOUS
  <1>1. DOMAIN rows = {}
    BY DEF RetentionInit, EmptyBag, SetToBag
  <1>2. RetentionTypes
    BY DEF RetentionInit, RetentionTypes, NoRun, RunPCs
  <1>3. OldIsAveraged
    BY DEF RetentionInit, NoRun, OldIsAveraged
  <1> QED BY <1>1, <1>2, <1>3 DEF RetentionInv, RowsAreStamped

\* The steps that leave the rows and the run alone, or end the run.
LEMMA RowsStay ==
    ASSUME RetentionInv, UNCHANGED rows, RetentionTypes', run' = run \/ run'.pc \in {"idle", "insert_hourly"}
    PROVE  RetentionInv' /\ KeptOrPast
  BY DEF RetentionInv, RowsAreStamped, OldIsAveraged, Old, Cutoff, IsIn, KeptOrPast, Stored

LEMMA TimePasses ==
    ASSUME RetentionInv, Elapse \/ (\E n \in Reporters : ReportArrives(n)) \/ (\E s \in arrived : LoseReport(s))
                         \/ Begin \/ RunFails
    PROVE  RetentionInv' /\ KeptOrPast
  <1>0. UNCHANGED rows
    BY DEF Elapse, ReportArrives, LoseReport, Begin, RunFails
  <1>1. CASE Elapse
    <2>1. \A s \in arrived : now + 1 - s.ts <= StoreWithin
      BY <1>1, RetentionAssumption DEF Elapse, RetentionInv, RetentionTypes
    <2> QED BY <1>0, <1>1, <2>1, RowsStay DEF Elapse, RetentionInv, RetentionTypes
  <1>2. CASE \E n \in Reporters : ReportArrives(n)
    <2>1. PICK n \in Reporters : ReportArrives(n)
      BY <1>2
    <2>2. now - now <= StoreWithin
      BY RetentionAssumption DEF RetentionInv, RetentionTypes
    <2> QED BY <1>0, <2>1, <2>2, RowsStay DEF ReportArrives, RetentionInv, RetentionTypes
  <1>3. CASE \E s \in arrived : LoseReport(s)
    BY <1>0, <1>3, RowsStay DEF LoseReport, RetentionInv, RetentionTypes
  <1>4. CASE Begin
    <2>1. PICK d \in DaysInForce : run' = [pc |-> "insert_hourly", now |-> now, days |-> d]
      BY <1>4 DEF Begin
    <2>2. d \in [raw : Int, hourly : Int, daily : Int]
      BY RetentionAssumption
    <2>3. RetentionTypes'
      BY <1>4, <2>1, <2>2 DEF Begin, RetentionInv, RetentionTypes, RunPCs
    <2> QED BY <1>0, <2>1, <2>3, RowsStay
  <1>5. CASE RunFails
    <2>1. run' = NoRun /\ UNCHANGED <<now, arrived>>
      BY <1>5 DEF RunFails
    <2>2. NoRun \in [pc : RunPCs, now : Nat, days : [raw : Int, hourly : Int, daily : Int]]
          /\ NoRun.pc = "idle" /\ NoRun.now = 0
      BY DEF NoRun, RunPCs
    <2>3. RetentionTypes'
      BY <2>1, <2>2 DEF RetentionInv, RetentionTypes
    <2> QED BY <1>0, <2>1, <2>2, <2>3, RowsStay
  <1> QED BY <1>1, <1>2, <1>3, <1>4, <1>5

\* A report that is stored late is still newer than what the run removes.
LEMMA StoreKeeps == ASSUME RetentionInv, NEW s \in arrived, StoreReport(s) PROVE RetentionInv' /\ KeptOrPast
  <1> DEFINE r == [node |-> s.node, ts |-> s.ts, granularity |-> "raw", of |-> {s}]
  <1>0. DOMAIN rows' = DOMAIN rows \cup {r} /\ arrived' = arrived \ {s} /\ UNCHANGED <<now, run>>
    BY SumOfBags DEF StoreReport
  <1>1. r.granularity = "raw" /\ r.ts = s.ts /\ r.of = {s}
    OBVIOUS
  <1> HIDE DEF r
  <1>2. RetentionTypes'
    BY <1>0 DEF RetentionInv, RetentionTypes
  <1>3. RowsAreStamped'
    <2>1. \A x \in r.of : RightlyStamped(r, x)
      BY <1>1 DEF RetentionInv, RetentionTypes, RightlyStamped, Granularities
    <2> QED BY <1>0, <2>1 DEF RetentionInv, RowsAreStamped
  <1>4. run.days.raw >= 1 => ~(r.ts < Cutoff("raw"))
    <2> DEFINE d == run.days.raw
    <2>1. /\ d \in Int /\ run.now \in Nat /\ now \in Nat /\ run.now <= now /\ s.ts \in Nat /\ now - s.ts <= StoreWithin
          /\ StoreWithin \in Nat /\ StoreWithin <= Day /\ Day \in Nat
      BY RetentionAssumption DEF RetentionInv, RetentionTypes
    <2>2. Cutoff("raw") = run.now - d * Day
      BY DEF Cutoff
    <2> HIDE DEF d
    <2>3. d >= 1 => d * Day >= Day
      <3>1. ASSUME NEW e \in Nat PROVE (e + 1) * Day >= Day
        <4>1. e * Day >= 0
          BY <2>1, <3>1
        <4>2. (e + 1) * Day = e * Day + Day
          BY <2>1, <3>1
        <4>3. e * Day \in Int
          BY <2>1, <3>1
        <4> QED BY <2>1, <4>1, <4>2, <4>3
      <3>2. d >= 1 => d - 1 \in Nat /\ d = (d - 1) + 1
        BY <2>1
      <3> QED BY <3>1, <3>2
    <2>4. d * Day \in Int
      BY <2>1
    <2>5. d >= 1 => ~(s.ts < run.now - d * Day)
      BY <2>1, <2>3, <2>4
    <2> QED BY <1>1, <2>2, <2>5 DEF d
  <1>5. OldIsAveraged'
    BY <1>0, <1>1, <1>4 DEF RetentionInv, OldIsAveraged, Old, Cutoff, IsIn
  <1>6. KeptOrPast
    BY <1>0 DEF KeptOrPast, Stored
  <1> QED BY <1>2, <1>3, <1>5, <1>6 DEF RetentionInv

\* An average is of the bucket of its samples, and covers all that is old.
LEMMA InsertKeeps == ASSUME RetentionInv, InsertHourly \/ InsertDaily PROVE RetentionInv' /\ KeptOrPast
  <1>1. PICK target \in {"hourly", "daily"}, source \in {"raw", "hourly"}, bucket \in {Hour, Day}, next \in RunPCs :
          /\ DOMAIN rows' = DOMAIN rows \cup Averages(target, source, bucket)
          /\ run' = [run EXCEPT !.pc = next] /\ UNCHANGED <<now, arrived>>
          /\ \/ target = "hourly" /\ source = "raw" /\ bucket = Hour /\ next = "delete_raw"
             \/ target = "daily" /\ source = "hourly" /\ bucket = Day /\ next = "delete_hourly"
    <2>1. ASSUME NEW pc, NEW target, NEW source, NEW bucket, NEW next, Insert(pc, target, source, bucket, next)
          PROVE  /\ DOMAIN rows' = DOMAIN rows \cup Averages(target, source, bucket)
                 /\ run' = [run EXCEPT !.pc = next] /\ UNCHANGED <<now, arrived>>
      BY <2>1, SumOfBags DEF Insert
    <2>2. CASE InsertHourly
      BY <2>1, <2>2 DEF InsertHourly, RunPCs
    <2>3. CASE InsertDaily
      BY <2>1, <2>3 DEF InsertDaily, RunPCs
    <2> QED BY <2>2, <2>3
  <1>2. /\ \A q \in Averages(target, source, bucket) :
              /\ q.granularity = target
              /\ \A s \in q.of : \E o \in Old(source) : s \in o.of /\ q.ts = Floor(o.ts, bucket)
        /\ \A o \in Old(source) : \A s \in o.of : \E q \in Averages(target, source, bucket) : s \in q.of
    BY AveragesFacts
  <1>3. /\ run'.pc = next /\ run'.now = run.now /\ run'.days = run.days
        /\ run' \in [pc : RunPCs, now : Nat, days : [raw : Int, hourly : Int, daily : Int]]
    BY <1>1 DEF RetentionInv, RetentionTypes
  <1>4. RetentionTypes'
    BY <1>1, <1>3 DEF RetentionInv, RetentionTypes
  <1>5. RowsAreStamped'
    <2>1. ASSUME NEW q \in Averages(target, source, bucket), NEW s \in q.of PROVE RightlyStamped(q, s)
      <3>1. PICK o \in Old(source) : s \in o.of /\ q.ts = Floor(o.ts, bucket)
        BY <1>2, <2>1
      <3>2. RightlyStamped(o, s) /\ o.granularity = source
        BY <3>1 DEF RetentionInv, RowsAreStamped, Old
      <3>3. s.ts \in Nat /\ Floor(Floor(s.ts, Hour), Day) = Floor(s.ts, Day)
        BY <3>2, FloorOfFloor DEF RightlyStamped
      <3> QED BY <1>1, <1>2, <3>1, <3>2, <3>3 DEF RightlyStamped, Granularities
    <2> QED BY <1>1, <2>1 DEF RetentionInv, RowsAreStamped
  <1>6. Old(source)' = Old(source)
    BY <1>1, <1>2, <1>3 DEF Old, Cutoff
  <1>7. OldIsAveraged'
    <2>1. \A o \in Old(source) : \A s \in o.of : IsIn(s, target)'
      BY <1>1, <1>2 DEF IsIn
    <2> QED BY <1>1, <1>3, <1>6, <2>1 DEF OldIsAveraged
  <1>8. KeptOrPast
    BY <1>1 DEF KeptOrPast, Stored
  <1> QED BY <1>4, <1>5, <1>7, <1>8 DEF RetentionInv

\* A deletion takes what was averaged, or what is past daily_days.
LEMMA DeleteKeeps == ASSUME RetentionInv, DeleteRaw \/ DeleteHourly \/ DeleteDaily PROVE RetentionInv' /\ KeptOrPast
  <1>1. PICK g \in Granularities :
          /\ DOMAIN rows' = DOMAIN rows \ Old(g) /\ UNCHANGED <<now, arrived>>
          /\ \/ g = "raw" /\ run.pc = "delete_raw" /\ run' = [run EXCEPT !.pc = "insert_daily"]
             \/ g = "hourly" /\ run.pc = "delete_hourly" /\ run' = [run EXCEPT !.pc = "delete_daily"]
             \/ g = "daily" /\ run' = NoRun
    <2>1. \A gone : DOMAIN Except(gone) = DOMAIN rows \ gone
      BY DEF Except
    <2> QED BY <2>1 DEF DeleteRaw, DeleteHourly, DeleteDaily, Delete, Deleted, Granularities
  <1>2. run'.pc \in {"insert_daily", "delete_daily", "idle"} /\ RetentionTypes'
    BY <1>1 DEF RetentionInv, RetentionTypes, RunPCs, NoRun
  <1>3. RowsAreStamped' /\ OldIsAveraged'
    BY <1>1, <1>2 DEF RetentionInv, RowsAreStamped, OldIsAveraged
  <1>4. KeptOrPast
    <2>1. SUFFICES ASSUME NEW s \in Stored, s \notin Stored', run.days.raw >= 1 PROVE Floor(s.ts, Day) < Cutoff("daily")
      BY DEF KeptOrPast, RetentionInv, RetentionTypes
    <2>2. PICK r \in DOMAIN rows : s \in r.of
      BY DEF Stored
    <2>3. \A q \in DOMAIN rows : s \in q.of => q \in Old(g)
      BY <1>1, <2>1 DEF Stored
    <2>4. r \in Old(g) /\ r.granularity = g /\ r.ts < Cutoff(g)
      BY <2>2, <2>3 DEF Old
    <2>5. CASE g = "daily"
      BY <2>2, <2>4, <2>5 DEF RetentionInv, RowsAreStamped, RightlyStamped
    <2>6. CASE g # "daily"
      <3>1. PICK h \in Granularities : IsIn(s, h) /\ h # g
        BY <1>1, <2>1, <2>2, <2>4, <2>6 DEF RetentionInv, OldIsAveraged, Granularities
      <3>2. PICK q \in DOMAIN rows : q.granularity = h /\ s \in q.of
        BY <3>1 DEF IsIn
      <3> QED BY <2>3, <3>1, <3>2 DEF Old
    <2> QED BY <2>5, <2>6
  <1> QED BY <1>2, <1>3, <1>4 DEF RetentionInv

LEMMA RetentionStep ==
    ASSUME RetentionInv, [RetentionNext]_retentionVars PROVE RetentionInv' /\ KeptOrPast
  <1>1. CASE UNCHANGED retentionVars
    <2>1. RetentionTypes'
      BY <1>1 DEF retentionVars, RetentionInv, RetentionTypes
    <2> QED BY <1>1, <2>1, RowsStay DEF retentionVars
  <1> QED BY <1>1, TimePasses, StoreKeeps, InsertKeeps, DeleteKeeps DEF RetentionNext

\* Aggregate (retention.go) loses no sample before the day it belongs to is past
\* daily_days, wherever a run fails and whatever is stored between its statements,
\* for every length of hour and day (a day being whole hours) and all settings
\* with raw_days of at least 1.
THEOREM SamplesStay == RetentionSpec => SamplesAreKept
  <1>1. RetentionInv /\ [RetentionNext]_retentionVars => RetentionInv'
    BY RetentionStep
  <1>2. RetentionInv /\ [RetentionNext]_retentionVars =>
          [\A s \in Stored :
              s \notin Stored' => \/ Floor(s.ts, Day) < Cutoff("daily")
                                  \/ run.days.raw < 1]_retentionVars
    BY RetentionStep DEF KeptOrPast
  <1> QED BY <1>1, <1>2, RetentionStart, PTL DEF RetentionSpec, SamplesAreKept

-----------------------------------------------------------------------------
(* Retention: CountedOnce holds because an average is inserted only with   *)
(* the rows it stands for doomed to be deleted, and nothing is in two rows *)
(* of which neither is doomed.                                             *)

\* The rows a run is about to remove, whose samples are in averages already.
Doomed == CASE run.pc = "delete_raw" -> Old("raw")
            [] run.pc = "delete_hourly" -> Old("hourly")
            [] OTHER -> {}
Lasting == DOMAIN rows \ Doomed

\* Until a deletion fails, the rows that will stay count no sample twice, and what
\* has yet to be stored is in none.
NoneTwice ==
    ~doubled => /\ \A r \in Lasting : rows[r] = 1
                /\ \A r, q \in Lasting : \A s \in r.of : s \in q.of => r = q
NewIsNew == \A s \in arrived : s \notin Stored
NoneEmpty == \A r \in DOMAIN rows : r.of # {}

CountInv == RetentionInv /\ NoneTwice /\ NewIsNew /\ NoneEmpty

\* One row with one copy counts a sample once.
LEMMA OneRowCountsOnce ==
    ASSUME NEW s, NEW r \in DOMAIN rows, s \in r.of, rows[r] = 1,
           \A q \in DOMAIN rows : s \in q.of => q = r
    PROVE  Copies(s) = 1
  <1>1. {q \in DOMAIN rows : s \in q.of} = {r}
    OBVIOUS
  <1>2. Copies(s) = Total(rows, {r})
    BY <1>1 DEF Copies, Total
  <1> QED BY <1>2, TotalOfOne

\* The copies of the rows after an insertion.
LEMMA CopiesOfSum ==
    ASSUME NEW A, NEW S, NEW r \in DOMAIN A \cup S
    PROVE  (A (+) SetToBag(S))[r] = (IF r \in DOMAIN A THEN A[r] ELSE 0) + (IF r \in S THEN 1 ELSE 0)
  BY DEF SetToBag, (+)

LEMMA CountedOnceHolds == CountInv => CountedOnce
  <1> SUFFICES ASSUME CountInv, run.pc = "idle", ~doubled, NEW s \in Stored PROVE Copies(s) = 1
    BY DEF CountedOnce
  <1>1. PICK r \in DOMAIN rows : s \in r.of
    BY DEF Stored
  <1>2. Lasting = DOMAIN rows
    BY DEF Lasting, Doomed
  <1>3. rows[r] = 1 /\ \A q \in DOMAIN rows : s \in q.of => q = r
    BY <1>1, <1>2 DEF CountInv, NoneTwice
  <1> QED BY <1>1, <1>3, OneRowCountsOnce

\* An average is of all samples of some row.
LEMMA AveragesCover ==
    ASSUME NEW target, NEW source, NEW bucket
    PROVE  \A a \in Averages(target, source, bucket) : \E o \in Old(source) : o.of \subseteq a.of
  <1> DEFINE olds == Old(source)
             Key(r) == <<r.node, Floor(r.ts, bucket)>>
             Of(k) == UNION {r.of : r \in {o \in olds : Key(o) = k}}
             Row(k) == [node |-> k[1], ts |-> k[2], granularity |-> target, of |-> Of(k)]
  <1>1. Averages(target, source, bucket) = {Row(k) : k \in {Key(r) : r \in olds}}
    BY DEF Averages, Averaged
  <1>2. (\A k : Row(k).of = Of(k)) /\ \A o \in olds : o.of \subseteq Of(Key(o))
    OBVIOUS
  <1> HIDE DEF olds, Key, Of, Row
  <1>3. \A a \in Averages(target, source, bucket) : \E o \in olds : o.of \subseteq a.of
    BY <1>1, <1>2
  <1> QED BY <1>3 DEF olds

\* The averages are of different samples, and of those of the old rows.
LEMMA AveragesAreApart ==
    ASSUME NEW target, NEW source, NEW bucket,
           \A r, q \in Old(source) : \A s \in r.of : s \in q.of => r = q
    PROVE  \A a, b \in Averages(target, source, bucket) : \A s \in a.of :
              /\ \E o \in Old(source) : s \in o.of
              /\ s \in b.of => a = b
  <1> DEFINE olds == Old(source)
             Key(r) == <<r.node, Floor(r.ts, bucket)>>
             Of(k) == UNION {r.of : r \in {o \in olds : Key(o) = k}}
             Row(k) == [node |-> k[1], ts |-> k[2], granularity |-> target, of |-> Of(k)]
  <1>1. Averages(target, source, bucket) = {Row(k) : k \in {Key(r) : r \in olds}}
    BY DEF Averages, Averaged
  <1>2. ASSUME NEW k, NEW s \in Of(k) PROVE \E o \in olds : s \in o.of /\ Key(o) = k
    OBVIOUS
  <1>3. \A k : Row(k).of = Of(k)
    OBVIOUS
  <1>4. \A r, q \in olds : \A s \in r.of : s \in q.of => r = q
    OBVIOUS
  <1> HIDE DEF olds, Key, Of, Row
  <1>5. ASSUME NEW a \in Averages(target, source, bucket), NEW b \in Averages(target, source, bucket), NEW s \in a.of
        PROVE  (\E o \in olds : s \in o.of) /\ (s \in b.of => a = b)
    <2>1. PICK k, l : a = Row(k) /\ b = Row(l)
      BY <1>1
    <2>2. PICK o \in olds : s \in o.of /\ Key(o) = k
      BY <1>2, <1>3, <1>5, <2>1
    <2>3. ASSUME s \in b.of PROVE a = b
      <3>1. PICK p \in olds : s \in p.of /\ Key(p) = l
        BY <1>2, <1>3, <2>1, <2>3
      <3>2. p = o
        BY <1>4, <2>2, <3>1
      <3> QED BY <2>1, <2>2, <3>1, <3>2
    <2> QED BY <2>2, <2>3
  <1> QED BY <1>5 DEF olds

\* Steps that leave the rows alone and doom none that was not.
LEMMA CountStays ==
    ASSUME CountInv, UNCHANGED <<rows, doubled>>, RetentionInv', Lasting' \subseteq Lasting, NewIsNew'
    PROVE  CountInv'
  BY DEF CountInv, NoneTwice, NoneEmpty

\* There are no rows before the first report.
LEMMA CountStart == RetentionInit => CountInv
  <1> SUFFICES ASSUME RetentionInit PROVE CountInv
    OBVIOUS
  <1>1. DOMAIN rows = {} /\ arrived = {}
    BY DEF RetentionInit, EmptyBag, SetToBag
  <1>2. RetentionInv
    BY RetentionStart
  <1> QED BY <1>1, <1>2 DEF CountInv, NoneTwice, NewIsNew, NoneEmpty, Lasting

\* Steps that leave the rows alone; a run that fails between its two statements
\* is what the mark records.
LEMMA CountOfTime ==
    ASSUME CountInv, RetentionInv',
           Elapse \/ (\E n \in Reporters : ReportArrives(n)) \/ (\E s \in arrived : LoseReport(s)) \/ Begin \/ RunFails
    PROVE  CountInv'
  <1>0. UNCHANGED rows
    BY DEF Elapse, ReportArrives, LoseReport, Begin, RunFails
  <1>1. CASE Elapse \/ (\E s \in arrived : LoseReport(s))
    BY <1>0, <1>1, CountStays DEF Elapse, LoseReport, CountInv, NewIsNew, Stored, Lasting, Doomed, Old, Cutoff
  <1>2. CASE \E n \in Reporters : ReportArrives(n)
    <2>1. NewIsNew'
      BY <1>0, <1>2 DEF ReportArrives, CountInv, NewIsNew, Stored
    <2> QED BY <1>0, <1>2, <2>1, CountStays DEF ReportArrives, Lasting, Doomed, Old, Cutoff
  <1>3. CASE Begin
    <2>1. run.pc = "idle" /\ run'.pc = "insert_hourly" /\ UNCHANGED <<arrived, doubled>>
      BY <1>3 DEF Begin
    <2> QED BY <1>0, <2>1, CountStays DEF CountInv, NewIsNew, Stored, Lasting, Doomed
  <1>4. CASE RunFails
    <2>1. run' = NoRun /\ UNCHANGED arrived /\ doubled' = (doubled \/ run.pc \in {"delete_raw", "delete_hourly"})
      BY <1>4 DEF RunFails
    <2>2. run'.pc = "idle" /\ Lasting' = DOMAIN rows
      BY <1>0, <2>1 DEF NoRun, Lasting, Doomed
    <2>3. NewIsNew'
      BY <1>0, <2>1 DEF CountInv, NewIsNew, Stored
    <2>4. NoneTwice'
      <3>1. CASE run.pc \in {"delete_raw", "delete_hourly"}
        BY <2>1, <3>1 DEF NoneTwice
      <3>2. CASE run.pc \notin {"delete_raw", "delete_hourly"}
        <4>1. Lasting = DOMAIN rows /\ (~doubled' => ~doubled)
          BY <2>1, <3>2 DEF Lasting, Doomed
        <4> QED BY <1>0, <2>2, <4>1 DEF CountInv, NoneTwice
      <3> QED BY <3>1, <3>2
    <2> QED BY <1>0, <2>3, <2>4 DEF CountInv, NoneEmpty
  <1> QED BY <1>1, <1>2, <1>3, <1>4

\* A report is stored once.
LEMMA CountOfStore ==
    ASSUME CountInv, RetentionInv', NEW s \in arrived, StoreReport(s) PROVE CountInv'
  <1> DEFINE r == [node |-> s.node, ts |-> s.ts, granularity |-> "raw", of |-> {s}]
  <1>0. arrived' = arrived \ {s} /\ UNCHANGED <<run, doubled>> /\ rows' = rows (+) SetToBag({r})
    BY DEF StoreReport
  <1>1. r.of = {s}
    OBVIOUS
  <1> HIDE DEF r
  <1>2. DOMAIN rows' = DOMAIN rows \cup {r}
    BY <1>0, SumOfBags
  <1>3. \A q \in DOMAIN rows : s \notin q.of
    BY DEF CountInv, NewIsNew, Stored
  <1>4. r \notin DOMAIN rows
    BY <1>1, <1>3
  <1>5. rows'[r] = 1 /\ \A q \in DOMAIN rows : rows'[q] = rows[q] + 0
    BY <1>0, <1>4, CopiesOfSum
  <1>6. Lasting' \subseteq Lasting \cup {r}
    BY <1>0, <1>2 DEF Lasting, Doomed, Old, Cutoff
  <1>7. NoneTwice'
    <2> SUFFICES ASSUME ~doubled' PROVE NoneTwice'
      BY DEF NoneTwice
    <2>1. \A q \in Lasting : q \in DOMAIN rows /\ rows[q] = 1 /\ rows'[q] = 1
      BY <1>0, <1>5 DEF CountInv, NoneTwice, Lasting
    <2>2. \A p, q \in Lasting' : \A x \in p.of : x \in q.of => p = q
      BY <1>0, <1>1, <1>3, <1>6, <2>1 DEF CountInv, NoneTwice
    <2> QED BY <1>5, <1>6, <2>1, <2>2 DEF NoneTwice
  <1>8. NewIsNew'
    BY <1>0, <1>1, <1>2 DEF CountInv, NewIsNew, Stored
  <1> QED BY <1>1, <1>2, <1>7, <1>8 DEF CountInv, NoneEmpty

\* An average counts what the rows it dooms counted.
LEMMA CountOfInsert ==
    ASSUME CountInv, RetentionInv', InsertHourly \/ InsertDaily PROVE CountInv'
  <1>1. PICK target \in {"hourly", "daily"}, source \in {"raw", "hourly"}, bucket \in {Hour, Day}, next \in RunPCs :
          /\ rows' = rows (+) SetToBag(Averages(target, source, bucket))
          /\ run' = [run EXCEPT !.pc = next] /\ UNCHANGED <<arrived, doubled>>
          /\ run.pc \in {"insert_hourly", "insert_daily"}
          /\ \/ target = "hourly" /\ source = "raw" /\ next = "delete_raw"
             \/ target = "daily" /\ source = "hourly" /\ next = "delete_hourly"
    BY DEF InsertHourly, InsertDaily, Insert, RunPCs
  <1> DEFINE new == Averages(target, source, bucket)
  <1>2. run'.pc = next /\ run'.now = run.now /\ run'.days = run.days
    BY <1>1 DEF CountInv, RetentionInv, RetentionTypes
  <1>3. \A q \in new : q.granularity = target
    BY AveragesFacts
  <1>4. DOMAIN rows' = DOMAIN rows \cup new
    BY <1>1, SumOfBags
  <1>5. Old(source)' = Old(source) /\ Old(source) \subseteq DOMAIN rows
    BY <1>1, <1>2, <1>3, <1>4 DEF Old, Cutoff
  <1>6. Lasting = DOMAIN rows /\ Lasting' = (DOMAIN rows \cup new) \ Old(source)
    BY <1>1, <1>2, <1>4, <1>5 DEF Lasting, Doomed
  <1>7. \A q \in new : q \notin Old(source)
    BY <1>1, <1>3 DEF Old
  <1>8. \A q \in new : q.of # {}
    BY <1>5, AveragesCover DEF CountInv, NoneEmpty
  <1>9. NewIsNew'
    <2>1. \A q \in new : \A s \in q.of : s \in Stored
      BY AveragesFacts, <1>5 DEF Stored
    <2> QED BY <1>1, <1>4, <2>1 DEF CountInv, NewIsNew, Stored
  <1>10. NoneTwice'
    <2> SUFFICES ASSUME ~doubled' PROVE NoneTwice'
      BY DEF NoneTwice
    <2>1. /\ \A r \in DOMAIN rows : rows[r] = 1
          /\ \A r, q \in DOMAIN rows : \A s \in r.of : s \in q.of => r = q
      BY <1>1, <1>6 DEF CountInv, NoneTwice
    <2>2. /\ \A a \in new : \A s \in a.of : \E o \in Old(source) : s \in o.of
          /\ \A a, b \in new : \A s \in a.of : s \in b.of => a = b
      BY <1>5, <2>1, AveragesAreApart
    <2>3. ASSUME NEW a \in new, NEW q \in DOMAIN rows \ Old(source), NEW s \in a.of PROVE s \notin q.of
      BY <1>5, <2>1, <2>2, <2>3
    <2>4. \A r, q \in Lasting' : \A s \in r.of : s \in q.of => r = q
      BY <1>6, <2>1, <2>2, <2>3
    <2>5. \A a \in new : a \notin DOMAIN rows
      BY <1>7, <1>8, <2>3
    <2>6. ASSUME NEW r \in Lasting' PROVE rows'[r] = 1
      <3>1. rows'[r] = (IF r \in DOMAIN rows THEN rows[r] ELSE 0) + (IF r \in new THEN 1 ELSE 0)
        BY <1>1, <1>6, CopiesOfSum
      <3> QED BY <1>6, <2>1, <2>5, <3>1
    <2> QED BY <2>4, <2>6 DEF NoneTwice
  <1>11. NoneEmpty'
    BY <1>4, <1>8 DEF CountInv, NoneEmpty
  <1> QED BY <1>9, <1>10, <1>11 DEF CountInv

\* A deletion takes the rows that were doomed, or some that hold what no other does.
LEMMA CountOfDelete ==
    ASSUME CountInv, RetentionInv', DeleteRaw \/ DeleteHourly \/ DeleteDaily PROVE CountInv'
  <1>1. PICK g \in Granularities :
          /\ rows' = Except(Old(g)) /\ UNCHANGED <<arrived, doubled>>
          /\ \/ g = "raw" /\ run.pc = "delete_raw" /\ run' = [run EXCEPT !.pc = "insert_daily"]
             \/ g = "hourly" /\ run.pc = "delete_hourly" /\ run' = [run EXCEPT !.pc = "delete_daily"]
             \/ g = "daily" /\ run.pc = "delete_daily" /\ run' = NoRun
    BY DEF DeleteRaw, DeleteHourly, DeleteDaily, Delete, Deleted, Granularities
  <1>2. DOMAIN rows' = DOMAIN rows \ Old(g) /\ \A r \in DOMAIN rows' : rows'[r] = rows[r]
    BY <1>1 DEF Except
  <1>3. Lasting' = DOMAIN rows \ Old(g) /\ Lasting' \subseteq Lasting
    BY <1>1, <1>2 DEF CountInv, RetentionInv, RetentionTypes, Lasting, Doomed, NoRun
  <1>4. NoneTwice'
    BY <1>1, <1>2, <1>3 DEF CountInv, NoneTwice
  <1>5. NewIsNew'
    BY <1>1, <1>2 DEF CountInv, NewIsNew, Stored
  <1> QED BY <1>2, <1>4, <1>5 DEF CountInv, NoneEmpty

\* Every step keeps the invariant.
LEMMA CountStep == CountInv /\ [RetentionNext]_retentionVars => CountInv'
  <1> SUFFICES ASSUME CountInv, [RetentionNext]_retentionVars PROVE CountInv'
    OBVIOUS
  <1>1. RetentionInv'
    BY RetentionStep DEF CountInv
  <1>2. CASE UNCHANGED retentionVars
    BY <1>1, <1>2, CountStays DEF retentionVars, CountInv, NewIsNew, Stored, Lasting, Doomed, Old, Cutoff
  <1> QED BY <1>1, <1>2, CountOfTime, CountOfStore, CountOfInsert, CountOfDelete DEF RetentionNext

\* Between two runs of Aggregate (retention.go) every sample of the database is in
\* exactly one row, however many runs and reports there were, unless the deletion
\* that follows an insertion failed.
THEOREM SamplesCountOnce == RetentionSpec => []CountedOnce
  <1>1. CountInv => CountedOnce
    BY CountedOnceHolds
  <1> QED BY <1>1, CountStart, CountStep, PTL DEF RetentionSpec

\* What no run has to know of the types.
RestRetentionTypes ==
    /\ IsABag(rows)
    /\ \A r \in DOMAIN rows : r.of \subseteq Sample /\ \A s \in r.of : s.node = r.node
    /\ arrived \subseteq Sample
    /\ now \in 0 .. MaxTime /\ samples \in 0 .. MaxSamples /\ failures \in 0 .. MaxFailures

\* An average is of one node.
LEMMA AveragesOfNodes ==
    ASSUME NEW target, NEW source, NEW bucket
    PROVE  \A a \in Averages(target, source, bucket) : \A s \in a.of :
              \E o \in Old(source) : s \in o.of /\ a.node = o.node
  <1> DEFINE olds == Old(source)
             Key(r) == <<r.node, Floor(r.ts, bucket)>>
             Of(k) == UNION {r.of : r \in {o \in olds : Key(o) = k}}
             Row(k) == [node |-> k[1], ts |-> k[2], granularity |-> target, of |-> Of(k)]
  <1>1. Averages(target, source, bucket) = {Row(k) : k \in {Key(r) : r \in olds}}
    BY DEF Averages, Averaged
  <1>2. \A k : Row(k).of = Of(k) /\ Row(k).node = k[1]
    OBVIOUS
  <1>3. ASSUME NEW k, NEW s \in Of(k) PROVE \E o \in olds : s \in o.of /\ Key(o) = k
    OBVIOUS
  <1>4. \A o : Key(o)[1] = o.node
    OBVIOUS
  <1> HIDE DEF olds, Key, Of, Row
  <1>5. ASSUME NEW a \in Averages(target, source, bucket), NEW s \in a.of
        PROVE  \E o \in olds : s \in o.of /\ a.node = o.node
    <2>1. PICK k : a = Row(k)
      BY <1>1
    <2>2. PICK o \in olds : s \in o.of /\ Key(o) = k
      BY <1>2, <1>3, <1>5, <2>1
    <2> QED BY <1>2, <1>4, <2>1, <2>2
  <1> QED BY <1>5 DEF olds

\* Rows added once each to a bag make a bag.
LEMMA BagGrows ==
    ASSUME NEW B, IsABag(B), NEW S PROVE IsABag(B (+) SetToBag(S))
  <1> DEFINE C == B (+) SetToBag(S)
             D == DOMAIN B \cup S
  <1>1. C = [r \in D |-> C[r]] /\ DOMAIN C = D
    BY DEF SetToBag, (+)
  <1>2. \A r \in DOMAIN B : B[r] \in {n \in Nat : n > 0}
    BY DEF IsABag
  <1>3. \A r \in D : C[r] = (IF r \in DOMAIN B THEN B[r] ELSE 0) + (IF r \in S THEN 1 ELSE 0)
    BY CopiesOfSum
  <1> HIDE DEF C
  <1>4. \A r \in D : C[r] \in {n \in Nat : n > 0}
    BY <1>2, <1>3
  <1>5. C \in [D -> {n \in Nat : n > 0}]
    BY <1>1, <1>4
  <1> QED BY <1>1, <1>5 DEF C, IsABag

LEMMA RestRetentionStep ==
    ASSUME CountInv, RestRetentionTypes, [RetentionNext]_retentionVars PROVE RestRetentionTypes'
  <1>0. /\ MaxTime \in Nat /\ MaxSamples \in Nat /\ MaxFailures \in Nat
        /\ IsABag(rows)
        /\ \A r \in DOMAIN rows : r.of \subseteq Sample /\ \A s \in r.of : s.node = r.node
        /\ arrived \subseteq Sample
        /\ now \in 0 .. MaxTime /\ samples \in 0 .. MaxSamples /\ failures \in 0 .. MaxFailures
    BY RetentionAssumption DEF RestRetentionTypes
  <1>1. now' \in 0 .. MaxTime
    <2>1. now' = now \/ (now < MaxTime /\ now' = now + 1)
      BY DEF RetentionNext, Elapse, ReportArrives, StoreReport, LoseReport, Begin, InsertHourly, InsertDaily, Insert,
             DeleteRaw, DeleteHourly, DeleteDaily, Delete, RunFails, retentionVars
    <2> QED BY <1>0, <2>1
  <1>2. samples' \in 0 .. MaxSamples
    <2>1. samples' = samples \/ (samples < MaxSamples /\ samples' = samples + 1)
      BY DEF RetentionNext, Elapse, ReportArrives, StoreReport, LoseReport, Begin, InsertHourly, InsertDaily, Insert,
             DeleteRaw, DeleteHourly, DeleteDaily, Delete, RunFails, retentionVars
    <2> QED BY <1>0, <2>1
  <1>3. failures' \in 0 .. MaxFailures
    <2>1. failures' = failures \/ (failures < MaxFailures /\ failures' = failures + 1)
      BY DEF RetentionNext, Elapse, ReportArrives, StoreReport, LoseReport, Begin, InsertHourly, InsertDaily, Insert,
             DeleteRaw, DeleteHourly, DeleteDaily, Delete, RunFails, retentionVars
    <2> QED BY <1>0, <2>1
  <1>4. arrived' \subseteq Sample
    <2>1. arrived' \subseteq arrived \/ \E n \in Reporters : arrived' = arrived \cup {[node |-> n, ts |-> now]}
      BY DEF RetentionNext, Elapse, ReportArrives, StoreReport, LoseReport, Begin, InsertHourly, InsertDaily, Insert,
             DeleteRaw, DeleteHourly, DeleteDaily, Delete, RunFails, retentionVars
    <2>2. \A n \in Reporters : [node |-> n, ts |-> now] \in Sample
      BY <1>0 DEF Sample
    <2> QED BY <1>0, <2>1, <2>2
  <1>5. IsABag(rows') /\ \A r \in DOMAIN rows' : r.of \subseteq Sample /\ \A s \in r.of : s.node = r.node
    <2> DEFINE Good == IsABag(rows') /\ \A r \in DOMAIN rows' : r.of \subseteq Sample /\ \A s \in r.of : s.node = r.node
    <2>1. ASSUME NEW S,
                 rows' = rows (+) SetToBag(S), \A r \in S : r.of \subseteq Sample /\ \A s \in r.of : s.node = r.node
          PROVE  Good
      <3>1. IsABag(rows') /\ DOMAIN rows' = DOMAIN rows \cup S
        BY <1>0, <2>1, BagGrows, SumOfBags
      <3> QED BY <1>0, <2>1, <3>1
    <2>2. ASSUME NEW s \in arrived, StoreReport(s) PROVE Good
      <3> DEFINE r == [node |-> s.node, ts |-> s.ts, granularity |-> "raw", of |-> {s}]
      <3>1. r.of = {s} /\ r.node = s.node /\ s \in Sample
        BY <1>0
      <3>2. rows' = rows (+) SetToBag({r})
        BY <2>2 DEF StoreReport
      <3> HIDE DEF r, Good
      <3> QED BY <2>1, <3>1, <3>2
    <2>3. ASSUME NEW target, NEW source, NEW bucket, rows' = rows (+) SetToBag(Averages(target, source, bucket))
          PROVE  Good
      <3>1. Old(source) \subseteq DOMAIN rows
        BY DEF Old
      <3>2. \A a \in Averages(target, source, bucket) : a.of \subseteq Sample /\ \A s \in a.of : s.node = a.node
        BY <1>0, <3>1, AveragesOfNodes
      <3> HIDE DEF Good
      <3> QED BY <2>1, <2>3, <3>2
    <2>4. ASSUME NEW gone, rows' = Except(gone) PROVE Good
      <3>1. DOMAIN rows' = DOMAIN rows \ gone /\ rows' \in [DOMAIN rows \ gone -> {n \in Nat : n > 0}]
        BY <1>0, <2>4 DEF Except, IsABag
      <3> QED BY <1>0, <3>1 DEF IsABag
    <2>5. ASSUME rows' = rows PROVE Good
      BY <1>0, <2>5
    <2> HIDE DEF Good
    <2>6. ASSUME InsertHourly \/ InsertDaily PROVE Good
      <3>1. \/ rows' = rows (+) SetToBag(Averages("hourly", "raw", Hour))
            \/ rows' = rows (+) SetToBag(Averages("daily", "hourly", Day))
        BY <2>6 DEF InsertHourly, InsertDaily, Insert
      <3> QED BY <2>3, <3>1
    <2>7. ASSUME DeleteRaw \/ DeleteHourly \/ DeleteDaily PROVE Good
      <3>1. \E gone : rows' = Except(gone)
        BY <2>7 DEF DeleteRaw, DeleteHourly, DeleteDaily, Delete
      <3> QED BY <2>4, <3>1
    <2>8. \/ rows' = rows \/ (\E s \in arrived : StoreReport(s))
          \/ InsertHourly \/ InsertDaily \/ DeleteRaw \/ DeleteHourly \/ DeleteDaily
      BY DEF RetentionNext, Elapse, ReportArrives, LoseReport, Begin, RunFails, retentionVars
    <2>9. Good
      BY <2>2, <2>5, <2>6, <2>7, <2>8
    <2> QED BY <2>9 DEF Good
  <1> QED BY <1>1, <1>2, <1>3, <1>4, <1>5 DEF RestRetentionTypes

\* Rows, reports under way and the counts keep their types for every length of hour
\* and day and all settings: an average is of samples of one node and is stamped with
\* the start of the bucket they are in.
THEOREM RetentionTypeCorrect == RetentionSpec => []RetentionTypeOK
  <1>1. RetentionInit => RestRetentionTypes
    <2> SUFFICES ASSUME RetentionInit PROVE RestRetentionTypes
      OBVIOUS
    <2>1. DOMAIN rows = {} /\ IsABag(rows)
      <3>1. rows = [r \in {} |-> 1]
        BY DEF RetentionInit, EmptyBag, SetToBag
      <3>2. DOMAIN rows = {} /\ rows \in [{} -> {n \in Nat : n > 0}]
        BY <3>1
      <3> QED BY <3>2 DEF IsABag
    <2>2. now = 0 /\ samples = 0 /\ failures = 0 /\ arrived = {}
      BY DEF RetentionInit
    <2> QED BY <2>1, <2>2, RetentionAssumption DEF RestRetentionTypes
  <1>2. CountInv /\ RestRetentionTypes => RetentionTypeOK
    <2> SUFFICES ASSUME CountInv, RestRetentionTypes PROVE RetentionTypeOK
      OBVIOUS
    <2>1. ASSUME NEW r \in DOMAIN rows
          PROVE  r.ts \in CASE r.granularity = "raw" -> {s.ts : s \in r.of}
                            [] r.granularity = "hourly" -> {Floor(s.ts, Hour) : s \in r.of}
                            [] r.granularity = "daily" -> {Floor(s.ts, Day) : s \in r.of}
      <3>1. PICK s \in r.of : RightlyStamped(r, s)
        BY DEF CountInv, NoneEmpty, RetentionInv, RowsAreStamped
      <3>2. CASE r.granularity = "raw"
        BY <3>1, <3>2 DEF RightlyStamped
      <3>3. CASE r.granularity = "hourly"
        BY <3>1, <3>3 DEF RightlyStamped
      <3>4. CASE r.granularity = "daily"
        BY <3>1, <3>4 DEF RightlyStamped
      <3> QED BY <3>1, <3>2, <3>3, <3>4 DEF RightlyStamped, Granularities
    <2> QED BY <2>1 DEF CountInv, NoneEmpty, RestRetentionTypes, RetentionTypeOK
  <1>3. CountInv /\ RestRetentionTypes /\ [RetentionNext]_retentionVars => CountInv' /\ RestRetentionTypes'
    BY CountStep, RestRetentionStep
  <1> QED BY <1>1, <1>2, <1>3, CountStart, PTL DEF RetentionSpec

-----------------------------------------------------------------------------
(* GeoRefresher: NoLostRefresh holds because an address that waits is       *)
(* pending, and because one that leaves the worker is looked up, refused,   *)
(* dropped with a trace, or marked dirty.                                   *)

WorkerPCs == {"idle", "taken", "read", "apply", "apply and look up", "lookup", "finish"}
ObserverTypes == [pc : {"idle", "observe", "enqueue"}, node : Nodes \cup {NoNode}, host : Hosts \cup {NoHost}]

\* What the steps of the refresher keep of the types.
GeoTypes ==
    /\ row \in [Nodes -> Rows]
    /\ cache \in [PublicIPs -> CacheEntries]
    /\ queue \in Seq(PublicIPs)
    /\ obs \in [Observers -> ObserverTypes]
    /\ \A t \in Observers : obs[t].pc # "idle" => obs[t].node \in Nodes
    /\ \A t \in Observers : obs[t].pc = "enqueue" => obs[t].host.ip \in PublicIPs
    /\ DOMAIN todo \subseteq Nodes /\ \A n \in DOMAIN todo : todo[n] \in Hosts \cup {NoHost}
    /\ worker \in [pc : WorkerPCs, ip : PublicIPs \cup {NoIP}]
    /\ worker.pc # "idle" => worker.ip \in PublicIPs
    /\ spent \in [{"report", "mishap"} -> Nat]

\* A location is of the address it was looked up for; a refusal waits for its
\* retry; the worker applies only what the cache knows.
LocationInv ==
    /\ \A ip \in PublicIPs : cache[ip].loc \in {ip, NoLocation} /\ (cache[ip].retry => cache[ip].failed)
    /\ LocationIsOfItsAddress
    /\ worker.pc \in {"apply", "apply and look up"} => cache[worker.ip].at # "never"

\* An address is in the queue once, and pending there and at the worker.
QueueInv ==
    /\ \A i \in 1 .. Len(queue) : queue[i] \in pending
    /\ \A i, j \in 1 .. Len(queue) : queue[i] = queue[j] => i = j
    /\ worker.pc # "idle" => worker.ip \in pending /\ \A i \in 1 .. Len(queue) : queue[i] # worker.ip
    /\ worker.pc \notin {"idle", "taken"} => worker.ip \in processing

\* No lookup is under way, and one is still to come or was refused or dropped.
Held(ip) ==
    \/ ip \in deferred
    \/ cache[ip].failed
    \/ \E t \in Observers : obs[t].pc = "enqueue" /\ obs[t].host.ip = ip
Waits(n, ip) == row[n].geo = ip /\ row[n].at = "never"

\* The first half of NoLostRefresh, and what makes it survive the end of a lookup.
WaitingIsHeld ==
    /\ \A n \in Nodes, ip \in PublicIPs : Waits(n, ip) => ip \in pending \/ Held(ip)
    /\ worker.pc = "finish" =>
          \A n \in Nodes : Waits(n, worker.ip) => worker.ip \in dirty \/ Held(worker.ip)

\* The second half: the row's address, or a handler that is about to observe it.
AddressFollows ==
    spent.mishap = 0 =>
        \A n \in Nodes :
            \/ row[n].geo = row[n].host.ip
            \/ \E t \in Handlers : obs[t].pc = "observe" /\ obs[t].node = n /\ obs[t].host = row[n].host

GeoInv == GeoTypes /\ LocationInv /\ QueueInv /\ WaitingIsHeld /\ AddressFollows

-----------------------------------------------------------------------------
\* The words for no address are no addresses.
LEMMA Places ==
    /\ NoIP \notin PublicIPs /\ NoLocation \notin PublicIPs /\ Internal \notin PublicIPs
    /\ \A ip \in PublicIPs : ip \notin OtherIPs /\ ip \in IPs
    /\ NoHost.ip = NoIP /\ NoIP \in IPs
  BY AddressAssumption DEF IPs, NoHost

\* The initial values.
LEMMA GeoResting ==
    /\ NoRow \in Rows /\ NoRow.loc = NoLocation /\ NoRow.geo = NoIP /\ NoRow.host = NoHost
    /\ NoEntry \in CacheEntries /\ NoEntry.loc = NoLocation /\ NoEntry.at = "never" /\ ~NoEntry.retry
    /\ AtRest \in ObserverTypes /\ AtRest.pc = "idle"
    /\ Idle \in [pc : WorkerPCs, ip : PublicIPs \cup {NoIP}] /\ Idle.pc = "idle"
  BY Places DEF NoRow, Rows, Ages, NoEntry, CacheEntries, AtRest, ObserverTypes, Idle, WorkerPCs, NoHost

LEMMA NothingToDo == LET nothing == [n \in {} |-> NoHost] IN DOMAIN nothing = {}
  OBVIOUS

LEMMA GeoStart == GeoInit => GeoInv
  <1> SUFFICES ASSUME GeoInit PROVE GeoInv
    OBVIOUS
  <1>1. /\ row = [n \in Nodes |-> NoRow] /\ cache = [ip \in PublicIPs |-> NoEntry] /\ queue = <<>>
        /\ obs = [t \in Observers |-> AtRest] /\ worker = Idle /\ DOMAIN todo = {}
    BY NothingToDo DEF GeoInit
  <1>2. spent \in [{"report", "mishap"} -> Nat]
    <2>1. spent = [kind \in DOMAIN Budgets |-> 0]
      BY DEF GeoInit
    <2>2. DOMAIN Budgets = {"report", "mishap"}
      BY DEF Budgets
    <2> HIDE DEF Budgets
    <2> QED BY <2>1, <2>2
  <1>3. GeoTypes
    BY <1>1, <1>2, GeoResting DEF GeoTypes
  <1>4. LocationInv
    BY <1>1, GeoResting, Places DEF LocationInv, LocationIsOfItsAddress
  <1>5. QueueInv
    BY <1>1, GeoResting DEF QueueInv
  <1>6. WaitingIsHeld /\ AddressFollows
    BY <1>1, GeoResting, Places DEF WaitingIsHeld, AddressFollows, Waits
  <1> QED BY <1>3, <1>4, <1>5, <1>6 DEF GeoInv

\* What Offer does to its address, and that it does nothing to the others.
LEMMA OfferFacts ==
    ASSUME GeoTypes, QueueInv, NEW ip \in PublicIPs, Offer(ip), \A i \in 1 .. Len(queue) : queue[i] # ip
    PROVE  /\ queue' \in Seq(PublicIPs)
           /\ \A i \in 1 .. Len(queue') : queue'[i] \in pending'
           /\ \A i, j \in 1 .. Len(queue') : queue'[i] = queue'[j] => i = j
           /\ \A i \in 1 .. Len(queue') : queue'[i] = ip \/ \E j \in 1 .. Len(queue) : queue'[i] = queue[j]
           /\ ip \in pending' \cup deferred'
           /\ \A x : x # ip => (x \in pending' <=> x \in pending) /\ (x \in deferred' <=> x \in deferred)
  <1>1. CASE Len(queue) < Capacity
    <2>1. queue' = Append(queue, ip) /\ pending' = pending \cup {ip} /\ deferred' = deferred \ {ip}
      BY <1>1 DEF Offer
    <2>2. /\ queue' \in Seq(PublicIPs) /\ Len(queue') = Len(queue) + 1
          /\ \A i \in 1 .. Len(queue) : queue'[i] = queue[i]
          /\ queue'[Len(queue) + 1] = ip
      BY <2>1, AppendProperties DEF GeoTypes
    <2>3. Len(queue) \in Nat
      BY DEF GeoTypes
    <2>4. \A i \in 1 .. Len(queue') : i \in 1 .. Len(queue) \/ i = Len(queue) + 1
      BY <2>2, <2>3
    <2> QED BY <2>1, <2>2, <2>4 DEF QueueInv
  <1>2. CASE ~(Len(queue) < Capacity)
    BY <1>2 DEF Offer, GeoTypes, QueueInv
  <1> QED BY <1>1, <1>2

LEMMA MishapFacts ==
    ASSUME GeoTypes, Spend("mishap")
    PROVE  spent' \in [{"report", "mishap"} -> Nat] /\ spent'.mishap # 0
  BY DEF Spend, GeoTypes

\* What the observers say of a node, as long as they and the rows do not change.
LEMMA FollowsAlone ==
    ASSUME AddressFollows, UNCHANGED obs, spent'.mishap = 0 => spent.mishap = 0,
           \A n \in Nodes : row'[n].geo = row[n].geo /\ row'[n].host = row[n].host
    PROVE  AddressFollows'
  BY DEF AddressFollows

-----------------------------------------------------------------------------
\* The steps of handlers and of the reconciliation.
LEMMA ReportKeeps ==
    ASSUME GeoInv, NEW t \in Handlers, NEW n \in Nodes, NEW host \in Hosts, Report(t, n, host)
    PROVE  GeoInv'
  <1> DEFINE o == [pc |-> "observe", node |-> n, host |-> host]
             r == [row[n] EXCEPT !.host = host]
  <1>0. /\ obs[t].pc = "idle" /\ row' = [row EXCEPT ![n] = r] /\ obs' = [obs EXCEPT ![t] = o]
        /\ UNCHANGED <<cache, queue, pending, processing, dirty, todo, worker, deferred>>
    BY DEF Report
  <1>1. t \in Observers /\ o \in ObserverTypes /\ o.pc = "observe" /\ o.node = n /\ o.host = host
    BY DEF Observers, ObserverTypes
  <1>2. r \in Rows /\ r.geo = row[n].geo /\ r.loc = row[n].loc /\ r.at = row[n].at /\ r.host = host
    BY DEF GeoInv, GeoTypes, Rows
  <1> HIDE DEF o, r
  <1>3. spent' \in [{"report", "mishap"} -> Nat] /\ spent'.mishap = spent.mishap
    BY DEF Report, Spend, GeoInv, GeoTypes
  <1>4. /\ row' \in [Nodes -> Rows] /\ row'[n] = r /\ \A m \in Nodes : m # n => row'[m] = row[m]
        /\ obs' \in [Observers -> ObserverTypes] /\ obs'[t] = o /\ \A u \in Observers : u # t => obs'[u] = obs[u]
    BY <1>0, <1>1, <1>2 DEF GeoInv, GeoTypes
  <1>5. GeoTypes'
    BY <1>0, <1>1, <1>3, <1>4 DEF GeoInv, GeoTypes
  <1>6. LocationInv'
    BY <1>0, <1>2, <1>4 DEF GeoInv, LocationInv, LocationIsOfItsAddress
  <1>7. QueueInv'
    BY <1>0 DEF GeoInv, QueueInv
  <1>8. WaitingIsHeld'
    <2>1. \A ip \in PublicIPs : Held(ip) => Held(ip)'
      BY <1>0, <1>4 DEF Held
    <2>2. \A m \in Nodes : \A ip : Waits(m, ip)' <=> Waits(m, ip)
      BY <1>2, <1>4 DEF Waits
    <2>3. worker.pc = "finish" => worker.ip \in PublicIPs
      BY DEF GeoInv, GeoTypes
    <2> QED BY <1>0, <2>1, <2>2, <2>3 DEF GeoInv, WaitingIsHeld
  <1>9. AddressFollows'
    <2>1. ASSUME spent.mishap = 0, NEW m \in Nodes, m # n
          PROVE  \/ row'[m].geo = row'[m].host.ip
                 \/ \E u \in Handlers : obs'[u].pc = "observe" /\ obs'[u].node = m /\ obs'[u].host = row'[m].host
      <3>1. \A u \in Handlers : obs[u].pc = "observe" => obs'[u] = obs[u]
        BY <1>0, <1>4 DEF Observers
      <3> QED BY <1>4, <2>1, <3>1 DEF GeoInv, AddressFollows
    <2> QED BY <1>1, <1>2, <1>3, <1>4, <2>1 DEF AddressFollows
  <1> QED BY <1>5, <1>6, <1>7, <1>8, <1>9 DEF GeoInv

\* An observation never gives a row a location of another address.
LEMMA ObservedFacts ==
    ASSUME NEW r \in Rows, NEW ip \in IPs
    PROVE  /\ Observed(r, ip) \in Rows /\ Observed(r, ip).host = r.host /\ Observed(r, ip).geo = ip
           /\ Observed(r, ip).loc \in PublicIPs => r.geo = ip /\ Observed(r, ip).loc = r.loc
           /\ Observed(r, ip).at = "never" => ip \in PublicIPs \cup {NoIP} /\ NeedsLookup(Observed(r, ip))
  <1>1. CASE ip = NoIP
    <2>1. Observed(r, ip) = [r EXCEPT !.geo = ip, !.loc = NoLocation, !.at = "never"]
      BY <1>1 DEF Observed
    <2> QED BY <1>1, <2>1, Places DEF Rows, Ages, NeedsLookup
  <1>2. CASE ip # NoIP /\ ip \in OtherIPs
    <2>1. Observed(r, ip) = [r EXCEPT !.geo = ip, !.loc = Internal, !.at = "fresh"]
      BY <1>2 DEF Observed
    <2> QED BY <1>2, <2>1, Places DEF Rows, Ages, NeedsLookup
  <1>3. CASE ip # NoIP /\ ip \notin OtherIPs /\ r.geo = ip
    <2>1. Observed(r, ip) = r /\ ip \in PublicIPs
      BY <1>3 DEF Observed, IPs
    <2> QED BY <1>3, <2>1 DEF NeedsLookup
  <1>4. CASE ip # NoIP /\ ip \notin OtherIPs /\ r.geo # ip
    <2>1. Observed(r, ip) = [r EXCEPT !.geo = ip, !.loc = NoLocation, !.at = "never"] /\ ip \in PublicIPs
      BY <1>4 DEF Observed, IPs
    <2> QED BY <1>4, <2>1, Places DEF Rows, Ages, NeedsLookup
  <1> QED BY <1>1, <1>2, <1>3, <1>4

LEMMA ObserveKeeps == ASSUME GeoInv, NEW t \in Observers, Observe(t) PROVE GeoInv'
  <1>a. PICK n \in Nodes, ip \in IPs : n = obs[t].node /\ ip = obs[t].host.ip
    BY Places DEF Observe, GeoInv, GeoTypes, ObserverTypes, Hosts
  <1> DEFINE r == Observed(row[n], ip)
  <1>0. /\ obs[t].pc = "observe" /\ obs[t] \in ObserverTypes /\ n \in Nodes /\ row[n] \in Rows
        /\ UNCHANGED <<cache, queue, pending, processing, dirty, todo, worker, deferred, spent>>
    BY <1>a DEF Observe, GeoInv, GeoTypes
  <1>1. ip \in IPs /\ (Current(t) => row[n].host = obs[t].host)
    BY <1>a DEF Current
  <1>2. /\ r \in Rows /\ r.host = row[n].host /\ r.geo = ip
        /\ r.loc \in PublicIPs => row[n].geo = ip /\ r.loc = row[n].loc
        /\ r.at = "never" => ip \in PublicIPs \cup {NoIP} /\ NeedsLookup(r)
    BY <1>0, <1>1, ObservedFacts
  <1>3. /\ row' = IF Current(t) THEN [row EXCEPT ![n] = r] ELSE row
        /\ obs' = IF Current(t) /\ ip \in PublicIPs /\ NeedsLookup(r)
                  THEN [obs EXCEPT ![t].pc = "enqueue"] ELSE [obs EXCEPT ![t] = AtRest]
    BY <1>a DEF Observe
  <1> HIDE DEF r
  <1>4. /\ row' \in [Nodes -> Rows] /\ \A m \in Nodes : m # n => row'[m] = row[m]
        /\ row'[n] = IF Current(t) THEN r ELSE row[n]
    BY <1>0, <1>2, <1>3 DEF GeoInv, GeoTypes
  <1>5. /\ obs' \in [Observers -> ObserverTypes] /\ \A u \in Observers : u # t => obs'[u] = obs[u]
        /\ obs'[t].pc # "idle" => obs'[t].pc = "enqueue" /\ obs'[t].node = n /\ obs'[t].host = obs[t].host
                                  /\ ip \in PublicIPs
        /\ Current(t) /\ ip \in PublicIPs /\ NeedsLookup(r) => obs'[t].pc = "enqueue"
    <2>1. [obs[t] EXCEPT !.pc = "enqueue"] \in ObserverTypes
      BY <1>0 DEF ObserverTypes
    <2>2. CASE Current(t) /\ ip \in PublicIPs /\ NeedsLookup(r)
      <3>1. obs' = [obs EXCEPT ![t] = [obs[t] EXCEPT !.pc = "enqueue"]]
        BY <1>3, <2>2
      <3> QED BY <1>0, <1>a, <2>1, <2>2, <3>1 DEF GeoInv, GeoTypes, ObserverTypes
    <2>3. CASE ~(Current(t) /\ ip \in PublicIPs /\ NeedsLookup(r))
      <3>1. obs' = [obs EXCEPT ![t] = AtRest]
        BY <1>3, <2>3
      <3> QED BY <2>3, <3>1, GeoResting DEF GeoInv, GeoTypes
    <2> QED BY <2>2, <2>3
  <1>6. GeoTypes'
    BY <1>0, <1>a, <1>4, <1>5 DEF GeoInv, GeoTypes
  <1>7. LocationInv'
    BY <1>0, <1>2, <1>4 DEF GeoInv, LocationInv, LocationIsOfItsAddress
  <1>8. QueueInv'
    BY <1>0 DEF GeoInv, QueueInv
  <1>9. WaitingIsHeld'
    <2>1. \A x \in PublicIPs : Held(x) => Held(x)'
      BY <1>0, <1>5 DEF Held
    <2>2. \A m \in Nodes, x \in PublicIPs : Waits(m, x)' => Waits(m, x) \/ Held(x)'
      <3>1. ASSUME NEW x \in PublicIPs, Waits(n, x)', Current(t) PROVE Held(x)'
        <4>1. x = ip /\ r.at = "never"
          BY <1>0, <1>2, <1>4, <3>1 DEF Waits
        <4>2. obs'[t].pc = "enqueue" /\ obs'[t].host.ip = x
          BY <1>a, <1>2, <1>5, <3>1, <4>1
        <4> QED BY <4>2 DEF Held
      <3> QED BY <1>4, <3>1 DEF Waits
    <2>3. worker.pc = "finish" => worker.ip \in PublicIPs
      BY DEF GeoInv, GeoTypes
    <2> QED BY <1>0, <2>1, <2>2, <2>3 DEF GeoInv, WaitingIsHeld
  <1>10. AddressFollows'
    <2>1. ASSUME spent.mishap = 0, NEW m \in Nodes, row'[m].geo # row'[m].host.ip
          PROVE  \E u \in Handlers : obs'[u].pc = "observe" /\ obs'[u].node = m /\ obs'[u].host = row'[m].host
      <3>1. ~(m = n /\ Current(t))
        BY <1>a, <1>1, <1>2, <1>4, <2>1
      <3>2. row'[m] = row[m]
        BY <1>4, <3>1
      <3>3. PICK u \in Handlers : obs[u].pc = "observe" /\ obs[u].node = m /\ obs[u].host = row[m].host
        BY <2>1, <3>2 DEF GeoInv, AddressFollows
      <3>4. u # t
        BY <1>a, <3>1, <3>3 DEF Current
      <3> QED BY <1>5, <3>2, <3>3, <3>4 DEF Observers
    <2> QED BY <1>0, <2>1 DEF AddressFollows
  <1> QED BY <1>6, <1>7, <1>8, <1>9, <1>10 DEF GeoInv

LEMMA ObserveFailsKeeps == ASSUME GeoInv, NEW t \in Observers, ObserveFails(t) PROVE GeoInv'
  <1>0. /\ obs[t].pc = "observe" /\ obs' = [obs EXCEPT ![t] = AtRest]
        /\ todo' = todo \/ DOMAIN todo' = {}
        /\ UNCHANGED <<row, cache, queue, pending, processing, dirty, worker, deferred>>
    BY NothingToDo DEF ObserveFails
  <1>1. /\ obs' \in [Observers -> ObserverTypes] /\ obs'[t] = AtRest
        /\ \A u \in Observers : u # t => obs'[u] = obs[u]
    BY <1>0, GeoResting DEF GeoInv, GeoTypes
  <1>2. spent' \in [{"report", "mishap"} -> Nat] /\ spent'.mishap # 0
    BY MishapFacts DEF ObserveFails, GeoInv
  <1>3. GeoTypes'
    BY <1>0, <1>1, <1>2, GeoResting DEF GeoInv, GeoTypes
  <1>4. LocationInv' /\ QueueInv' /\ AddressFollows'
    BY <1>0, <1>2 DEF GeoInv, LocationInv, LocationIsOfItsAddress, QueueInv, AddressFollows
  <1>5. WaitingIsHeld'
    <2>1. \A x \in PublicIPs : Held(x) => Held(x)'
      BY <1>0, <1>1 DEF Held
    <2>3. worker.pc = "finish" => worker.ip \in PublicIPs
      BY DEF GeoInv, GeoTypes
    <2> QED BY <1>0, <2>1, <2>3 DEF GeoInv, WaitingIsHeld, Waits
  <1> QED BY <1>3, <1>4, <1>5 DEF GeoInv

\* An address that is pending already is looked up again, or was not begun with.
LEMMA EnqueueKeeps == ASSUME GeoInv, NEW t \in Observers, Enqueue(t) PROVE GeoInv'
  <1>a. PICK ip \in PublicIPs : ip = obs[t].host.ip
    BY DEF Enqueue, GeoInv, GeoTypes
  <1>0. /\ obs[t].pc = "enqueue" /\ ip \in PublicIPs /\ obs' = [obs EXCEPT ![t] = AtRest]
        /\ UNCHANGED <<row, cache, processing, todo, worker, spent>>
    BY DEF Enqueue
  <1>1. /\ obs' \in [Observers -> ObserverTypes] /\ obs'[t] = AtRest
        /\ \A u \in Observers : u # t => obs'[u] = obs[u]
    BY <1>0, GeoResting DEF GeoInv, GeoTypes
  <1>2. IF ip \in pending
        THEN /\ dirty' = IF ip \in processing THEN dirty \cup {ip} ELSE dirty
             /\ UNCHANGED <<queue, pending, deferred>>
        ELSE Offer(ip) /\ dirty' = dirty
    BY <1>a DEF Enqueue, AlreadyPending
  <1>3. /\ queue' \in Seq(PublicIPs) /\ QueueInv' /\ dirty \subseteq dirty' /\ ip \in pending' \cup deferred'
        /\ worker.pc = "finish" => worker.ip # ip \/ worker.ip \in dirty'
        /\ \A x : x # ip => (x \in pending' <=> x \in pending) /\ (x \in deferred' <=> x \in deferred)
    <2>1. CASE ip \in pending
      BY <1>0, <1>2, <2>1 DEF GeoInv, GeoTypes, QueueInv
    <2>2. CASE ip \notin pending
      <3>1. \A i \in 1 .. Len(queue) : queue[i] # ip
        BY <2>2 DEF GeoInv, QueueInv
      <3>2. worker.pc # "idle" => worker.ip # ip
        BY <2>2 DEF GeoInv, QueueInv
      <3>3. Offer(ip) /\ dirty' = dirty
        BY <1>2, <2>2
      <3>4. /\ queue' \in Seq(PublicIPs)
            /\ \A i \in 1 .. Len(queue') : queue'[i] \in pending'
            /\ \A i, j \in 1 .. Len(queue') : queue'[i] = queue'[j] => i = j
            /\ \A i \in 1 .. Len(queue') : queue'[i] = ip \/ \E j \in 1 .. Len(queue) : queue'[i] = queue[j]
            /\ ip \in pending' \cup deferred'
            /\ \A x : x # ip => (x \in pending' <=> x \in pending) /\ (x \in deferred' <=> x \in deferred)
        BY <1>0, <3>1, <3>3, OfferFacts DEF GeoInv
      <3>5. QueueInv'
        BY <1>0, <3>2, <3>4 DEF GeoInv, QueueInv
      <3> QED BY <3>2, <3>3, <3>4, <3>5
    <2> QED BY <2>1, <2>2
  <1>4. GeoTypes'
    BY <1>0, <1>1, <1>3, GeoResting DEF GeoInv, GeoTypes
  <1>5. LocationInv' /\ AddressFollows'
    <2>1. \A u \in Handlers : obs[u].pc = "observe" => obs'[u] = obs[u]
      BY <1>0, <1>1 DEF Observers
    <2>2. LocationInv'
      BY <1>0 DEF GeoInv, LocationInv, LocationIsOfItsAddress
    <2>3. AddressFollows'
      BY <1>0, <2>1 DEF GeoInv, AddressFollows
    <2> QED BY <2>2, <2>3
  <1>6. WaitingIsHeld'
    <2>1. \A x \in PublicIPs : x # ip /\ Held(x) => Held(x)'
      BY <1>0, <1>a, <1>1, <1>3 DEF Held
    <2>2. \A m \in Nodes, x \in PublicIPs : Waits(m, x)' => x \in pending' \/ Held(x)'
      <3>1. ip \in pending' \/ Held(ip)'
        BY <1>3 DEF Held
      <3> QED BY <1>0, <1>3, <2>1, <3>1 DEF GeoInv, WaitingIsHeld, Waits
    <2>3. worker.pc = "finish" => \A m \in Nodes : Waits(m, worker.ip) => worker.ip \in dirty' \/ Held(worker.ip)'
      <3>1. worker.pc = "finish" => worker.ip \in PublicIPs
        BY DEF GeoInv, GeoTypes
      <3> QED BY <1>0, <1>3, <2>1, <3>1 DEF GeoInv, WaitingIsHeld
    <2> QED BY <1>0, <2>2, <2>3 DEF WaitingIsHeld, Waits
  <1> QED BY <1>3, <1>4, <1>5, <1>6 DEF GeoInv

LEMMA ReconcileKeeps == ASSUME GeoInv, ReconcileLoad \/ ReconcileNext PROVE GeoInv'
  <1>0. /\ Reconciler \in Observers /\ obs[Reconciler].pc = "idle"
        /\ UNCHANGED <<row, cache, queue, pending, processing, dirty, worker, deferred, spent>>
    BY DEF ReconcileLoad, ReconcileNext, Observers
  <1>1. /\ obs' \in [Observers -> ObserverTypes]
        /\ \A u \in Observers : u # Reconciler => obs'[u] = obs[u]
        /\ obs'[Reconciler].pc # "enqueue"
        /\ obs'[Reconciler].pc # "idle" => obs'[Reconciler].node \in Nodes
        /\ DOMAIN todo' \subseteq Nodes /\ \A n \in DOMAIN todo' : todo'[n] \in Hosts \cup {NoHost}
    <2>1. CASE ReconcileLoad
      <3>1. \A n \in Nodes : row[n].host \in Hosts \cup {NoHost}
        BY DEF GeoInv, GeoTypes, Rows
      <3>2. obs' = obs /\ todo' = [n \in {m \in Nodes : Reported(m)} |-> row[n].host]
        BY <2>1 DEF ReconcileLoad
      <3> QED BY <1>0, <3>1, <3>2 DEF GeoInv, GeoTypes
    <2>2. CASE ReconcileNext
      <3>1. PICK n \in DOMAIN todo :
               /\ obs' = [obs EXCEPT ![Reconciler] = [pc |-> "observe", node |-> n, host |-> todo[n]]]
               /\ todo' = [m \in DOMAIN todo \ {n} |-> todo[m]]
        BY <2>2 DEF ReconcileNext
      <3>2. [pc |-> "observe", node |-> n, host |-> todo[n]] \in ObserverTypes /\ n \in Nodes
        BY DEF GeoInv, GeoTypes, ObserverTypes
      <3> QED BY <1>0, <3>1, <3>2 DEF GeoInv, GeoTypes
    <2> QED BY <2>1, <2>2
  <1>2. GeoTypes'
    BY <1>0, <1>1 DEF GeoInv, GeoTypes
  <1>3. \A u \in Observers : obs[u].pc # "idle" => obs'[u] = obs[u]
    BY <1>0, <1>1
  <1>4. LocationInv' /\ QueueInv' /\ AddressFollows'
    <2>1. \A u \in Handlers : obs[u].pc = "observe" => obs'[u] = obs[u]
      BY <1>3 DEF Observers
    <2>2. LocationInv' /\ QueueInv'
      BY <1>0 DEF GeoInv, LocationInv, LocationIsOfItsAddress, QueueInv
    <2>3. AddressFollows'
      BY <1>0, <2>1 DEF GeoInv, AddressFollows
    <2> QED BY <2>2, <2>3
  <1>5. WaitingIsHeld'
    <2>1. \A x \in PublicIPs : Held(x) => Held(x)'
      BY <1>0, <1>3 DEF Held
    <2>3. worker.pc = "finish" => worker.ip \in PublicIPs
      BY DEF GeoInv, GeoTypes
    <2> QED BY <1>0, <2>1, <2>3 DEF GeoInv, WaitingIsHeld, Waits
  <1> QED BY <1>2, <1>4, <1>5 DEF GeoInv
-----------------------------------------------------------------------------
\* The worker's.
LEMMA TakeKeeps == ASSUME GeoInv, Take PROVE GeoInv'
  <1>0. /\ worker.pc = "idle" /\ queue # <<>> /\ queue \in Seq(PublicIPs)
        /\ worker' = [pc |-> "taken", ip |-> Head(queue)] /\ queue' = Tail(queue)
        /\ UNCHANGED <<row, cache, pending, processing, dirty, obs, todo, deferred, spent>>
    BY DEF Take, GeoInv, GeoTypes
  <1>1. /\ Head(queue) \in PublicIPs /\ queue' \in Seq(PublicIPs) /\ Len(queue') = Len(queue) - 1
        /\ \A i \in 1 .. Len(queue') : queue'[i] = queue[i + 1]
    BY <1>0, HeadTailProperties
  <1>2. Len(queue) \in Nat /\ Len(queue) > 0 /\ Head(queue) = queue[1]
    BY <1>0
  <1>3. \A i \in 1 .. Len(queue') : i + 1 \in 1 .. Len(queue) /\ i + 1 # 1
    BY <1>1, <1>2
  <1>4. GeoTypes'
    BY <1>0, <1>1 DEF GeoInv, GeoTypes, WorkerPCs
  <1>5. QueueInv'
    <2>1. /\ \A i \in 1 .. Len(queue') : queue'[i] \in pending /\ queue'[i] # Head(queue)
          /\ Head(queue) \in pending
          /\ \A i, j \in 1 .. Len(queue') : queue'[i] = queue'[j] => i = j
      BY <1>1, <1>2, <1>3 DEF GeoInv, QueueInv
    <2> QED BY <1>0, <2>1 DEF QueueInv
  <1>6. LocationInv' /\ AddressFollows'
    BY <1>0 DEF GeoInv, LocationInv, LocationIsOfItsAddress, AddressFollows
  <1>7. WaitingIsHeld'
    BY <1>0 DEF GeoInv, WaitingIsHeld, Waits, Held
  <1> QED BY <1>4, <1>5, <1>6, <1>7 DEF GeoInv

\* A step of the worker at its address that leaves the queue and the observers alone.
LEMMA AtWork ==
    ASSUME GeoInv, worker.pc \notin {"idle", "taken"}, NEW pc \in WorkerPCs \ {"idle", "taken"},
           worker' = [worker EXCEPT !.pc = pc], UNCHANGED <<queue, pending, processing, dirty, obs, todo>>,
           row' \in [Nodes -> Rows], cache' \in [PublicIPs -> CacheEntries],
           spent' \in [{"report", "mishap"} -> Nat]
    PROVE  GeoTypes' /\ QueueInv' /\ worker'.ip = worker.ip /\ worker'.pc = pc /\ worker.ip \in PublicIPs
  <1>1. worker'.ip = worker.ip /\ worker'.pc = pc /\ worker' \in [pc : WorkerPCs, ip : PublicIPs \cup {NoIP}]
        /\ worker.ip \in PublicIPs
    BY DEF GeoInv, GeoTypes
  <1>2. GeoTypes'
    BY <1>1 DEF GeoInv, GeoTypes
  <1>3. QueueInv'
    BY <1>1 DEF GeoInv, QueueInv
  <1> QED BY <1>1, <1>2, <1>3

LEMMA MarkKeeps == ASSUME GeoInv, MarkProcessing PROVE GeoInv'
  <1>0. /\ worker.pc = "taken" /\ worker.ip \in PublicIPs /\ worker \in [pc : WorkerPCs, ip : PublicIPs \cup {NoIP}]
        /\ processing' = processing \cup {worker.ip} /\ worker' = [worker EXCEPT !.pc = "read"]
        /\ UNCHANGED <<row, cache, queue, pending, dirty, obs, todo, deferred, spent>>
    BY DEF MarkProcessing, GeoInv, GeoTypes
  <1>1. /\ worker'.pc = "read" /\ worker'.ip = worker.ip
        /\ worker' \in [pc : WorkerPCs, ip : PublicIPs \cup {NoIP}]
    BY <1>0 DEF WorkerPCs
  <1>2. GeoTypes'
    BY <1>0, <1>1 DEF GeoInv, GeoTypes
  <1>3. QueueInv'
    BY <1>0, <1>1 DEF GeoInv, QueueInv
  <1>4. LocationInv' /\ AddressFollows' /\ WaitingIsHeld'
    BY <1>0, <1>1 DEF GeoInv, LocationInv, LocationIsOfItsAddress, AddressFollows, WaitingIsHeld, Waits, Held
  <1> QED BY <1>2, <1>3, <1>4 DEF GeoInv

LEMMA ReadKeeps == ASSUME GeoInv, ReadCache PROVE GeoInv'
  <1>0. /\ worker.pc = "read" /\ worker \in [pc : WorkerPCs, ip : PublicIPs \cup {NoIP}] /\ worker.ip \in PublicIPs
        /\ UNCHANGED <<row, cache, queue, pending, processing, dirty, obs, todo, deferred, spent>>
    BY DEF ReadCache, WorkerAt, GeoInv, GeoTypes
  <1>1. PICK pc \in {"finish", "lookup", "apply", "apply and look up"} :
          /\ worker' = [worker EXCEPT !.pc = pc]
          /\ pc \in {"apply", "apply and look up"} => cache[worker.ip].at # "never"
          /\ pc = "finish" => cache[worker.ip].at = "never" /\ (cache[worker.ip].at = "fresh" \/ cache[worker.ip].retry)
    <2>1. worker' = [worker EXCEPT !.pc = IF cache[worker.ip].at = "never" THEN AfterCache(cache[worker.ip])
                        ELSE IF AfterCache(cache[worker.ip]) = "finish" THEN "apply"
                        ELSE "apply and look up"]
      BY DEF ReadCache, WorkerAt
    <2>2. AfterCache(cache[worker.ip]) \in {"finish", "lookup"}
          /\ (AfterCache(cache[worker.ip]) = "finish" => cache[worker.ip].at = "fresh" \/ cache[worker.ip].retry)
      BY DEF AfterCache
    <2> QED BY <2>1, <2>2
  <1>2. row' \in [Nodes -> Rows] /\ cache' \in [PublicIPs -> CacheEntries] /\ spent' \in [{"report", "mishap"} -> Nat]
    BY <1>0 DEF GeoInv, GeoTypes
  <1>3. pc \in WorkerPCs \ {"idle", "taken"}
    BY DEF WorkerPCs
  <1>4. GeoTypes' /\ QueueInv' /\ worker'.ip = worker.ip /\ worker'.pc = pc
    BY <1>0, <1>1, <1>2, <1>3, AtWork
  <1>5. LocationInv' /\ AddressFollows'
    <2>1. LocationInv'
      BY <1>0, <1>1, <1>4 DEF GeoInv, LocationInv, LocationIsOfItsAddress
    <2>2. AddressFollows'
      BY <1>0, FollowsAlone DEF GeoInv
    <2> QED BY <2>1, <2>2
  <1>6. pc = "finish" => cache[worker.ip].failed
    BY <1>0, <1>1 DEF GeoInv, LocationInv
  <1>7. WaitingIsHeld'
    BY <1>0, <1>4, <1>6 DEF GeoInv, WaitingIsHeld, Waits, Held
  <1> QED BY <1>4, <1>5, <1>7 DEF GeoInv

LEMMA ApplyKeeps == ASSUME GeoInv, Apply PROVE GeoInv'
  <1>a. PICK ip \in PublicIPs : ip = worker.ip
    BY DEF Apply, WorkerAt, GeoInv, GeoTypes
  <1>0. /\ worker.pc \in {"apply", "apply and look up"} /\ cache[ip] \in CacheEntries /\ cache[ip].at # "never"
        /\ cache[ip].loc \in {ip, NoLocation}
        /\ UNCHANGED <<cache, queue, pending, processing, dirty, obs, todo, deferred, spent>>
    BY <1>a DEF Apply, WorkerAt, GeoInv, GeoTypes, LocationInv
  <1>1. PICK pc \in {"finish", "lookup"} : worker' = [worker EXCEPT !.pc = pc]
    BY DEF Apply, WorkerAt
  <1>2. row' = [n \in Nodes |-> IF n \in Affected(ip) THEN [row[n] EXCEPT !.loc = cache[ip].loc, !.at = cache[ip].at]
                                ELSE row[n]]
    BY <1>a DEF Apply
  <1>3. ASSUME NEW n \in Nodes
        PROVE  /\ row'[n] \in Rows /\ row'[n].geo = row[n].geo /\ row'[n].host = row[n].host
               /\ row[n].geo = ip => row'[n].loc \in {ip, NoLocation} /\ row'[n].at # "never"
               /\ row[n].geo # ip => row'[n] = row[n]
    <2>1. row[n] \in Rows
      BY DEF GeoInv, GeoTypes
    <2>2. CASE row[n].geo = ip
      <3>1. row'[n] = [row[n] EXCEPT !.loc = cache[ip].loc, !.at = cache[ip].at]
        BY <1>2, <2>2 DEF Affected
      <3> QED BY <1>0, <2>1, <2>2, <3>1 DEF Rows, CacheEntries
    <2>3. CASE row[n].geo # ip
      BY <1>2, <2>1, <2>3 DEF Affected
    <2> QED BY <2>2, <2>3
  <1>4. row' \in [Nodes -> Rows]
    BY <1>2, <1>3
  <1>5. cache' \in [PublicIPs -> CacheEntries] /\ spent' \in [{"report", "mishap"} -> Nat]
        /\ pc \in WorkerPCs \ {"idle", "taken"}
    BY <1>0 DEF GeoInv, GeoTypes, WorkerPCs
  <1>6. GeoTypes' /\ QueueInv' /\ worker'.ip = worker.ip /\ worker'.pc = pc
    BY <1>0, <1>1, <1>4, <1>5, AtWork
  <1>7. LocationInv'
    BY <1>0, <1>3, <1>6, Places DEF GeoInv, LocationInv, LocationIsOfItsAddress
  <1>8. AddressFollows'
    BY <1>0, <1>3, FollowsAlone DEF GeoInv
  <1>9. WaitingIsHeld'
    <2>1. \A n \in Nodes, x \in PublicIPs : Waits(n, x)' => Waits(n, x) /\ x # ip
      BY <1>3 DEF Waits
    <2>2. \A x \in PublicIPs : Held(x) => Held(x)'
      BY <1>0 DEF Held
    <2> QED BY <1>0, <1>a, <1>6, <2>1, <2>2 DEF GeoInv, WaitingIsHeld
  <1> QED BY <1>6, <1>7, <1>8, <1>9 DEF GeoInv

LEMMA LookupKeeps == ASSUME GeoInv, Lookup \/ LookupFails PROVE GeoInv'
  <1>a. PICK ip \in PublicIPs : ip = worker.ip
    BY DEF Lookup, LookupFails, WorkerAt, GeoInv, GeoTypes
  <1>0. /\ worker.pc = "lookup" /\ cache[ip] \in CacheEntries /\ cache[ip].loc \in {ip, NoLocation}
        /\ UNCHANGED <<row, queue, pending, processing, dirty, obs, todo, deferred>>
    BY <1>a DEF Lookup, LookupFails, WorkerAt, GeoInv, GeoTypes, LocationInv
  <1>1. PICK e \in CacheEntries, pc \in {"apply", "finish"} :
          /\ worker' = [worker EXCEPT !.pc = pc] /\ cache' = [cache EXCEPT ![ip] = e]
          /\ e.loc \in {ip, NoLocation} /\ (e.retry => e.failed)
          /\ pc = "apply" => e.at # "never"
          /\ pc = "finish" => e.failed
    <2>1. CASE Lookup
      <3> DEFINE e == [loc |-> Located(ip), at |-> "fresh", failed |-> FALSE, retry |-> FALSE]
      <3>1. Located(ip) \in {ip, NoLocation}
        BY DEF Located
      <3>2. e \in CacheEntries
        BY <3>1 DEF CacheEntries, Ages
      <3>3. cache' = [cache EXCEPT ![ip] = e] /\ worker' = [worker EXCEPT !.pc = "apply"]
        BY <1>a, <2>1 DEF Lookup, WorkerAt
      <3> QED BY <3>1, <3>2, <3>3
    <2>2. CASE LookupFails
      <3> DEFINE e == [cache[ip] EXCEPT !.failed = TRUE, !.retry = TRUE]
      <3>1. e \in CacheEntries /\ e.loc = cache[ip].loc /\ e.failed
        BY <1>0 DEF CacheEntries
      <3>2. cache' = [cache EXCEPT ![ip] = e]
        BY <1>a, <2>2 DEF LookupFails, GeoInv, GeoTypes
      <3>3. worker' = [worker EXCEPT !.pc = "finish"]
        BY <2>2 DEF LookupFails, WorkerAt
      <3> HIDE DEF e
      <3> QED BY <1>0, <3>1, <3>2, <3>3
    <2> QED BY <2>1, <2>2
  <1>2. /\ cache' \in [PublicIPs -> CacheEntries] /\ cache'[ip] = e
        /\ \A x \in PublicIPs : x # ip => cache'[x] = cache[x]
    BY <1>1 DEF GeoInv, GeoTypes
  <1>3. spent' \in [{"report", "mishap"} -> Nat] /\ (spent'.mishap = 0 => spent.mishap = 0)
    BY DEF Lookup, LookupFails, Spend, GeoInv, GeoTypes
  <1>4. row' \in [Nodes -> Rows] /\ pc \in WorkerPCs \ {"idle", "taken"}
    BY <1>0 DEF GeoInv, GeoTypes, WorkerPCs
  <1>5. GeoTypes' /\ QueueInv' /\ worker'.ip = ip /\ worker'.pc = pc
    BY <1>0, <1>1, <1>2, <1>3, <1>4, <1>a, AtWork
  <1>6. LocationInv'
    BY <1>0, <1>1, <1>2, <1>5 DEF GeoInv, LocationInv, LocationIsOfItsAddress
  <1>7. AddressFollows'
    BY <1>0, <1>3 DEF GeoInv, AddressFollows
  <1>8. WaitingIsHeld'
    <2>1. ip \in pending
      BY <1>0, <1>a DEF GeoInv, QueueInv
    <2>2. \A x \in PublicIPs : x # ip /\ Held(x) => Held(x)'
      BY <1>0, <1>2 DEF Held
    <2>3. pc = "finish" => Held(ip)'
      BY <1>1, <1>2 DEF Held
    <2>4. \A n \in Nodes, x \in PublicIPs : Waits(n, x)' => x \in pending' \/ Held(x)'
      BY <1>0, <2>1, <2>2 DEF GeoInv, WaitingIsHeld, Waits
    <2> QED BY <1>5, <2>3, <2>4 DEF WaitingIsHeld
  <1> QED BY <1>5, <1>6, <1>7, <1>8 DEF GeoInv

LEMMA RefreshFailsKeeps == ASSUME GeoInv, RefreshFails PROVE GeoInv'
  <1>a. PICK ip \in PublicIPs : ip = worker.ip
    BY DEF RefreshFails, GeoInv, GeoTypes
  <1>0. /\ worker.pc \in {"read", "apply", "apply and look up", "lookup"}
        /\ worker' = [worker EXCEPT !.pc = "finish"] /\ deferred' = deferred \cup {ip}
        /\ UNCHANGED <<row, cache, queue, pending, processing, dirty, obs, todo>>
    BY <1>a DEF RefreshFails
  <1>1. spent' \in [{"report", "mishap"} -> Nat] /\ spent'.mishap # 0
    BY MishapFacts DEF RefreshFails, GeoInv
  <1>2. row' \in [Nodes -> Rows] /\ cache' \in [PublicIPs -> CacheEntries]
        /\ "finish" \in WorkerPCs \ {"idle", "taken"}
    BY <1>0 DEF GeoInv, GeoTypes, WorkerPCs
  <1>3. GeoTypes' /\ QueueInv' /\ worker'.ip = ip /\ worker'.pc = "finish"
    BY <1>a, <1>0, <1>1, <1>2, AtWork
  <1>4. LocationInv' /\ AddressFollows'
    <2>1. LocationInv'
      BY <1>0, <1>3 DEF GeoInv, LocationInv, LocationIsOfItsAddress
    <2>2. AddressFollows'
      BY <1>1 DEF AddressFollows
    <2> QED BY <2>1, <2>2
  <1>5. WaitingIsHeld'
    <2>1. \A x : Held(x) => Held(x)'
      BY <1>0 DEF Held
    <2>2. Held(ip)'
      <3>1. ip \in deferred'
        BY <1>0
      <3> QED BY <3>1 DEF Held
    <2> QED BY <1>a, <1>0, <1>3, <2>1, <2>2 DEF GeoInv, WaitingIsHeld, Waits
  <1> QED BY <1>3, <1>4, <1>5 DEF GeoInv

\* The worker lets go of an address; the dirty mark queues it again.
LEMMA FinishKeeps == ASSUME GeoInv, Finish PROVE GeoInv'
  <1>a. PICK ip \in PublicIPs : ip = worker.ip
    BY DEF Finish, GeoInv, GeoTypes
  <1>0. /\ worker.pc = "finish" /\ worker' = Idle
        /\ UNCHANGED <<row, cache, obs, todo, spent>>
    BY DEF Finish
  <1>1. IF ip \in dirty THEN Offer(ip) ELSE pending' = pending \ {ip} /\ UNCHANGED <<queue, deferred>>
    BY <1>a DEF Finish, Rerun
  <1>2. \A i \in 1 .. Len(queue) : queue[i] # ip
    BY <1>a, <1>0 DEF GeoInv, QueueInv
  <1>3. /\ queue' \in Seq(PublicIPs) /\ QueueInv'
        /\ \A x : x # ip => (x \in pending' <=> x \in pending) /\ (x \in deferred' <=> x \in deferred)
        /\ ip \in dirty => ip \in pending' \cup deferred'
        /\ ip \notin dirty => deferred' = deferred
    <2>1. CASE ip \in dirty
      <3>1. Offer(ip)
        BY <1>1, <2>1
      <3>2. /\ queue' \in Seq(PublicIPs)
            /\ \A i \in 1 .. Len(queue') : queue'[i] \in pending'
            /\ \A i, j \in 1 .. Len(queue') : queue'[i] = queue'[j] => i = j
            /\ ip \in pending' \cup deferred'
            /\ \A x : x # ip => (x \in pending' <=> x \in pending) /\ (x \in deferred' <=> x \in deferred)
        BY <1>2, <3>1, OfferFacts DEF GeoInv
      <3> QED BY <1>0, <2>1, <3>2, GeoResting DEF QueueInv
    <2>2. CASE ip \notin dirty
      BY <1>0, <1>1, <1>2, <2>2, GeoResting DEF GeoInv, GeoTypes, QueueInv
    <2> QED BY <2>1, <2>2
  <1>4. GeoTypes'
    BY <1>0, <1>3, GeoResting DEF GeoInv, GeoTypes
  <1>5. LocationInv' /\ AddressFollows'
    BY <1>0, GeoResting DEF GeoInv, LocationInv, LocationIsOfItsAddress, AddressFollows
  <1>6. WaitingIsHeld'
    <2>1. \A x \in PublicIPs : x # ip /\ Held(x) => Held(x)'
      BY <1>0, <1>3 DEF Held
    <2>2. ip \notin dirty /\ Held(ip) => Held(ip)'
      BY <1>0, <1>3 DEF Held
    <2>3. ip \in dirty => ip \in pending' \/ Held(ip)'
      BY <1>3 DEF Held
    <2>4. \A n \in Nodes : Waits(n, ip) => ip \in dirty \/ Held(ip)
      BY <1>0, <1>a DEF GeoInv, WaitingIsHeld
    <2>5. \A n \in Nodes, x \in PublicIPs : Waits(n, x) => x \in pending' \/ Held(x)'
      BY <1>3, <2>1, <2>2, <2>3, <2>4 DEF GeoInv, WaitingIsHeld
    <2> QED BY <1>0, <2>5, GeoResting DEF WaitingIsHeld, Waits
  <1> QED BY <1>3, <1>4, <1>5, <1>6 DEF GeoInv

-----------------------------------------------------------------------------
\* What time and restarts do.
LEMMA TimeKeeps == ASSUME GeoInv, NEW ip \in PublicIPs, Expire(ip) \/ RetryElapses(ip) PROVE GeoInv'
  <1>0. UNCHANGED <<queue, pending, processing, dirty, obs, todo, worker, deferred>>
    BY DEF Expire, RetryElapses
  <1>1. /\ spent' \in [{"report", "mishap"} -> Nat] /\ (spent'.mishap = 0 => spent.mishap = 0)
    BY DEF Expire, RetryElapses, Spend, GeoInv, GeoTypes
  <1>2. PICK e \in CacheEntries :
          /\ cache' = [cache EXCEPT ![ip] = e]
          /\ e.loc = cache[ip].loc /\ e.failed = cache[ip].failed /\ (e.retry => cache[ip].retry)
          /\ e.at = "never" => cache[ip].at = "never"
    <2>1. CASE Expire(ip)
      <3>1. [cache[ip] EXCEPT !.at = "stale"] \in CacheEntries
        BY DEF GeoInv, GeoTypes, CacheEntries, Ages
      <3>2. cache' = [cache EXCEPT ![ip] = [cache[ip] EXCEPT !.at = "stale"]]
        BY <2>1 DEF Expire
      <3>3. cache[ip] \in CacheEntries
        BY DEF GeoInv, GeoTypes
      <3> QED BY <3>1, <3>2, <3>3 DEF CacheEntries
    <2>2. CASE RetryElapses(ip)
      <3>1. [cache[ip] EXCEPT !.retry = FALSE] \in CacheEntries
        BY DEF GeoInv, GeoTypes, CacheEntries
      <3>2. cache' = [cache EXCEPT ![ip] = [cache[ip] EXCEPT !.retry = FALSE]]
        BY <2>2 DEF RetryElapses
      <3>3. cache[ip] \in CacheEntries
        BY DEF GeoInv, GeoTypes
      <3> QED BY <3>1, <3>2, <3>3 DEF CacheEntries
    <2> QED BY <2>1, <2>2
  <1>3. /\ cache' \in [PublicIPs -> CacheEntries] /\ cache'[ip] = e
        /\ \A x \in PublicIPs : x # ip => cache'[x] = cache[x]
    BY <1>2 DEF GeoInv, GeoTypes
  <1>4. row' \in [Nodes -> Rows]
        /\ \A n \in Nodes : /\ row'[n].geo = row[n].geo /\ row'[n].host = row[n].host /\ row'[n].loc = row[n].loc
                            /\ row'[n].at = "never" => row[n].at = "never"
    <2>1. CASE RetryElapses(ip)
      BY <2>1 DEF RetryElapses, GeoInv, GeoTypes
    <2>2. CASE Expire(ip)
      <3>1. row' = [n \in Nodes |-> IF n \in Affected(ip) /\ row[n].at = "fresh"
                                    THEN [row[n] EXCEPT !.at = "stale"] ELSE row[n]]
        BY <2>2 DEF Expire
      <3>2. \A n \in Nodes : row[n] \in Rows
        BY DEF GeoInv, GeoTypes
      <3>3. \A n \in Nodes : [row[n] EXCEPT !.at = "stale"] \in Rows
        BY <3>2 DEF Rows, Ages
      <3> QED BY <3>1, <3>2, <3>3 DEF Rows
    <2> QED BY <2>1, <2>2
  <1>5. GeoTypes'
    BY <1>0, <1>1, <1>3, <1>4 DEF GeoInv, GeoTypes
  <1>6. QueueInv' /\ AddressFollows'
    BY <1>0, <1>1, <1>4 DEF GeoInv, QueueInv, AddressFollows
  <1>7. LocationInv'
    <2>1. worker.pc \in {"apply", "apply and look up"} => worker.ip \in PublicIPs
      BY DEF GeoInv, GeoTypes
    <2> QED BY <1>0, <1>2, <1>3, <1>4, <2>1 DEF GeoInv, LocationInv, LocationIsOfItsAddress
  <1>8. WaitingIsHeld'
    <2>1. \A x \in PublicIPs : Held(x) => Held(x)'
      BY <1>0, <1>2, <1>3 DEF Held
    <2>2. \A n \in Nodes : \A x : Waits(n, x)' => Waits(n, x)
      BY <1>4 DEF Waits
    <2>3. worker.pc = "finish" => worker.ip \in PublicIPs
      BY DEF GeoInv, GeoTypes
    <2> QED BY <1>0, <2>1, <2>2, <2>3 DEF GeoInv, WaitingIsHeld
  <1> QED BY <1>5, <1>6, <1>7, <1>8 DEF GeoInv

LEMMA RestartKeeps == ASSUME GeoInv, Restart PROVE GeoInv'
  <1>0. /\ queue' = <<>> /\ obs' = [t \in Observers |-> AtRest] /\ worker' = Idle /\ DOMAIN todo' = {}
        /\ deferred' = PublicIPs /\ UNCHANGED <<row, cache>>
    BY NothingToDo DEF Restart
  <1>1. spent' \in [{"report", "mishap"} -> Nat] /\ spent'.mishap # 0
    BY MishapFacts DEF Restart, GeoInv
  <1>2. GeoTypes'
    BY <1>0, <1>1, GeoResting DEF GeoInv, GeoTypes
  <1>3. LocationInv' /\ QueueInv' /\ WaitingIsHeld' /\ AddressFollows'
    <2>1. LocationInv'
      BY <1>0, GeoResting DEF GeoInv, LocationInv, LocationIsOfItsAddress
    <2>2. QueueInv'
      BY <1>0, GeoResting DEF QueueInv
    <2>3. WaitingIsHeld'
      BY <1>0, GeoResting DEF WaitingIsHeld, Held
    <2>4. AddressFollows'
      BY <1>1 DEF AddressFollows
    <2> QED BY <2>1, <2>2, <2>3, <2>4
  <1> QED BY <1>2, <1>3 DEF GeoInv

LEMMA GeoStep == GeoInv /\ [GeoNext]_geoVars => GeoInv'
  <1>1. ASSUME GeoInv, UNCHANGED geoVars PROVE GeoInv'
    <2>1. GeoTypes' /\ LocationInv' /\ QueueInv'
      BY <1>1 DEF geoVars, GeoInv, GeoTypes, LocationInv, LocationIsOfItsAddress, QueueInv
    <2>2. WaitingIsHeld'
      BY <1>1 DEF geoVars, GeoInv, WaitingIsHeld, Waits, Held
    <2>3. AddressFollows'
      BY <1>1, FollowsAlone DEF geoVars, GeoInv
    <2> QED BY <2>1, <2>2, <2>3 DEF GeoInv
  <1> QED BY <1>1, ReportKeeps, ObserveKeeps, ObserveFailsKeeps, EnqueueKeeps, ReconcileKeeps, TakeKeeps, MarkKeeps,
             ReadKeeps, ApplyKeeps, LookupKeeps, RefreshFailsKeeps, FinishKeeps, TimeKeeps, RestartKeeps
          DEF GeoNext, Work

LEMMA GeoInvImplies == GeoInv => LocationIsOfItsAddress /\ NoLostRefresh
  <1> SUFFICES ASSUME GeoInv PROVE NoLostRefresh
    BY DEF GeoInv, LocationInv
  <1> QED BY DEF GeoInv, WaitingIsHeld, Waits, Held, AddressFollows, NoLostRefresh

\* applyLocation (geo/refresher.go) never puts the location of one address into a
\* row that reports another, for every number of nodes, handlers and addresses.
THEOREM LocationsAreOfTheirAddress == GeoSpec => []LocationIsOfItsAddress
  BY GeoStart, GeoStep, GeoInvImplies, PTL DEF GeoSpec

\* Whatever the order of reports, the reconciliation, the queue's overflow and the
\* end of a lookup (enqueue and finishProcessing, geo/refresher.go), no observed
\* address is forgotten.
THEOREM RefreshesAreNotLost == GeoSpec => []NoLostRefresh
  BY GeoStart, GeoStep, GeoInvImplies, PTL DEF GeoSpec

\* What no step of the refresher has to know of the types.
RestGeoTypes ==
    /\ Len(queue) <= Capacity
    /\ pending \subseteq PublicIPs /\ processing \subseteq PublicIPs
    /\ dirty \subseteq PublicIPs /\ deferred \subseteq PublicIPs
    /\ \A n \in DOMAIN todo : todo[n] \in Hosts

LEMMA RestGeoStep == ASSUME GeoInv, RestGeoTypes, [GeoNext]_geoVars PROVE RestGeoTypes'
  <1>0. /\ queue \in Seq(PublicIPs) /\ Len(queue) \in Nat /\ Capacity \in Nat \ {0}
        /\ worker.pc # "idle" => worker.ip \in PublicIPs
        /\ \A t \in Observers : obs[t].pc = "enqueue" => obs[t].host.ip \in PublicIPs
    BY CapacityAssumption DEF GeoInv, GeoTypes
  <1>1. /\ Len(queue') <= Capacity
        /\ pending' \subseteq PublicIPs /\ deferred' \subseteq PublicIPs
    <2>1. ASSUME NEW ip \in PublicIPs, Offer(ip)
          PROVE  Len(queue') <= Capacity /\ pending' \subseteq PublicIPs /\ deferred' \subseteq PublicIPs
      <3>1. CASE Len(queue) < Capacity
        <4>1. queue' = Append(queue, ip) /\ pending' = pending \cup {ip} /\ deferred' = deferred \ {ip}
          BY <2>1, <3>1 DEF Offer
        <4>2. Len(queue') = Len(queue) + 1
          BY <1>0, <4>1, AppendProperties
        <4> QED BY <1>0, <3>1, <4>1, <4>2 DEF RestGeoTypes
      <3>2. CASE ~(Len(queue) < Capacity)
        BY <2>1, <3>2 DEF Offer, RestGeoTypes
      <3> QED BY <3>1, <3>2
    <2>2. ASSUME NEW t \in Observers, Enqueue(t)
          PROVE  Len(queue') <= Capacity /\ pending' \subseteq PublicIPs /\ deferred' \subseteq PublicIPs
      <3>1. obs[t].host.ip \in PublicIPs
        BY <1>0, <2>2 DEF Enqueue
      <3>2. Offer(obs[t].host.ip) \/ UNCHANGED <<queue, pending, deferred>>
        BY <2>2 DEF Enqueue
      <3> QED BY <2>1, <3>1, <3>2 DEF RestGeoTypes
    <2>3. CASE Take
      <3>1. queue # <<>> /\ queue' = Tail(queue) /\ UNCHANGED <<pending, deferred>>
        BY <2>3 DEF Take
      <3>2. Len(queue') = Len(queue) - 1
        BY <1>0, <3>1, HeadTailProperties
      <3> QED BY <1>0, <3>1, <3>2 DEF RestGeoTypes
    <2>4. CASE RefreshFails
      BY <1>0, <2>4 DEF RefreshFails, RestGeoTypes
    <2>5. CASE Finish
      <3>1. worker.ip \in PublicIPs
        BY <1>0, <2>5 DEF Finish
      <3>2. Offer(worker.ip) \/ (pending' \subseteq pending /\ UNCHANGED <<queue, deferred>>)
        BY <2>5 DEF Finish
      <3> QED BY <2>1, <3>1, <3>2 DEF RestGeoTypes
    <2>6. CASE Restart
      <3>1. queue' = <<>> /\ pending' = {} /\ deferred' = PublicIPs
        BY <2>6 DEF Restart
      <3>2. Len(queue') = 0
        BY <3>1
      <3> QED BY <1>0, <3>1, <3>2
    <2>7. CASE UNCHANGED <<queue, pending, deferred>>
      BY <2>7 DEF RestGeoTypes
    <2> QED BY <2>2, <2>3, <2>4, <2>5, <2>6, <2>7
            DEF GeoNext, Work, Report, Observe, ObserveFails, ReconcileLoad, ReconcileNext, MarkProcessing, ReadCache,
                Apply, Lookup, LookupFails, Expire, RetryElapses, geoVars
  <1>2. processing' \subseteq PublicIPs
    <2>1. processing' \subseteq processing \/ (MarkProcessing /\ processing' = processing \cup {worker.ip})
      BY DEF GeoNext, Work, Report, Observe, ObserveFails, Enqueue, ReconcileLoad, ReconcileNext, Take, MarkProcessing,
             ReadCache, Apply, Lookup, LookupFails, RefreshFails, Finish, Expire, RetryElapses, Restart, geoVars
    <2>2. MarkProcessing => worker.ip \in PublicIPs
      BY <1>0 DEF MarkProcessing
    <2> QED BY <2>1, <2>2 DEF RestGeoTypes
  <1>3. dirty' \subseteq PublicIPs
    <2>1. \/ dirty' \subseteq dirty
          \/ \E t \in Observers : obs[t].pc = "enqueue" /\ dirty' = dirty \cup {obs[t].host.ip}
      BY DEF GeoNext, Work, Report, Observe, ObserveFails, Enqueue, ReconcileLoad, ReconcileNext, Take, MarkProcessing,
             ReadCache, Apply, Lookup, LookupFails, RefreshFails, Finish, Expire, RetryElapses, Restart, geoVars
    <2> QED BY <1>0, <2>1 DEF RestGeoTypes
  <1>4. \A n \in DOMAIN todo' : todo'[n] \in Hosts
    <2>1. CASE ReconcileLoad
      <3>1. todo' = [n \in {m \in Nodes : Reported(m)} |-> row[n].host]
        BY <2>1 DEF ReconcileLoad
      <3>2. \A n \in Nodes : Reported(n) => row[n].host \in Hosts
        BY DEF GeoInv, GeoTypes, Rows, Reported
      <3> QED BY <3>1, <3>2
    <2>2. CASE ReconcileNext
      <3>1. PICK n \in DOMAIN todo : todo' = [m \in DOMAIN todo \ {n} |-> todo[m]]
        BY <2>2 DEF ReconcileNext
      <3> QED BY <3>1 DEF RestGeoTypes
    <2>3. CASE todo' = [n \in {} |-> NoHost]
      BY <2>3
    <2>4. CASE todo' = todo
      BY <2>4 DEF RestGeoTypes
    <2> QED BY <2>1, <2>2, <2>3, <2>4
            DEF GeoNext, Work, Report, Observe, ObserveFails, Enqueue, Take, MarkProcessing, ReadCache,
                Apply, Lookup, LookupFails, RefreshFails, Finish, Expire, RetryElapses, Restart, geoVars
  <1> QED BY <1>1, <1>2, <1>3, <1>4 DEF RestGeoTypes

\* Rows, cache, queue, observers and worker keep their types and the queue its
\* capacity, for every number of nodes, handlers and addresses and every capacity:
\* what waits, is looked up or was deferred is always a public address.
THEOREM GeoTypeCorrect == GeoSpec => []GeoTypeOK
  <1>1. GeoInit => RestGeoTypes
    <2> SUFFICES ASSUME GeoInit PROVE RestGeoTypes
      OBVIOUS
    <2>1. queue = <<>> /\ pending = {} /\ processing = {} /\ dirty = {} /\ deferred = {} /\ DOMAIN todo = {}
      BY NothingToDo DEF GeoInit
    <2>2. Len(queue) = 0
      BY <2>1
    <2> QED BY <2>1, <2>2, CapacityAssumption DEF RestGeoTypes
  <1>2. GeoInv /\ RestGeoTypes => GeoTypeOK
    <2>1. DOMAIN Budgets = {"report", "mishap"}
      BY DEF Budgets
    <2> QED BY <2>1 DEF GeoInv, GeoTypes, RestGeoTypes, GeoTypeOK, ObserverTypes, WorkerPCs
  <1>3. GeoInv /\ RestGeoTypes /\ [GeoNext]_geoVars => GeoInv' /\ RestGeoTypes'
    BY GeoStep, RestGeoStep
  <1> QED BY <1>1, <1>2, <1>3, GeoStart, PTL DEF GeoSpec
=============================================================================
