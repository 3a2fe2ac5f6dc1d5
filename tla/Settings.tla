------------------------------- MODULE Settings -------------------------------
(***************************************************************************)
(* The settings page of the browser application (pages/SettingsPage.tsx,   *)
(* lib/settings.ts) and the part of the server it saves to                 *)
(* (backend/app/routes/settings.py, llmconfig/parser.py and model.py).     *)
(*                                                                         *)
(* The page loads the configuration, with every key masked, and saves each *)
(* edit by itself, a while after the last one.  A save that was sent is    *)
(* neither cancelled nor awaited: saves may reach the server, and their    *)
(* answers the page, in any order, also after the page was left.           *)
(*                                                                         *)
(* A model is its alias and its key; provider, model name and the result   *)
(* of a test are left out.  Sections are the operations (chat, then        *)
(* memory) and Reasons those of a rule.  One tab uses the page.            *)
(***************************************************************************)
EXTENDS Naturals, Sequences, FiniteSets, SequencesExt, Lists

CONSTANTS
  Aliases,
  Keys,         \* API keys; each has a mask of its own
  Sections,     \* the operations, in the order of the page's steps
  Reasons,
  None,
  MaxModels,    \* bound: models of a configuration
  MaxEdits,     \* bound: edits made
  MaxSaves,     \* bound: saves sent
  MaxVisits     \* bound: visits of the page

VARIABLES
  form,    \* the state of the page
  saves,   \* the saves that were sent, in order
  used,    \* how many edits were made, and the last visit whose load was served
  stored   \* the configuration the server keeps

vars == <<form, saves, used, stored>>

-----------------------------------------------------------------------------
(* Configurations.                                                         *)

Key(k, masked) == [of |-> k, masked |-> masked]
NoKey == Key(None, FALSE)

\* mask_key: the mask of a mask is the mask.
Mask(key) == IF key = NoKey THEN NoKey ELSE [key EXCEPT !.masked = TRUE]

Model(alias, key) == [alias |-> alias, key |-> key]

\* A rule that was never set is None; one that was may be empty.
Empty == [models |-> <<>>,
          order |-> [s \in ToSet(Sections) |-> <<>>],
          rules |-> [s \in ToSet(Sections) |-> [r \in Reasons |-> None]]]

Configured(as, key) ==
  [Empty EXCEPT !.models = [i \in DOMAIN as |-> Model(as[i], key)],
                !.order = [s \in ToSet(Sections) |-> as]]

ModelsOf(a, config) == {i \in DOMAIN config.models : config.models[i].alias = a}
AliasesOf(config) == {config.models[i].alias : i \in DOMAIN config.models}
Rules(config) == {config.rules[s][r] : s \in ToSet(Sections), r \in Reasons} \ {None}

\* What LLMConfig accepts.
Valid(config) ==
  /\ Cardinality(AliasesOf(config)) = Len(config.models)
  /\ \A s \in ToSet(Sections) : ToSet(config.order[s]) \subseteq AliasesOf(config)
  /\ \A rule \in Rules(config) : rule # {} /\ rule \subseteq AliasesOf(config)

\* Mutant: only an empty key keeps the one that is stored.
KeptOrNewIfBlank(model, config) ==
  LET kept == {config.models[i].key : i \in ModelsOf(model.alias, config)}
  IN  IF model.key = NoKey /\ kept # {} THEN CHOOSE key \in kept : TRUE ELSE model.key

\* apply_incoming for one model: an empty key, and the mask of the key stored
\* under the same alias, keep that key; any other is stored as it is.
KeptOrNew(model, config) ==
  LET same == {config.models[i].key : i \in ModelsOf(model.alias, config)}
      kept == {key \in same : model.key \in {NoKey, Mask(key)}}
  IN  IF kept # {} THEN CHOOSE key \in kept : TRUE ELSE model.key

ApplyIncoming(config, current) ==
  [config EXCEPT !.models =
     [i \in DOMAIN config.models |->
        [config.models[i] EXCEPT !.key = KeptOrNew(config.models[i], current)]]]

\* to_ui_json.
ToUi(config) ==
  [config EXCEPT !.models =
     [i \in DOMAIN config.models |-> [config.models[i] EXCEPT !.key = Mask(@)]]]

\* What the page shows is what is stored, up to the mask of a key and to keys
\* left blank.
Agree(config, other) ==
  /\ config.order = other.order /\ config.rules = other.rules
  /\ Len(config.models) = Len(other.models)
  /\ \A i \in DOMAIN config.models :
       /\ config.models[i].alias = other.models[i].alias
       /\ config.models[i].key # NoKey =>
            Mask(config.models[i].key) = Mask(other.models[i].key)

Renamed(config, old, new) ==
  LET name(a) == IF a = old THEN new ELSE a
  IN  [config EXCEPT
        !.order = [s \in ToSet(Sections) |-> [i \in DOMAIN config.order[s] |-> name(config.order[s][i])]],
        !.rules = [s \in ToSet(Sections) |-> [r \in Reasons |->
            IF config.rules[s][r] = None THEN None
            ELSE {name(a) : a \in config.rules[s][r]}]]]

\* stripAlias of every section.
Stripped(config, alias) ==
  [config EXCEPT
    !.order = [s \in ToSet(Sections) |-> Keep(config.order[s], Aliases \ {alias})],
    !.rules = [s \in ToSet(Sections) |-> [r \in Reasons |->
        IF config.rules[s][r] = None THEN None ELSE config.rules[s][r] \ {alias}]]]

-----------------------------------------------------------------------------
(* Loading and saving.                                                     *)

\* The page as it opens.  lastSaved is None until it has loaded.  Only the
\* properties read kept, what the server stored last as far as the page could
\* know, raced and tainted.
Opened(visit, tainted) ==
  [visit |-> visit, config |-> Empty, lastSaved |-> None, load |-> "asked", answer |-> None,
   state |-> "idle", timer |-> FALSE, dialog |-> None, importing |-> FALSE, step |-> 0,
   kept |-> None, raced |-> FALSE, tainted |-> tainted]

Mine(i) == saves[i].visit = form.visit

\* A save that was sent after another one.
After(i) == {j \in DOMAIN saves : j > i}

\* An edit leads back to what the page takes for saved while the server keeps
\* another save of the page, or is still to get one.
TakenBack(config) ==
  /\ form.lastSaved = config
  /\ \/ form.kept # config
     \/ \E i \in DOMAIN saves : Mine(i) /\ saves[i].at = "sent" /\ saves[i].body # config

\* Mutant: no timer is started while the page is saving.
EditedOnceSaving(config) ==
  IF form.lastSaved \in {None, config} \/ form.state = "saving"
  THEN [form EXCEPT !.config = config]
  ELSE [form EXCEPT !.config = config, !.timer = TRUE, !.state = "saving"]

\* setConfig and the effect on config: the timer starts anew, unless nothing
\* was loaded or the edit leads back to what was saved last.
Edited(config) ==
  IF form.lastSaved \in {None, config}
  THEN [form EXCEPT !.config = config, !.timer = FALSE, !.raced = @ \/ TakenBack(config)]
  ELSE [form EXCEPT !.config = config, !.timer = TRUE, !.state = "saving"]

\* get_config.  The page hears of it later, with the catalog.
Serve ==
  /\ form.load = "asked"
  /\ form' = [form EXCEPT !.load = "served", !.answer = ToUi(stored), !.kept = ToUi(stored)]
  /\ used' = [used EXCEPT !.served = form.visit]
  /\ UNCHANGED <<saves, stored>>

\* Both answers of the effect that loads: one failure shows an empty page.
Load ==
  /\ \/ /\ form.load \in {"asked", "served"}
        /\ form' = [form EXCEPT !.load = "failed", !.answer = None]
     \/ /\ form.load = "served"
        /\ form' = [form EXCEPT !.load = "shown", !.answer = None,
                                !.config = form.answer, !.lastSaved = form.answer]
  /\ UNCHANGED <<saves, used, stored>>

Send(kind) ==
  /\ Len(saves) < MaxSaves
  /\ saves' = Append(saves, [visit |-> form.visit, kind |-> kind, body |-> form.config,
                             at |-> "sent", heard |-> FALSE])

\* The timer of the last edit fires.
AutoSave ==
  /\ form.timer /\ Send("auto")
  /\ form' = [form EXCEPT !.timer = FALSE]
  /\ UNCHANGED <<used, stored>>

\* put_config.
Put(i) ==
  LET overtaken == \E j \in After(i) : saves[j].at = "stored"
  IN  /\ saves[i].at = "sent"
      /\ IF Valid(saves[i].body)
         THEN /\ stored' = ApplyIncoming(saves[i].body, stored)
              /\ saves' = [saves EXCEPT ![i].at = "stored"]
              /\ form' = [form EXCEPT
                   !.kept = IF Mine(i) THEN saves[i].body ELSE @,
                   !.raced = @ \/ IF Mine(i) THEN overtaken ELSE form.load # "asked",
                   !.tainted = @ \/ overtaken \/ used.served > saves[i].visit]
         ELSE UNCHANGED <<form, stored>> /\ saves' = [saves EXCEPT ![i].at = "refused"]
      /\ UNCHANGED used

\* A request that never reaches the server.
SaveFails(i) ==
  /\ saves[i].at = "sent"
  /\ saves' = [saves EXCEPT ![i].at = "refused"]
  /\ UNCHANGED <<form, used, stored>>

\* What becomes of a save for the page that sent it.  An answer may come
\* after that of a later save.
Hears(i, good) ==
  /\ Mine(i) /\ ~saves[i].heard
  /\ saves' = [saves EXCEPT ![i].heard = TRUE]
  /\ form' = [form EXCEPT
       !.lastSaved = IF good THEN saves[i].body ELSE @,
       !.state = IF good THEN "saved" ELSE IF saves[i].kind = "auto" THEN "error" ELSE @,
       !.raced = @ \/ \E j \in After(i) : Mine(j) /\ saves[j].heard]
  /\ UNCHANGED <<stored, used>>

Answered(i) == saves[i].at \in {"stored", "refused"} /\ Hears(i, saves[i].at = "stored")

\* The connection breaks before the answer.  (Before the server was asked too,
\* it is SaveFails.)
AnswerLost(i) == saves[i].at = "stored" /\ Hears(i, FALSE)

-----------------------------------------------------------------------------
(* Editing.                                                                *)

\* The page can be used when it has loaded and no dialog covers it.
Usable == form.load \in {"shown", "failed"} /\ form.dialog = None

MayEdit == used.edits < MaxEdits /\ used' = [used EXCEPT !.edits = @ + 1]

Edit(config) == MayEdit /\ form' = Edited(config) /\ UNCHANGED <<saves, stored>>

\* openAdd (0) and openEdit.
OpenDialog(i) ==
  /\ Usable /\ form.step = 0 /\ MayEdit
  /\ i = 0 => Len(form.config.models) < MaxModels
  /\ form' = [form EXCEPT !.dialog = i]
  /\ UNCHANGED <<saves, stored>>

\* submitDialog: no alias is refused here, and a blank key keeps the one the
\* page has, mask or not.
SubmitDialog(alias, key) ==
  LET i == form.dialog
      config == form.config
      old == config.models[i]
      new == Model(alias, IF key = NoKey THEN old.key ELSE key)
      next == IF i = 0 THEN [config EXCEPT !.models = Append(@, Model(alias, key))]
              ELSE [Renamed(config, old.alias, alias) EXCEPT !.models[i] = new]
  IN  /\ i # None /\ (i = 0 => key # NoKey)
      /\ i \in DOMAIN config.models \cup {0}
      /\ form' = [Edited(next) EXCEPT !.dialog = None,
                    !.tainted = @ \/ (i # 0 /\ new.key.masked /\ alias # old.alias)]
      /\ UNCHANGED <<saves, used, stored>>

CloseDialog ==
  /\ form.dialog # None /\ form' = [form EXCEPT !.dialog = None]
  /\ UNCHANGED <<saves, used, stored>>

\* removeTriplet: its alias goes from every order and every rule, also where
\* another model has it too, and may leave an empty rule.
RemoveModel(i) ==
  /\ Usable /\ form.step = 0
  /\ Edit([Stripped(form.config, form.config.models[i].alias) EXCEPT
             !.models = RemoveAt(@, i)])

\* The steps are Models, one for each section, and Test; the next one opens
\* when the one before is done.
LastStep == Len(Sections) + 1
Undone(config) == {n \in 1..Len(Sections) : config.order[Sections[n]] = <<>>}

MaxStep ==
  IF form.config.models = <<>> THEN 0
  ELSE IF Undone(form.config) = {} THEN LastStep
  ELSE CHOOSE n \in Undone(form.config) : \A m \in Undone(form.config) : n <= m

SelectStep(n) ==
  /\ Usable /\ n # form.step /\ n <= MaxStep
  /\ form' = [form EXCEPT !.step = n]
  /\ UNCHANGED <<saves, used, stored>>

SectionShown == IF form.step \in DOMAIN Sections THEN Sections[form.step] ELSE None

\* OrderEditor: patchOperation and moveInOrder.
AddToOrder(s, a) ==
  /\ Usable /\ s = SectionShown
  /\ a \in AliasesOf(form.config) \ ToSet(form.config.order[s])
  /\ Edit([form.config EXCEPT !.order[s] = Append(@, a)])

RemoveFromOrder(s, a) ==
  /\ Usable /\ s = SectionShown
  /\ a \in ToSet(form.config.order[s])
  /\ Edit([form.config EXCEPT !.order[s] = Keep(@, Aliases \ {a})])

MoveInOrder(s, i) ==
  /\ Usable /\ s = SectionShown
  /\ i \in 1..(Len(form.config.order[s]) - 1)
  /\ Edit([form.config EXCEPT
             !.order[s] = [@ EXCEPT ![i] = form.config.order[s][i + 1],
                                    ![i + 1] = form.config.order[s][i]]])

\* toggleRuleAlias: the last alias of a rule leaves it empty.
ToggleRule(s, r, a) ==
  LET use == form.config.rules[s][r]
  IN  /\ Usable /\ a \in AliasesOf(form.config)
      /\ Edit([form.config EXCEPT !.rules[s][r] =
                 IF use = None THEN {a} ELSE IF a \in use THEN use \ {a} ELSE use \cup {a}])

\* handleTest flushes what is on screen, loaded or not, and then asks the
\* server to test what it keeps.  The timer goes on.
Test ==
  /\ Usable /\ form.step = LastStep
  /\ \A i \in DOMAIN saves : Mine(i) /\ saves[i].kind = "test" => saves[i].heard
  /\ Send("test")
  /\ UNCHANGED <<form, used, stored>>

\* handleImport up to its await, and its answer: the configuration of the
\* file, without keys, whatever was edited meanwhile.
Import ==
  /\ Usable /\ ~form.importing /\ MayEdit
  /\ form' = [form EXCEPT !.importing = TRUE]
  /\ UNCHANGED <<saves, stored>>

Imported ==
  /\ form.importing
  /\ \/ form' = [form EXCEPT !.importing = FALSE]
     \/ \E a \in Aliases : form' = [Edited(Configured(<<a>>, NoKey)) EXCEPT !.importing = FALSE]
  /\ UNCHANGED <<saves, used, stored>>

\* To the chat and back: the timer goes with the page, the saves do not.
Revisit ==
  /\ form.visit < MaxVisits
  /\ form' = Opened(form.visit + 1, form.tainted)
  /\ UNCHANGED <<saves, used, stored>>

-----------------------------------------------------------------------------
Init ==
  /\ form = Opened(1, FALSE) /\ saves = <<>> /\ used = [edits |-> 0, served |-> 0]
  /\ \E key \in Keys : stored \in {Empty, Configured(SetToSeq(Aliases), Key(key, FALSE))}

Edits ==
  \/ \E i \in 0..Len(form.config.models) : OpenDialog(i)
  \/ \E a \in Aliases, key \in Keys \cup {None} : SubmitDialog(a, Key(key, FALSE))
  \/ CloseDialog
  \/ \E i \in DOMAIN form.config.models : RemoveModel(i)
  \/ \E n \in 0..LastStep : SelectStep(n)
  \/ \E s \in ToSet(Sections), a \in Aliases : AddToOrder(s, a) \/ RemoveFromOrder(s, a)
  \/ \E s \in ToSet(Sections) : \E i \in DOMAIN form.config.order[s] : MoveInOrder(s, i)
  \/ \E s \in ToSet(Sections), r \in Reasons, a \in Aliases : ToggleRule(s, r, a)
  \/ Import \/ Revisit

Arrivals ==
  \/ Serve \/ Load \/ AutoSave \/ Test \/ Imported
  \/ \E i \in DOMAIN saves : Put(i) \/ SaveFails(i) \/ Answered(i) \/ AnswerLost(i)

Next == Edits \/ Arrivals

Spec == Init /\ [][Next]_vars

-----------------------------------------------------------------------------
(* Properties.                                                             *)

Configs ==
  [models : Seq([alias : Aliases, key : [of : Keys \cup {None}, masked : BOOLEAN]]),
   order : [ToSet(Sections) -> Seq(Aliases)],
   rules : [ToSet(Sections) -> [Reasons -> (SUBSET Aliases) \cup {None}]]]

TypeOK ==
  /\ form.visit \in 1..MaxVisits /\ used \in [edits : 0..MaxEdits, served : 0..MaxVisits]
  /\ form.config \in Configs /\ form.lastSaved \in Configs \cup {None}
  /\ form.state \in {"idle", "saving", "saved", "error"}
  /\ form.dialog \in 0..MaxModels \cup {None} /\ form.step \in 0..LastStep
  /\ form.load \in {"asked", "served", "shown", "failed"}
  /\ {form.answer, form.kept} \subseteq Configs \cup {None}
  /\ {form.timer, form.importing, form.raced, form.tainted} \subseteq BOOLEAN
  /\ saves \in Seq([visit : 1..MaxVisits, kind : {"auto", "test"}, body : Configs,
                    at : {"sent", "stored", "refused"}, heard : BOOLEAN])
  /\ stored \in Configs

\* Nothing the page sent is on its way, and no older save can still come.
Quiet ==
  /\ form.load = "shown" /\ ~form.timer
  /\ \A i \in DOMAIN saves : saves[i].at # "sent" /\ (Mine(i) => saves[i].heard)

\* A page that has loaded and reports no error shows, at rest, what the server
\* keeps, although saves are neither ordered nor cancelled and answers may be
\* lost.  Four things spoil it until the page is opened again: a save was
\* stored after one sent later; one of an earlier visit was stored after the
\* page's load was served; the answer of a save came after that of a later
\* one; an edit led back to what the page took for saved, while a save of
\* something else was out or had been stored.  (the effect on config,
\* saveLlmConfig)
SavedMeansStored ==
  Quiet /\ ~form.raced /\ form.state # "error"
    => Agree(form.config, stored)

\* The mask of a key never takes the place of the key, unless a model was
\* renamed without typing its key again, or a save was stored after one sent
\* later or after the load of a later visit was served.  (apply_incoming,
\* submitDialog)
MaskNeverStored ==
  (\E i \in DOMAIN stored.models : stored.models[i].key.masked) => form.tainted
================================================================================
