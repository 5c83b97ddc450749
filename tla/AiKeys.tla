------------------------------- MODULE AiKeys -------------------------------
(***************************************************************************)
(* The family's own keys for AI providers (web/src/lib/ai/ai-keys.ts), the *)
(* settings card that edits and tests them (web/src/app/settings/          *)
(* ai-section.tsx), the calls made with them (web/src/lib/ai/client.ts)    *)
(* and the meal plan's suggestion (handleAISuggest of web/src/components/  *)
(* screens/recipes.tsx), in the tabs of one browser.                       *)
(***************************************************************************)
EXTENDS Integers, Sequences

CONSTANTS KeyTabs,    \* the tabs of one browser
          MaxUses,    \* bound on what the user does in them
          MaxVersions \* bound on the different keys of one provider

VARIABLES disk,    \* localStorage: tb-ai-keys and tb-ai-enabled
          mail,    \* storage events on their way to a tab, with their newValue
          unsaved, \* tabs whose last write was refused by the storage
          views,   \* per tab: its page and the page's state
          calls,   \* calls of providers under way
          toasts,  \* per tab: timers that will take a toast away
          uses

keyVars == <<disk, mail, unsaved, views, calls, toasts, uses>>

Providers == {"openai", "google"} \* Anthropic is handled as they are, and picked between them.
None == <<>>

\* A key is known by the provider that issued it.
KeysOf(p) == {p} \X (1..MaxVersions)
KeyRings == {r \in [Providers -> {None} \cup UNION {KeysOf(p) : p \in Providers}] :
                \A p \in Providers : r[p] \in {None} \cup KeysOf(p)}
NoKeys == [p \in Providers |-> None]

KeysTypeOK ==
    /\ disk \in [keys : KeyRings, enabled : BOOLEAN] /\ unsaved \subseteq KeyTabs
    /\ \A t \in KeyTabs : \A i \in DOMAIN mail[t] : mail[t][i] \in KeyRings
    /\ views \in [KeyTabs -> [page : {"other", "settings", "plan"}, keys : KeyRings, draft : KeyRings,
                              enabled : BOOLEAN, toast : BOOLEAN,
                              test : [Providers -> {"idle", "testing", "ok", "error"}],
                              status : {"idle", "loading", "ok", "error", "unconfigured"}]]
    /\ \A c \in calls : c.tab \in KeyTabs /\ c.kind \in {"test", "suggest"} /\ c.to \in Providers
    /\ toasts \in [KeyTabs -> Nat] /\ uses \in 0..MaxUses

readKeys == disk.keys
isAIEnabled == disk.enabled

\* The rows of the card mount with the keys known then; drafts and tests are theirs.
AtRest(v) == [v EXCEPT !.draft = v.keys, !.test = [p \in Providers |-> "idle"]]
Mounted(page) ==
    AtRest([page |-> page, keys |-> IF page = "other" THEN NoKeys ELSE readKeys, draft |-> NoKeys,
            enabled |-> page = "settings" /\ isAIEnabled, toast |-> FALSE,
            test |-> [p \in Providers |-> "idle"], status |-> "idle"])

\* The tabs are opened on whatever an earlier visit left.
KeysInit ==
    /\ disk \in [keys : {NoKeys, [p \in Providers |-> <<p, 1>>]}, enabled : {TRUE}] /\ mail = [t \in KeyTabs |-> <<>>]
    /\ unsaved = {} /\ calls = {} /\ toasts = [t \in KeyTabs |-> 0] /\ uses = 0
    /\ views \in [KeyTabs -> {Mounted(page) : page \in {"other", "settings"}}]

Use == uses < MaxUses /\ uses' = uses + 1

\* Another page of the app, or a reload: nobody hears the old page's answers and timers.
Visit(t, page) ==
    /\ page # views[t].page \/ page # "other"
    /\ Use /\ views' = [views EXCEPT ![t] = Mounted(page)]
    /\ calls' = {c \in calls : c.tab # t} /\ toasts' = [toasts EXCEPT ![t] = 0]
    /\ unsaved' = unsaved \ {t} /\ UNCHANGED <<disk, mail>>

-----------------------------------------------------------------------------
(* The store.                                                              *)

\* A change is announced to the other tab; a write the storage refuses is ignored.
writeKeys(t, next) ==
    \/ /\ disk' = [disk EXCEPT !.keys = next] /\ unsaved' = unsaved \ {t}
       /\ mail' = [u \in KeyTabs |-> IF u # t /\ next # disk.keys THEN Append(mail[u], next) ELSE mail[u]]
    \/ unsaved' = unsaved \cup {t} /\ UNCHANGED <<disk, mail>>

\* The updater of setKey and clearKey writes what this tab holds, with one key changed.
setKeys(t, p, key, v) ==
    LET next == [v.keys EXCEPT ![p] = key]
    IN  views' = [views EXCEPT ![t] = [v EXCEPT !.keys = next]] /\ writeKeys(t, next)

\* Mutant: the event's newValue is taken for what is stored.
HeardNewValue(t) == Head(mail[t])

\* setKeys(readKeys())
Heard(t) == readKeys

onStorage(t) ==
    /\ mail[t] # <<>> /\ mail' = [mail EXCEPT ![t] = Tail(@)]
    /\ IF views[t].page = "other" THEN UNCHANGED <<views, unsaved>>
       ELSE views' = [views EXCEPT ![t].keys = Heard(t)] /\ unsaved' = unsaved \ {t}
    /\ UNCHANGED <<disk, calls, toasts, uses>>

-----------------------------------------------------------------------------
(* The settings card.                                                      *)

ProviderRow(t) == views[t].page = "settings" /\ views[t].enabled

setDraft(t, p) ==
    /\ ProviderRow(t) /\ Use
    /\ \E key \in ({None} \cup KeysOf(p)) \ {views[t].draft[p]} :
          views' = [views EXCEPT ![t].draft[p] = key]
    /\ UNCHANGED <<disk, mail, unsaved, calls, toasts>>

\* Leaving the field, typed in or not: a blank draft saves nothing.
handleSave(t, p) ==
    /\ ProviderRow(t) /\ views[t].draft[p] # None /\ Use
    /\ setKeys(t, p, views[t].draft[p], views[t])
    /\ UNCHANGED <<calls, toasts>>

\* The Clear button.
clearKey(t, p) ==
    /\ ProviderRow(t) /\ Use
    /\ setKeys(t, p, None, [views[t] EXCEPT !.draft[p] = None, !.test[p] = "idle"])
    /\ UNCHANGED <<calls, toasts>>

Ask(t, kind, p, key) ==
    calls' = calls \cup {[tab |-> t, kind |-> kind, to |-> p, key |-> key, n |-> uses]}

\* The button is disabled while a test is awaited.
handleTest(t, p) ==
    /\ ProviderRow(t) /\ views[t].test[p] # "testing" /\ views[t].draft[p] # None /\ Use
    /\ views' = [views EXCEPT ![t].test[p] = "testing"] /\ Ask(t, "test", p, views[t].draft[p])
    /\ UNCHANGED <<disk, mail, unsaved, toasts>>

\* What is shown, negated, is stored (or refused); the rows unmount or mount.
toggleEnabled(t) ==
    /\ views[t].page = "settings" /\ Use
    /\ LET next == ~views[t].enabled
       IN  /\ views' = [views EXCEPT ![t] = AtRest([@ EXCEPT !.enabled = next])]
           /\ disk' \in {[disk EXCEPT !.enabled = next], disk}
    /\ calls' = {c \in calls : c.tab # t}
    /\ UNCHANGED <<mail, unsaved, toasts>>

-----------------------------------------------------------------------------
(* The meal plan's suggestion.                                             *)

\* The message goes after four seconds; an earlier timer takes it away sooner.
showToast(t, type) ==
    /\ views' = [views EXCEPT ![t].status = type, ![t].toast = TRUE]
    /\ toasts' = [toasts EXCEPT ![t] = @ + 1]

\* The first configured provider.
Configured(t) ==
    IF views[t].keys["openai"] # None THEN {"openai"}
    ELSE {p \in {"google"} : views[t].keys[p] # None}

apiKey(t, p) == views[t].keys[p]

\* The flag is read from the storage, the key from the tab; the button is never disabled.
handleAISuggest(t) ==
    /\ views[t].page = "plan" /\ Use
    /\ IF ~isAIEnabled \/ Configured(t) = {}
       THEN showToast(t, "unconfigured") /\ UNCHANGED calls
       ELSE /\ \E p \in Configured(t) : Ask(t, "suggest", p, apiKey(t, p))
            /\ views' = [views EXCEPT ![t].status = "loading"] /\ UNCHANGED toasts
    /\ UNCHANGED <<disk, mail, unsaved>>

ToastGoes(t) ==
    /\ toasts[t] > 0 /\ toasts' = [toasts EXCEPT ![t] = @ - 1]
    /\ views' = [views EXCEPT ![t].status = "idle", ![t].toast = FALSE]
    /\ UNCHANGED <<disk, mail, unsaved, calls, uses>>

\* callOpenAI and callGoogle throw on a refusal; a text may hold a JSON array.
Replies == {"thrown", "prose", "json"}

Tested(reply) == IF reply = "thrown" THEN "error" ELSE "ok"

callAI(c, reply) ==
    /\ calls' = calls \ {c}
    /\ IF c.kind = "suggest"
       THEN showToast(c.tab, IF reply = "json" THEN "ok" ELSE "error")
       ELSE /\ views' = [views EXCEPT ![c.tab].test[c.to] = Tested(reply)]
            /\ UNCHANGED toasts
    /\ UNCHANGED <<disk, mail, unsaved, uses>>

KeysNext ==
    \/ \E t \in KeyTabs :
          \/ \E page \in {"other", "settings", "plan"} : Visit(t, page)
          \/ onStorage(t) \/ toggleEnabled(t) \/ handleAISuggest(t) \/ ToastGoes(t)
          \/ \E p \in Providers : setDraft(t, p) \/ handleSave(t, p) \/ clearKey(t, p) \/ handleTest(t, p)
    \/ \E c \in calls, reply \in Replies : callAI(c, reply)

-----------------------------------------------------------------------------
\* A tab whose events have all arrived holds the keys that are stored, whichever
\* tabs wrote over each other and in whatever order, unless the storage refused its
\* last write (writeKeys, onStorage).
KeysSettle ==
    \A t \in KeyTabs : views[t].page # "other" /\ mail[t] = <<>> /\ t \notin unsaved => views[t].keys = disk.keys

\* A key is sent to the provider it was entered for and to no other, through saves and
\* clears in two tabs (handleTest, handleAISuggest; AI_BYOK.md).
KeyGoesHome == \A c \in calls : c.key \in KeysOf(c.to)

\* Nothing is shown as awaited when nobody will answer: a disabled Test button has its
\* call under way, "Thinking" too, and every toast a timer that takes it away, however
\* calls, Clear and the timers of earlier toasts cross.
NobodyStuck ==
    \A t \in KeyTabs :
        /\ \A p \in Providers : views[t].test[p] = "testing" =>
              \E c \in calls : c.tab = t /\ c.kind = "test" /\ c.to = p
        /\ views[t].status = "loading" => \E c \in calls : c.tab = t /\ c.kind = "suggest"
        /\ views[t].toast => toasts[t] > 0

\* The keys are kept and used as the card says (useAIKeys, AISettingsCard).
BrowserKept == KeysSettle /\ KeyGoesHome /\ NobodyStuck
=============================================================================
