----------------------------- MODULE AiSettings -----------------------------
(***************************************************************************)
(* The AI provider a user has chosen and the keys stored for it            *)
(* (user-api-key.service.ts).  A selection looks for the key it needs and  *)
(* then stores itself; a removal looks at the selection and then deletes   *)
(* the provider's keys; saving a key replaces the active one in one        *)
(* transaction.  An analysis reads the selection and then the key.         *)
(***************************************************************************)
EXTENDS Naturals

CONSTANTS
  Providers,     \* gemini, anthropic
  Gemini,        \* the provider whose key alone selects it
  ServerKeys,    \* providers the server has a key for
  Calls,         \* requests of the user's devices and jobs
  None,
  MaxSaves       \* bound on saved keys

GeminiAssumption == Gemini \in Providers /\ ServerKeys \subseteq Providers

VARIABLES
  active,        \* active keys of each provider
  selection,     \* UserAiProviderSettings, or None
  call,          \* what each request has read
  overlapped,    \* a selection and a removal overlapped
  saves

aiVars == <<active, selection, call, overlapped, saves>>

Idle == [step |-> "idle"]

Init ==
  /\ active = [p \in Providers |-> 0]
  /\ selection = None
  /\ call = [c \in Calls |-> Idle]
  /\ overlapped = FALSE
  /\ saves = 0

\* getAiSettings: without a selection a Gemini key counts as one.
Effective ==
  IF selection # None THEN selection
  ELSE [provider |-> Gemini, source |-> IF active[Gemini] > 0 THEN "USER" ELSE "SERVER"]

Goes(c, to) == call' = [call EXCEPT ![c] = to]

\* saveProviderKey, one transaction; two at a time both leave a key.
SaveKey(p, alone) ==
  /\ saves < MaxSaves
  /\ saves' = saves + 1
  /\ active' = [active EXCEPT ![p] = IF alone THEN 1 ELSE @ + 1]
  /\ UNCHANGED <<selection, call, overlapped>>

\* A mutant of HasCredential.
HasAnyCredential(s) == \/ s.source = "USER" /\ \E p \in Providers : active[p] > 0
                       \/ s.source = "SERVER" /\ s.provider \in ServerKeys

HasCredential(s) == \/ s.source = "USER" /\ active[s.provider] > 0
                    \/ s.source = "SERVER" /\ s.provider \in ServerKeys

\* updateAiProviderSettings.
CheckSelection(c, s) ==
  /\ call[c] = Idle
  /\ HasCredential(s)
  /\ Goes(c, [step |-> "selecting", choice |-> s])
  /\ UNCHANGED <<active, selection, overlapped, saves>>

StoreSelection(c) ==
  /\ call[c].step = "selecting"
  /\ selection' = call[c].choice
  /\ overlapped' = (overlapped \/ \E d \in Calls : call[d].step = "removing")
  /\ Goes(c, Idle)
  /\ UNCHANGED <<active, saves>>

\* removeProviderKey.
CheckRemoval(c, p) ==
  /\ call[c] = Idle
  /\ selection # [provider |-> p, source |-> "USER"]
  /\ Goes(c, [step |-> "removing", provider |-> p])
  /\ UNCHANGED <<active, selection, overlapped, saves>>

DeleteKeys(c) ==
  /\ call[c].step = "removing"
  /\ active' = [active EXCEPT ![call[c].provider] = 0]
  /\ overlapped' = (overlapped \/ \E d \in Calls : call[d].step = "selecting")
  /\ Goes(c, Idle)
  /\ UNCHANGED <<selection, saves>>

\* getExtractionProviderConfiguration.
ReadSettings(c) ==
  /\ call[c] = Idle
  /\ Goes(c, [step |-> "reading", choice |-> Effective, began |-> selection])
  /\ UNCHANGED <<active, selection, overlapped, saves>>

ReadKey(c) ==
  /\ call[c].step = "reading"
  /\ Goes(c, [step |-> IF HasCredential(call[c].choice) THEN "configured" ELSE "refused",
              choice |-> call[c].choice, began |-> call[c].began])
  /\ UNCHANGED <<active, selection, overlapped, saves>>

Answer(c) ==
  /\ call[c].step \in {"configured", "refused"}
  /\ Goes(c, Idle)
  /\ UNCHANGED <<active, selection, overlapped, saves>>

Choices == [provider : Providers, source : {"USER", "SERVER"}]

Next ==
  \/ \E p \in Providers, alone \in BOOLEAN : SaveKey(p, alone)
  \/ \E c \in Calls :
       \/ \E s \in Choices : CheckSelection(c, s)
       \/ StoreSelection(c)
       \/ \E p \in Providers : CheckRemoval(c, p)
       \/ DeleteKeys(c) \/ ReadSettings(c) \/ ReadKey(c) \/ Answer(c)

Spec == Init /\ [][Next]_aiVars

(* Properties *)

RefusedForCause ==
  \A c \in Calls :
    call[c].step = "reading" /\ call'[c].step = "refused"
      => selection = None \/ call[c].began # selection \/ overlapped

\* A selection that the checks let through keeps its key: an analysis that finds the
\* selection it began with still stored finds the key as well, whatever was saved,
\* replaced and removed in between, unless a selection and a removal overlapped.
SelectedKeyIsFound == [][RefusedForCause]_aiVars
=============================================================================
