------------------------------- MODULE ServerState -------------------------------
(***************************************************************************)
(* What the server keeps between requests, beside jobs and plans: adapters,*)
(* the settings of the language model, the registry of the generated API.  *)
(* Their requests interleave and share none of it.                         *)
(***************************************************************************)
EXTENDS AdapterCache, LlmSettings, GeneratedApi

serverVars == <<adapterVars, llmVars, papiVars>>

ServerInit == AdaptersInit /\ LlmInit /\ PapiInit

AdaptersMove == AdaptersNext /\ UNCHANGED <<llmVars, papiVars>>
LlmMove == LlmNext /\ UNCHANGED <<adapterVars, papiVars>>
PapiMove == PapiNext /\ UNCHANGED <<adapterVars, llmVars>>

ServerNext == AdaptersMove \/ LlmMove \/ PapiMove

ServerSpec == ServerInit /\ [][ServerNext]_serverVars

\* What an administrator changed takes hold, whoever is at work meanwhile: the adapter kept
\* has the credentials stored last, the settings kept are those saved last, and a token of
\* a disabled API stays dead, but where a request was caught between its read and its write
\* (db_service.py get_adapter, llm_settings.py get_llm_config, papi_service.py).
ChangesTakeHold == AdapterIsCurrent /\ SettingsAreCurrent /\ TokensStayDead

==================================================================================
