------------------------------- MODULE LlmSettings -------------------------------
(***************************************************************************)
(* The settings of the language model and the copy of them that the server *)
(* keeps (api/app/services/llm_settings.py).  All of it runs on the event  *)
(* loop: what can come between are the awaits of the two queries.  The     *)
(* settings are named by the save that stored them; how they are resolved  *)
(* against the environment and defaults is data.                           *)
(***************************************************************************)
EXTENDS Integers

CONSTANTS
    Readers,        \* calls of get_llm_config
    Saves           \* calls of save_llm_settings: a set of positive numbers

ASSUME SavesAssumption == Saves \subseteq Nat \ {0}

VARIABLES
    appSettings,    \* the save whose rows app_settings holds, or 0 for the first
    llmCache,       \* _cache; "crossed" is for the property
    reader,         \* where each call of get_llm_config is, and what it has read
    save            \* where each save is

llmVars == <<appSettings, llmCache, reader, save>>

NoConfigKept == [of |-> -1, crossed |-> FALSE]

LlmInit ==
    /\ appSettings = 0 /\ llmCache = NoConfigKept
    /\ reader = [r \in Readers |-> [at |-> "new", of |-> 0, crossed |-> FALSE]]
    /\ save = [s \in Saves |-> "new"]

-----------------------------------------------------------------------------
GetConfig(r) ==
    /\ reader[r].at = "new"
    /\ reader' = IF llmCache = NoConfigKept THEN [reader EXCEPT ![r].at = "asks"]
                 ELSE [reader EXCEPT ![r].at = "done", ![r].of = llmCache.of]
    /\ UNCHANGED <<appSettings, llmCache, save>>

\* The database answers; the coroutine is not yet resumed.
RowsRead(r) ==
    /\ reader[r].at = "asks"
    /\ reader' = [reader EXCEPT ![r].at = "resumes", ![r].of = appSettings]
    /\ UNCHANGED <<appSettings, llmCache, save>>

KeepConfig(r) ==
    /\ reader[r].at = "resumes"
    /\ llmCache' = [of |-> reader[r].of, crossed |-> reader[r].crossed]
    /\ reader' = [reader EXCEPT ![r].at = "done"]
    /\ UNCHANGED <<appSettings, save>>

CommitSettings(s) ==
    /\ save[s] = "new"
    /\ appSettings' = s
    /\ save' = [save EXCEPT ![s] = "committed"]
    /\ UNCHANGED <<llmCache, reader>>

\* Mutated form of Forgotten: the copy stays.
KeptOn == llmCache

\* invalidate().
Forgotten == NoConfigKept

Invalidate(s) ==
    /\ save[s] = "committed"
    /\ llmCache' = Forgotten
    /\ save' = [save EXCEPT ![s] = "done"]
    /\ reader' = [r \in Readers |-> IF reader[r].at \in {"asks", "resumes"}
                                    THEN [reader[r] EXCEPT !.crossed = TRUE] ELSE reader[r]]
    /\ UNCHANGED appSettings

LlmNext ==
    \/ \E r \in Readers : GetConfig(r) \/ RowsRead(r) \/ KeepConfig(r)
    \/ \E s \in Saves : CommitSettings(s) \/ Invalidate(s)

LlmSpec == LlmInit /\ [][LlmNext]_llmVars

-----------------------------------------------------------------------------
LlmTyped ==
    /\ appSettings \in Saves \union {0}
    /\ llmCache \in [of : Saves \union {0}, crossed : BOOLEAN] \union {NoConfigKept}
    /\ reader \in [Readers -> [at : {"new", "asks", "resumes", "done"},
                               of : Saves \union {0}, crossed : BOOLEAN]]
    /\ save \in [Saves -> {"new", "committed", "done"}]

\* The copy is of the settings stored last, or about to be forgotten, or was read by a
\* call that a save overtook between its query and its resumption: then the old settings
\* stay in use until the next save (get_llm_config, save_llm_settings).
SettingsAreCurrent ==
    llmCache # NoConfigKept /\ llmCache.of # appSettings =>
        llmCache.crossed \/ \E s \in Saves : save[s] = "committed"

==================================================================================
