------------------------------- MODULE Memory -------------------------------
(***************************************************************************)
(* memory/store.py under memory/runtime.py: several processes remember     *)
(* things in one SQLite file.  What a lead remembers belongs to the scope  *)
(* of the problem it works on; only what it promotes is global.  Every     *)
(* transaction is a step, so that a process may die and other processes    *)
(* may run between any two of them.                                        *)
(*                                                                         *)
(* A store call may raise: before its transaction commits ("lost") or in   *)
(* the read that returns the row it has written ("unread").  Contents are  *)
(* abstracted to the problem they are about, which the scope they are in   *)
(* does not tell: a conversation runs on through all the scopes its lead   *)
(* enters, and the lead, and the checkpoint of a compaction, may write in  *)
(* any of them of whatever the conversation holds.                         *)
(***************************************************************************)
EXTENDS Naturals, FiniteSets

CONSTANTS
    Leads,          \* processes, each with one lead, which makes its calls in turn
    Keys,           \* working memory keys and artifact paths, and NoKey for episodes
    NoKey,
    MaxScopes,      \* bound on session and problem scopes
    MaxRows,        \* bound on rows of memory
    MaxExits,       \* bound on processes that end
    MaxRaises       \* bound on store calls that raise

ASSUME MemoryAssumption ==
    /\ {MaxScopes, MaxRows, MaxExits, MaxRaises} \subseteq Nat
    /\ Leads \cap {"unmarked", "forsaken", "nobody"} = {}

Scopes == 1..MaxScopes
Global == 0
NoScope == MaxScopes + 1

VARIABLES
    scopeState,     \* memory_scopes: "absent", "open" or "archived" (archived_at)
    memories,       \* rows: scope, key and the problem the content is about
    imported,       \* the legacy scope has an episode with the legacy text
    migrated,       \* memory_meta legacy_memory_md_v1 is "done"
    legacyText,     \* there is a .memory/MEMORY.md, and it is not blank
    activeScope,    \* MemoryRuntime._active_scope_id
    met,            \* the problems that the conversation of a lead holds
    call,           \* what each process is at
    mark,           \* history: the lead that archived a scope; "forsaken" where
                    \*   its process ended or a call on it raised
    owner,          \* history: the first lead that was told it is in a scope
    crossed,        \* history: a row was promoted, a search found rows of another
                    \*   lead, or a lead was told it is in another lead's scope
    exits, raises

scopeVars == <<scopeState, mark>>
legacyVars == <<imported, migrated, legacyText>>
sessionVars == <<activeScope, met, owner, crossed>>
memVars == <<scopeVars, memories, legacyVars, sessionVars, call, exits, raises>>

Rows == [scope : Scopes \cup {Global}, key : Keys, about : Scopes]
Off == [op |-> "off"]
Ready == [op |-> "ready"]
Unmarked == "unmarked"
Forsaken == "forsaken"
Nobody == "nobody"

Points == [op : {"off", "import", "mark", "session", "ready"}]
             \cup [op : {"leave"}, to : Scopes]
             \cup [op : {"promote"}, row : Rows]
             \cup [op : {"checkpoint"}, keys : SUBSET Keys]

MemTypeOK ==
    /\ scopeState \in [Scopes -> {"absent", "open", "archived"}]
    /\ memories \in SUBSET Rows
    /\ imported \in BOOLEAN
    /\ migrated \in BOOLEAN
    /\ legacyText \in BOOLEAN
    /\ activeScope \in [Leads -> Scopes \cup {NoScope}]
    /\ met \in [Leads -> SUBSET Scopes]
    /\ owner \in [Scopes -> Leads \cup {Nobody}]
    /\ crossed \in BOOLEAN
    /\ call \in [Leads -> Points]
    /\ mark \in [Scopes -> Leads \cup {Unmarked, Forsaken}]
    /\ exits \in 0..MaxExits
    /\ raises \in 0..MaxRaises

MemInit ==
    /\ scopeState = [s \in Scopes |-> "absent"]
    /\ memories = {}
    /\ imported = FALSE
    /\ migrated = FALSE
    /\ legacyText \in BOOLEAN
    /\ activeScope = [p \in Leads |-> NoScope]
    /\ met = [p \in Leads |-> {}]
    /\ owner = [s \in Scopes |-> Nobody]
    /\ crossed = FALSE
    /\ call = [p \in Leads |-> Off]
    /\ mark = [s \in Scopes |-> Unmarked]
    /\ exits = 0
    /\ raises = 0

-----------------------------------------------------------------------------
Doing(p, op) == call[p].op = op
Do(p, c) == call' = [call EXCEPT ![p] = c]
Running(p) == ~Doing(p, "off")

(* How a store call ends.  A call that raises uses up one of MaxRaises.    *)
Ends == {"done", "lost", "unread"}
Charge(end) ==
    /\ end = "done" \/ raises < MaxRaises
    /\ raises' = IF end = "done" THEN raises ELSE raises + 1
Committed(end) == end # "lost"

(* uuid4 and the time stamp of a session name scopes nobody has used.      *)
Fresh == CHOOSE s \in Scopes : scopeState[s] = "absent"
CanCreate == \E s \in Scopes : scopeState[s] = "absent"

(* INSERT .. ON CONFLICT and UPDATE both leave the scope open.             *)
Open(s, end) ==
    IF Committed(end)
    THEN /\ scopeState' = [scopeState EXCEPT ![s] = "open"]
         /\ mark' = [mark EXCEPT ![s] = IF end = "done" THEN Unmarked ELSE Forsaken]
    ELSE UNCHANGED scopeVars

(* _ensure_scope finds the scope; a row with a key replaces the one of the *)
(* same scope and key, an episode is added.                                *)
Upsert(row) ==
    memories' = {m \in memories : m.scope # row.scope \/ m.key # row.key \/ m.key = NoKey}
                    \cup {row}
Store(row, end) ==
    IF Committed(end)
    THEN Upsert(row) /\ Cardinality(memories') <= MaxRows
    ELSE UNCHANGED memories

(* The lead learns that it is in the scope.                                *)
Told(p, s) ==
    /\ met' = [met EXCEPT ![p] = @ \cup {s}]
    /\ owner' = [owner EXCEPT ![s] = IF @ = Nobody THEN p ELSE @]
    /\ crossed' = (crossed \/ owner[s] \notin {Nobody, p})

Hears(p, rows) == met' = [met EXCEPT ![p] = @ \cup {m.about : m \in rows}]

-----------------------------------------------------------------------------
BugMarksFirst(p) ==
    /\ Doing(p, "off")
    /\ Do(p, [op |-> IF ~migrated /\ legacyText THEN "import" ELSE "session"])
    /\ migrated' = TRUE
    /\ UNCHANGED <<scopeVars, memories, imported, legacyText, sessionVars, exits, raises>>

(* initialize_session: get_meta, and whether there is a legacy file        *)
BeginSession(p) ==
    /\ Doing(p, "off")
    /\ Do(p, [op |-> IF migrated THEN "session"
                     ELSE IF legacyText THEN "import" ELSE "mark"])
    /\ UNCHANGED <<scopeVars, memories, legacyVars, sessionVars, exits, raises>>

(* A call that raises during startup ends the process.                     *)
ImportLegacy(p, end) ==
    /\ Doing(p, "import")
    /\ Charge(end)
    /\ imported' = (imported \/ Committed(end))
    /\ Do(p, IF end = "done" THEN [op |-> "mark"] ELSE Off)
    /\ UNCHANGED <<scopeVars, memories, migrated, legacyText, sessionVars, exits>>

(* set_meta reads nothing back.                                            *)
MarkMigrated(p, end) ==
    /\ Doing(p, "mark")
    /\ end # "unread"
    /\ Charge(end)
    /\ migrated' = (migrated \/ Committed(end))
    /\ Do(p, IF end = "done" THEN [op |-> "session"] ELSE Off)
    /\ UNCHANGED <<scopeVars, memories, imported, legacyText, sessionVars, exits>>

OpenSession(p, end) ==
    /\ Doing(p, "session")
    /\ CanCreate
    /\ Charge(end)
    /\ Open(Fresh, end)
    /\ IF end = "done"
       THEN /\ activeScope' = [activeScope EXCEPT ![p] = Fresh]
            /\ Told(p, Fresh)
            /\ Do(p, Ready)
       ELSE Do(p, Off) /\ UNCHANGED sessionVars
    /\ UNCHANGED <<memories, legacyVars, exits>>

-----------------------------------------------------------------------------
(* start_scope opens a new scope, switch_scope any there is.  The previous *)
(* one is archived before the runtime moves on; where either call raises,  *)
(* the lead is told so and stays where it is.                              *)
EnterScope(p, s, end) ==
    /\ Doing(p, "ready")
    /\ Charge(end)
    /\ Open(s, end)
    /\ IF end = "done" /\ s # activeScope[p] THEN Do(p, [op |-> "leave", to |-> s])
                                             ELSE UNCHANGED call
    /\ UNCHANGED <<memories, legacyVars, sessionVars, exits>>

StartScope(p, end) == CanCreate /\ EnterScope(p, Fresh, end)

SwitchScope(p, s, end) == scopeState[s] # "absent" /\ EnterScope(p, s, end)

BugKeepsOld(p, end) ==
    /\ Doing(p, "leave")
    /\ end = "done"
    /\ activeScope' = [activeScope EXCEPT ![p] = call[p].to]
    /\ Told(p, call[p].to)
    /\ Do(p, Ready)
    /\ UNCHANGED <<scopeVars, memories, legacyVars, exits, raises>>

BugMovesBeforeArchive(p, end) ==
    LET old == activeScope[p]
        new == call[p].to
    IN  /\ Doing(p, "leave")
        /\ Charge(end)
        /\ activeScope' = [activeScope EXCEPT ![p] = new]
        /\ IF Committed(end)
           THEN /\ scopeState' = [scopeState EXCEPT ![old] = "archived"]
                /\ mark' = [mark EXCEPT ![old] = p]
           ELSE UNCHANGED scopeVars
        /\ IF end = "done" THEN Told(p, new) ELSE UNCHANGED <<met, owner, crossed>>
        /\ Do(p, Ready)
        /\ UNCHANGED <<memories, legacyVars, exits>>

LeaveScope(p, end) ==
    LET old == activeScope[p]
        new == call[p].to
    IN  /\ Doing(p, "leave")
        /\ Charge(end)
        /\ IF Committed(end)
           THEN scopeState' = [scopeState EXCEPT ![old] = "archived"]
           ELSE UNCHANGED scopeState
        /\ IF end = "done"
           THEN /\ mark' = [mark EXCEPT ![old] = p]
                /\ activeScope' = [activeScope EXCEPT ![p] = new]
                /\ Told(p, new)
           ELSE /\ mark' = [mark EXCEPT ![old] = IF Committed(end) THEN Forsaken ELSE @,
                                        ![new] = Forsaken]
                /\ UNCHANGED sessionVars
        /\ Do(p, Ready)
        /\ UNCHANGED <<memories, legacyVars, exits>>

-----------------------------------------------------------------------------
(* build_context: what the system prompt shows a lead, before its budget   *)
Context(p) == {m \in memories : m.scope \in {activeScope[p], Global}}

ReadContext(p) ==
    /\ Doing(p, "ready")
    /\ Hears(p, Context(p))
    /\ UNCHANGED <<scopeVars, memories, legacyVars, activeScope, owner, crossed, call, exits, raises>>

(* search_memories and list_memories over all scopes                       *)
Search(p) ==
    /\ Doing(p, "ready")
    /\ Hears(p, memories)
    /\ crossed' = (crossed \/ \E m \in memories : m.scope = Global \/ owner[m.scope] # p)
    /\ UNCHANGED <<scopeVars, memories, legacyVars, activeScope, owner, call, exits, raises>>

(* set_working, add_artifact and add_episode, of anything the lead knows   *)
Remember(p, k, q, end) ==
    /\ Doing(p, "ready")
    /\ q \in met[p]
    /\ Charge(end)
    /\ Store([scope |-> activeScope[p], key |-> k, about |-> q], end)
    /\ UNCHANGED <<scopeVars, legacyVars, sessionVars, call, exits>>

(* promote_global: any row the lead has seen, also of another scope, is    *)
(* read in one transaction and written in another.                         *)
ReadForPromotion(p, m) ==
    /\ Doing(p, "ready")
    /\ m.scope # Global
    /\ Do(p, [op |-> "promote", row |-> m])
    /\ UNCHANGED <<scopeVars, memories, legacyVars, sessionVars, exits, raises>>

Promote(p, end) ==
    LET m == call[p].row IN
    /\ Doing(p, "promote")
    /\ Charge(end)
    /\ Store([m EXCEPT !.scope = Global], end)
    /\ crossed' = (crossed \/ Committed(end))
    /\ Hears(p, IF end = "done" THEN {m} ELSE {})
    /\ Do(p, Ready)
    /\ UNCHANGED <<scopeVars, legacyVars, activeScope, owner, exits>>

(* persist_checkpoint_memory: one upsert for each item with content, an    *)
(* episode, an artifact; the first that raises ends it, with a warning.    *)
(* The checkpoint was made of all messages, whatever scope they are from.  *)
BeginCheckpoint(p, K) ==
    /\ Doing(p, "ready")
    /\ Do(p, [op |-> "checkpoint", keys |-> K])
    /\ UNCHANGED <<scopeVars, memories, legacyVars, sessionVars, exits, raises>>

CheckpointItem(p, k, q, end) ==
    /\ Doing(p, "checkpoint")
    /\ k \in call[p].keys
    /\ q \in met[p]
    /\ Charge(end)
    /\ Store([scope |-> activeScope[p], key |-> k, about |-> q], end)
    /\ Do(p, IF end = "done" /\ call[p].keys # {k}
             THEN [call[p] EXCEPT !.keys = @ \ {k}]
             ELSE Ready)
    /\ UNCHANGED <<scopeVars, legacyVars, sessionVars, exits>>

(* The process ends, at its exit command or in the middle of a call.       *)
Exit(p) ==
    /\ Running(p)
    /\ exits < MaxExits
    /\ exits' = exits + 1
    /\ mark' = [s \in Scopes |->
                   IF activeScope[p] = s \/ (Doing(p, "leave") /\ call[p].to = s)
                   THEN Forsaken ELSE mark[s]]
    /\ activeScope' = [activeScope EXCEPT ![p] = NoScope]
    /\ met' = [met EXCEPT ![p] = {}]
    /\ Do(p, Off)
    /\ UNCHANGED <<scopeState, memories, legacyVars, owner, crossed, raises>>

(* Sessions and scopes                                                     *)
ScopeStep(p) ==
    \/ BeginSession(p) \/ Exit(p)
    \/ \E end \in Ends :
          \/ ImportLegacy(p, end) \/ MarkMigrated(p, end) \/ OpenSession(p, end)
          \/ StartScope(p, end) \/ LeaveScope(p, end)
          \/ \E s \in Scopes : SwitchScope(p, s, end)

(* What is written to the store and read from it                           *)
RowStep(p) ==
    \/ ReadContext(p) \/ Search(p)
    \/ \E m \in memories : ReadForPromotion(p, m)
    \/ \E K \in SUBSET Keys : K # {} /\ BeginCheckpoint(p, K)
    \/ \E end \in Ends :
          \/ Promote(p, end)
          \/ \E k \in Keys, q \in Scopes :
                Remember(p, k, q, end) \/ CheckpointItem(p, k, q, end)

MemNext == \E p \in Leads : ScopeStep(p) \/ RowStep(p)

MemSpec == MemInit /\ [][MemNext]_memVars

-----------------------------------------------------------------------------
(* Problems stay apart: as long as no two leads were told that they are in *)
(* the same scope, nothing was promoted and no search found the rows of    *)
(* another lead, the conversations of two leads hold no common problem -   *)
(* although each carries its problems through all of its scopes, calls     *)
(* raise half-way between two scopes and processes end.                    *)
ProblemsStayApart ==
    ~crossed => \A p, q \in Leads : p # q => met[p] \cap met[q] = {}

(* A scope stays open only while a lead is in it or on its way there,      *)
(* unless its process ended or a call on it raised: none is forgotten by   *)
(* leads that come and go in the same scopes.                              *)
OpenScopesAreInUse ==
    \A s \in Scopes : scopeState[s] = "open" =>
        \/ mark[s] = Forsaken
        \/ \E p \in Leads : activeScope[p] = s
        \/ \E p \in Leads : Doing(p, "leave") /\ call[p].to = s

(* A lead never archives the scope it works in: what archived it was the   *)
(* lead of another process, or a call that raised after it had committed.  *)
OwnScopeStaysOpen ==
    \A p \in Leads :
        Doing(p, "ready") /\ scopeState[activeScope[p]] = "archived" =>
            mark[activeScope[p]] # p

(* The scopes that are open are those that are worked in, except where     *)
(* some other lead or a failure came in between.                           *)
ScopesFollowLeads == OpenScopesAreInUse /\ OwnScopeStaysOpen

(* Once the migration is marked done the text of the legacy file is in the *)
(* store, wherever processes died or raised, and however many started at   *)
(* the same time.                                                          *)
LegacyIsKept == migrated /\ legacyText => imported
=============================================================================
