---------------------------- MODULE MemoryProofs ----------------------------
(* What holds of the memory store for any number of processes, scopes,     *)
(* keys, rows, exits and calls that raise.                                 *)
EXTENDS Memory, TLAPS

(* A lead that is past its startup is in a scope.                          *)
AtWork(p) == Doing(p, "ready") \/ Doing(p, "leave") \/ Doing(p, "promote")
                \/ Doing(p, "checkpoint")
LeadsAreInScopes == \A p \in Leads : activeScope[p] \in Scopes <=> AtWork(p)

(* Until something crosses, every problem has one lead: the owner of its   *)
(* scope is the one that knows it and the one that is in its scope, and a  *)
(* row is about a problem of the owner of the scope it is in.              *)
ProblemsHaveOneLead ==
    ~crossed =>
        /\ \A p \in Leads : \A s \in met[p] : owner[s] = p
        /\ \A p \in Leads : activeScope[p] \in Scopes => owner[activeScope[p]] = p
        /\ \A m \in memories :
              m.scope # Global /\ owner[m.scope] \in Leads /\ owner[m.about] = owner[m.scope]

(* A lead leaves a scope for another one.  Neither the one it is in nor    *)
(* the one it goes to was archived by itself.                              *)
LeadsDoNotArchiveTheirs ==
    \A p \in Leads :
        /\ Doing(p, "leave") => call[p].to # activeScope[p]
        /\ \A s \in Scopes :
              activeScope[p] = s \/ (Doing(p, "leave") /\ call[p].to = s) =>
                  ~(scopeState[s] = "archived" /\ mark[s] = p)

(* The migration is marked by a process that has imported the text or has  *)
(* found none.                                                             *)
ImportComesFirst ==
    \A p \in Leads : Doing(p, "mark") => imported \/ migrated \/ ~legacyText

MemInv ==
    /\ MemTypeOK
    /\ LeadsAreInScopes
    /\ ProblemsHaveOneLead
    /\ LeadsDoNotArchiveTheirs
    /\ OpenScopesAreInUse
    /\ ImportComesFirst
    /\ LegacyIsKept

-----------------------------------------------------------------------------
LEMMA MemTypes == MemInit => MemTypeOK
<1> SUFFICES ASSUME MemInit PROVE MemTypeOK
  OBVIOUS
<1> USE MemoryAssumption DEF MemInit, MemoryAssumption
<1>1. scopeState \in [Scopes -> {"absent", "open", "archived"}] /\ memories \in SUBSET Rows
  OBVIOUS
<1>2. imported \in BOOLEAN /\ migrated \in BOOLEAN /\ legacyText \in BOOLEAN
  OBVIOUS
<1>3. call \in [Leads -> Points]
  BY DEF Off, Points
<1>4. exits \in 0..MaxExits /\ raises \in 0..MaxRaises
  OBVIOUS
<1>5. met \in [Leads -> SUBSET Scopes] /\ owner \in [Scopes -> Leads \cup {Nobody}] /\ crossed \in BOOLEAN
  OBVIOUS
<1> QED
  BY <1>1, <1>2, <1>3, <1>4, <1>5 DEF MemTypeOK

LEMMA MemInitially == MemInit => MemInv
<1> SUFFICES ASSUME MemInit PROVE MemInv
  OBVIOUS
<1>1. MemTypeOK
  BY MemTypes
<1>2. LeadsAreInScopes
  <2>1. NoScope \notin Scopes
    BY MemoryAssumption DEF MemoryAssumption, NoScope, Scopes
  <2> QED
    BY <2>1 DEF MemInit, LeadsAreInScopes, AtWork, Doing, Off
<1>6. ProblemsHaveOneLead /\ ImportComesFirst
  <2>1. NoScope \notin Scopes
    BY MemoryAssumption DEF MemoryAssumption, NoScope, Scopes
  <2> QED
    BY <2>1 DEF MemInit, ProblemsHaveOneLead, ImportComesFirst, Doing, Off
<1>3. OpenScopesAreInUse
  BY DEF MemInit, OpenScopesAreInUse
<1>4. LeadsDoNotArchiveTheirs
  BY DEF MemInit, LeadsDoNotArchiveTheirs, Doing, Off
<1>5. LegacyIsKept
  BY DEF MemInit, LegacyIsKept
<1> QED
  BY <1>1, <1>2, <1>3, <1>4, <1>5, <1>6 DEF MemInv

-----------------------------------------------------------------------------
LEMMA FreshIsAbsent == MemTypeOK /\ CanCreate => Fresh \in Scopes /\ scopeState[Fresh] = "absent"
  BY DEF Fresh, CanCreate

(* What creating or activating a scope leaves behind                       *)
Opened(s, end) ==
    /\ scopeState' \in [Scopes -> {"absent", "open", "archived"}]
    /\ mark' \in [Scopes -> Leads \cup {Unmarked, Forsaken}]
    /\ \A r \in Scopes \ {s} : scopeState'[r] = scopeState[r] /\ mark'[r] = mark[r]
    /\ end = "lost" => scopeState' = scopeState /\ mark' = mark
    /\ end # "lost" => scopeState'[s] = "open"
    /\ end = "unread" => mark'[s] = "forsaken"

LEMMA OpenKeeps ==
  ASSUME MemTypeOK, NEW s \in Scopes, NEW end \in Ends, Open(s, end)
  PROVE  Opened(s, end)
  BY DEF MemTypeOK, Open, Opened, Committed, scopeVars, Ends, Unmarked, Forsaken

(* A lead that is told that it is in a scope that has another owner makes  *)
(* the two cross.                                                          *)
LEMMA ToldKeeps ==
  ASSUME MemTypeOK, ProblemsHaveOneLead, NEW p \in Leads, NEW s \in Scopes, Told(p, s),
         activeScope' = [activeScope EXCEPT ![p] = s], UNCHANGED memories
  PROVE  /\ met' \in [Leads -> SUBSET Scopes]
         /\ owner' \in [Scopes -> Leads \cup {Nobody}]
         /\ crossed' \in BOOLEAN
         /\ ProblemsHaveOneLead'
<1> USE DEF MemTypeOK, Told
<1>1. /\ met' \in [Leads -> SUBSET Scopes]
      /\ owner' \in [Scopes -> Leads \cup {Nobody}]
      /\ crossed' \in BOOLEAN
  OBVIOUS
<1>2. ProblemsHaveOneLead'
  <2> SUFFICES ASSUME ~crossed' PROVE ProblemsHaveOneLead'
    BY DEF ProblemsHaveOneLead
  <2>1. ~crossed /\ owner'[s] = p
    OBVIOUS
  <2>2. \A r \in Scopes : owner[r] \in Leads => owner'[r] = owner[r]
    BY MemoryAssumption DEF MemoryAssumption, Nobody
  <2>3. \A q \in Leads : \A r \in met'[q] : owner'[r] = q
    BY <2>1, <2>2 DEF ProblemsHaveOneLead
  <2>4. \A q \in Leads : activeScope'[q] \in Scopes => owner'[activeScope'[q]] = q
    BY <2>1, <2>2 DEF ProblemsHaveOneLead
  <2>5. ASSUME NEW m \in memories'
        PROVE  m.scope # Global /\ owner'[m.scope] \in Leads /\ owner'[m.about] = owner'[m.scope]
    <3>1. m.scope \in Scopes /\ m.about \in Scopes /\ owner[m.scope] \in Leads
          /\ owner[m.about] = owner[m.scope] /\ m.scope # Global
      BY <2>1 DEF ProblemsHaveOneLead, Rows
    <3> QED
      BY <3>1, <2>2
  <2> QED
    BY <2>3, <2>4, <2>5 DEF ProblemsHaveOneLead
<1> QED
  BY <1>1, <1>2

LEMMA BeginSessionKeeps ==
  ASSUME MemInv, NEW p \in Leads, BeginSession(p)
  PROVE  MemInv'
<1> USE DEF BeginSession, MemInv, MemTypeOK, Doing, Do
<1>1. MemTypeOK'
  BY MemoryAssumption DEF Points, scopeVars, legacyVars, sessionVars
<1>2. LeadsAreInScopes'
  BY DEF LeadsAreInScopes, AtWork, sessionVars
<1>3. ProblemsHaveOneLead'
  BY DEF ProblemsHaveOneLead, sessionVars
<1>4. LeadsDoNotArchiveTheirs'
  BY DEF LeadsDoNotArchiveTheirs, scopeVars, sessionVars
<1>5. OpenScopesAreInUse'
  BY DEF OpenScopesAreInUse, scopeVars, sessionVars
<1>6. ImportComesFirst'
  BY DEF ImportComesFirst, legacyVars
<1>7. LegacyIsKept'
  BY DEF LegacyIsKept, legacyVars
<1> QED
  BY <1>1, <1>2, <1>3, <1>4, <1>5, <1>6, <1>7

LEMMA ImportLegacyKeeps ==
  ASSUME MemInv, NEW p \in Leads, NEW end \in Ends, ImportLegacy(p, end)
  PROVE  MemInv'
<1> USE DEF ImportLegacy, MemInv, MemTypeOK, Doing, Do
<1>1. MemTypeOK'
  BY MemoryAssumption DEF Points, Off, Charge, scopeVars, sessionVars
<1>2. LeadsAreInScopes'
  BY DEF LeadsAreInScopes, AtWork, Off, sessionVars
<1>3. ProblemsHaveOneLead'
  BY DEF ProblemsHaveOneLead, sessionVars
<1>4. LeadsDoNotArchiveTheirs'
  BY DEF LeadsDoNotArchiveTheirs, Off, scopeVars, sessionVars
<1>5. OpenScopesAreInUse'
  BY DEF OpenScopesAreInUse, scopeVars, sessionVars
<1>6. ImportComesFirst'
  BY DEF ImportComesFirst, Off, Committed
<1>7. LegacyIsKept'
  BY DEF LegacyIsKept
<1> QED
  BY <1>1, <1>2, <1>3, <1>4, <1>5, <1>6, <1>7

LEMMA MarkMigratedKeeps ==
  ASSUME MemInv, NEW p \in Leads, NEW end \in Ends, MarkMigrated(p, end)
  PROVE  MemInv'
<1> USE DEF MarkMigrated, MemInv, MemTypeOK, Doing, Do
<1>1. MemTypeOK'
  BY MemoryAssumption DEF Points, Off, Charge, scopeVars, sessionVars
<1>2. LeadsAreInScopes'
  BY DEF LeadsAreInScopes, AtWork, Off, sessionVars
<1>3. ProblemsHaveOneLead'
  BY DEF ProblemsHaveOneLead, sessionVars
<1>4. LeadsDoNotArchiveTheirs'
  BY DEF LeadsDoNotArchiveTheirs, Off, scopeVars, sessionVars
<1>5. OpenScopesAreInUse'
  <2>1. \A q \in Leads : Doing(q, "leave") => Doing(q, "leave")' /\ call'[q].to = call[q].to
    OBVIOUS
  <2> QED
    BY <2>1 DEF OpenScopesAreInUse, scopeVars, sessionVars
<1>6. ImportComesFirst'
  BY DEF ImportComesFirst
<1>7. LegacyIsKept'
  BY DEF LegacyIsKept, ImportComesFirst
<1> QED
  BY <1>1, <1>2, <1>3, <1>4, <1>5, <1>6, <1>7

LEMMA OpenSessionKeeps ==
  ASSUME MemInv, NEW p \in Leads, NEW end \in Ends, OpenSession(p, end)
  PROVE  MemInv'
<1>1. PICK s \in Scopes : s = Fresh /\ scopeState[s] = "absent"
  BY FreshIsAbsent DEF OpenSession, MemInv
<1>2. /\ Opened(s, end)
      /\ UNCHANGED <<memories, legacyVars, exits>>
      /\ raises' \in 0..MaxRaises
  BY <1>1, OpenKeeps, MemoryAssumption DEF OpenSession, MemInv, MemTypeOK, Charge
<1>3. /\ activeScope' = IF end = "done" THEN [activeScope EXCEPT ![p] = s] ELSE activeScope
      /\ IF end = "done" THEN Told(p, s) ELSE UNCHANGED <<met, owner, crossed>>
      /\ call' = [call EXCEPT ![p] = IF end = "done" THEN Ready ELSE Off]
  BY <1>1 DEF OpenSession, sessionVars, Do
<1>4. call[p].op = "session"
  BY DEF OpenSession, Doing
<1> HIDE <1>1
<1> USE DEF MemInv, Opened, Doing
<1>5. /\ met' \in [Leads -> SUBSET Scopes]
      /\ owner' \in [Scopes -> Leads \cup {Nobody}]
      /\ crossed' \in BOOLEAN
      /\ ProblemsHaveOneLead'
  <2>1. CASE end = "done"
    BY <2>1, <1>2, <1>3, ToldKeeps
  <2>2. CASE end # "done"
    BY <2>2, <1>2, <1>3 DEF MemTypeOK, ProblemsHaveOneLead
  <2> QED
    BY <2>1, <2>2
<1>11. MemTypeOK'
  BY <1>2, <1>3, <1>5 DEF MemTypeOK, Points, Off, Ready, legacyVars
<1>12. LeadsAreInScopes'
  BY <1>3, <1>4 DEF MemTypeOK, LeadsAreInScopes, AtWork, Off, Ready
<1>13. ProblemsHaveOneLead'
  BY <1>5
<1>14. LeadsDoNotArchiveTheirs'
  BY <1>2, <1>3 DEF MemTypeOK, LeadsDoNotArchiveTheirs, Off, Ready
<1>15. OpenScopesAreInUse'
  <2> SUFFICES ASSUME NEW r \in Scopes, scopeState'[r] = "open", mark'[r] # Forsaken
               PROVE  \/ \E q \in Leads : activeScope'[q] = r
                      \/ \E q \in Leads : call'[q].op = "leave" /\ call'[q].to = r
    BY DEF OpenScopesAreInUse
  <2>1. CASE r = s /\ end # "lost"
    BY <2>1, <1>2, <1>3 DEF MemTypeOK, Ends, Forsaken
  <2>2. CASE r # s \/ end = "lost"
    <3>1. scopeState[r] = "open" /\ mark[r] # Forsaken
      BY <2>2, <1>2
    <3>2. CASE \E q \in Leads : activeScope[q] = r
      <4>1. PICK q \in Leads : activeScope[q] = r
        BY <3>2
      <4>2. CASE q # p \/ end # "done"
        BY <4>1, <4>2, <1>3
      <4>3. CASE q = p /\ end = "done"
        BY <4>3, <1>2, <1>3, <1>4
        DEF MemTypeOK, LeadsAreInScopes, OpenScopesAreInUse, AtWork
      <4> QED
        BY <4>2, <4>3
    <3>3. CASE \E q \in Leads : call[q].op = "leave" /\ call[q].to = r
      BY <3>3, <1>3, <1>4
    <3> QED
      BY <3>1, <3>2, <3>3 DEF OpenScopesAreInUse
  <2> QED
    BY <2>1, <2>2
<1>16. ImportComesFirst'
  BY <1>2, <1>3 DEF ImportComesFirst, Off, Ready, legacyVars
<1>17. LegacyIsKept'
  BY <1>2 DEF LegacyIsKept, legacyVars
<1> QED
  BY <1>11, <1>12, <1>13, <1>14, <1>15, <1>16, <1>17

LEMMA EnterScopeKeeps ==
  ASSUME MemInv, NEW p \in Leads, NEW s \in Scopes, NEW end \in Ends, EnterScope(p, s, end)
  PROVE  MemInv'
<1>2. /\ Opened(s, end)
      /\ UNCHANGED <<memories, legacyVars, sessionVars, exits>>
      /\ raises' \in 0..MaxRaises
  BY OpenKeeps, MemoryAssumption DEF EnterScope, MemInv, MemTypeOK, Charge
<1>3. /\ call' \in [Leads -> Points]
      /\ \A q \in Leads \ {p} : call'[q] = call[q]
      /\ \/ call'[p] = call[p]
         \/ end = "done" /\ s # activeScope[p] /\ call'[p].op = "leave" /\ call'[p].to = s
  BY DEF EnterScope, Do, MemInv, MemTypeOK, Points
<1>4. /\ call[p].op = "ready"
      /\ end = "done" /\ s # activeScope[p] => call'[p].op = "leave" /\ call'[p].to = s
  BY DEF EnterScope, Do, Doing, MemInv, MemTypeOK
<1> USE DEF MemInv, Opened, Doing
<1>11. MemTypeOK'
  BY <1>2, <1>3 DEF MemTypeOK, legacyVars, sessionVars
<1>12. LeadsAreInScopes'
  BY <1>2, <1>3, <1>4 DEF LeadsAreInScopes, AtWork, sessionVars
<1>13. ProblemsHaveOneLead'
  BY <1>2 DEF ProblemsHaveOneLead, sessionVars
<1>14. LeadsDoNotArchiveTheirs'
  BY <1>2, <1>3 DEF LeadsDoNotArchiveTheirs, sessionVars
<1>15. OpenScopesAreInUse'
  <2> SUFFICES ASSUME NEW r \in Scopes, scopeState'[r] = "open", mark'[r] # Forsaken
               PROVE  \/ \E q \in Leads : activeScope'[q] = r
                      \/ \E q \in Leads : call'[q].op = "leave" /\ call'[q].to = r
    BY DEF OpenScopesAreInUse
  <2>1. CASE r = s /\ end # "lost"
    BY <1>2, <1>3, <1>4 DEF OpenScopesAreInUse, Ends, Forsaken, sessionVars
  <2>2. CASE r # s \/ end = "lost"
    <3>1. scopeState[r] = "open" /\ mark[r] # Forsaken
      BY <2>2, <1>2
    <3> QED
      BY <3>1, <1>2, <1>3, <1>4 DEF OpenScopesAreInUse, sessionVars
  <2> QED
    BY <2>1, <2>2
<1>16. ImportComesFirst'
  BY <1>2, <1>3 DEF ImportComesFirst, legacyVars
<1>17. LegacyIsKept'
  BY <1>2 DEF LegacyIsKept, legacyVars
<1> QED
  BY <1>11, <1>12, <1>13, <1>14, <1>15, <1>16, <1>17

LEMMA LeaveScopeKeeps ==
  ASSUME MemInv, NEW p \in Leads, NEW end \in Ends, LeaveScope(p, end)
  PROVE  MemInv'
<1> USE DEF LeaveScope, MemInv, MemTypeOK, Doing, Do
<1>0. activeScope[p] \in Scopes /\ call[p].to \in Scopes /\ NoScope \notin Scopes
  <2>1. activeScope[p] \in Scopes
    BY DEF LeadsAreInScopes, AtWork
  <2>2. call[p].to \in Scopes
    BY DEF Points
  <2>3. NoScope \notin Scopes
    BY MemoryAssumption DEF MemoryAssumption, NoScope, Scopes
  <2> QED
    BY <2>1, <2>2, <2>3
<1>9. /\ met' \in [Leads -> SUBSET Scopes]
      /\ owner' \in [Scopes -> Leads \cup {Nobody}]
      /\ crossed' \in BOOLEAN
      /\ ProblemsHaveOneLead'
  <2>1. CASE end = "done"
    BY <2>1, <1>0, ToldKeeps
  <2>2. CASE end # "done"
    BY <2>2 DEF sessionVars, ProblemsHaveOneLead
  <2> QED
    BY <2>1, <2>2
<1>1. MemTypeOK'
  <2>1. scopeState' \in [Scopes -> {"absent", "open", "archived"}]
    BY <1>0
  <2>2. call' \in [Leads -> Points]
    BY DEF Points, Ready
  <2>3. /\ mark' \in [Scopes -> Leads \cup {Unmarked, Forsaken}]
        /\ activeScope' \in [Leads -> Scopes \cup {NoScope}]
    <3>1. CASE end = "done"
      BY <1>0, <3>1
    <3>2. CASE end # "done"
      BY <1>0, <3>2 DEF sessionVars
    <3> QED
      BY <3>1, <3>2
  <2>4. UNCHANGED <<memories, legacyVars, exits>> /\ raises' \in 0..MaxRaises
    BY MemoryAssumption DEF Charge
  <2> QED
    BY <2>1, <2>2, <2>3, <2>4, <1>9 DEF legacyVars
<1>2. LeadsAreInScopes'
  BY <1>0 DEF LeadsAreInScopes, AtWork, Ready, sessionVars
<1>3. ProblemsHaveOneLead'
  BY <1>9
<1>4. LeadsDoNotArchiveTheirs'
  BY <1>0, MemoryAssumption DEF LeadsDoNotArchiveTheirs, Ready, Forsaken, sessionVars
<1>5. OpenScopesAreInUse'
  BY DEF OpenScopesAreInUse, Committed, sessionVars
<1>6. ImportComesFirst'
  BY DEF ImportComesFirst, Ready, legacyVars
<1>7. LegacyIsKept'
  BY DEF LegacyIsKept, legacyVars
<1> QED
  BY <1>1, <1>2, <1>3, <1>4, <1>5, <1>6, <1>7

LEMMA StoreKeeps ==
  ASSUME MemTypeOK, NEW row \in Rows, NEW end \in Ends, Store(row, end)
  PROVE  memories' \in SUBSET Rows /\ \A r \in memories' : r \in memories \/ r = row
  BY DEF MemTypeOK, Store, Upsert

LEMMA RowKeepsApart ==
  ASSUME MemInv, NEW p \in Leads, NEW row \in Rows, row.scope = activeScope[p], row.about \in met[p],
         AtWork(p), UNCHANGED sessionVars,
         \A r \in memories' : r \in memories \/ r = row
  PROVE  ProblemsHaveOneLead'
<1>1. row.scope \in Scopes /\ row.scope # Global
  BY DEF MemInv, LeadsAreInScopes, Scopes, Global
<1> QED
  BY <1>1 DEF MemInv, ProblemsHaveOneLead, sessionVars

LEMMA ReadContextKeeps ==
  ASSUME MemInv, NEW p \in Leads, ReadContext(p)
  PROVE  MemInv'
<1> USE DEF ReadContext, MemInv, MemTypeOK, Doing
<1>0. met' = [met EXCEPT ![p] = @ \cup {m.about : m \in Context(p)}]
  BY DEF Hears
<1>1. MemTypeOK'
  <2>1. {m.about : m \in Context(p)} \subseteq Scopes
    BY DEF Context, Rows
  <2>2. met' \in [Leads -> SUBSET Scopes]
    BY <1>0, <2>1
  <2> QED
    BY <2>2 DEF scopeVars, legacyVars
<1>2. LeadsAreInScopes'
  BY DEF LeadsAreInScopes, AtWork
<1>3. ProblemsHaveOneLead'
  <2> SUFFICES ASSUME ~crossed PROVE \A q \in Leads : \A s \in met'[q] : owner[s] = q
    BY DEF ProblemsHaveOneLead
  <2>1. owner[activeScope[p]] = p
    BY DEF LeadsAreInScopes, AtWork, ProblemsHaveOneLead
  <2>2. \A m \in Context(p) : owner[m.about] = p
    BY <2>1 DEF Context, ProblemsHaveOneLead
  <2>3. \A s \in met[p] \cup {m.about : m \in Context(p)} : owner[s] = p
    BY <2>2 DEF ProblemsHaveOneLead
  <2> QED
    BY <1>0, <2>3 DEF ProblemsHaveOneLead
<1>4. LeadsDoNotArchiveTheirs'
  BY DEF LeadsDoNotArchiveTheirs, scopeVars
<1>5. OpenScopesAreInUse'
  BY DEF OpenScopesAreInUse, scopeVars
<1>6. ImportComesFirst'
  BY DEF ImportComesFirst, legacyVars
<1>7. LegacyIsKept'
  BY DEF LegacyIsKept, legacyVars
<1> QED
  BY <1>1, <1>2, <1>3, <1>4, <1>5, <1>6, <1>7

LEMMA SearchKeeps ==
  ASSUME MemInv, NEW p \in Leads, Search(p)
  PROVE  MemInv'
<1> USE DEF Search, MemInv, MemTypeOK, Doing
<1>0. met' = [met EXCEPT ![p] = @ \cup {m.about : m \in memories}]
  BY DEF Hears
<1>1. MemTypeOK'
  <2>1. {m.about : m \in memories} \subseteq Scopes
    BY DEF Rows
  <2>2. met' \in [Leads -> SUBSET Scopes] /\ crossed' \in BOOLEAN
    BY <1>0, <2>1
  <2> QED
    BY <2>2 DEF scopeVars, legacyVars
<1>2. LeadsAreInScopes'
  BY DEF LeadsAreInScopes, AtWork
<1>3. ProblemsHaveOneLead'
  <2> SUFFICES ASSUME ~crossed' PROVE ProblemsHaveOneLead'
    BY DEF ProblemsHaveOneLead
  <2>1. ~crossed /\ \A m \in memories : owner[m.scope] = p
    OBVIOUS
  <2>2. \A s \in met[p] \cup {m.about : m \in memories} : owner[s] = p
    BY <2>1 DEF ProblemsHaveOneLead
  <2>3. \A q \in Leads : \A s \in met'[q] : owner[s] = q
    BY <1>0, <2>1, <2>2 DEF ProblemsHaveOneLead
  <2> QED
    BY <2>1, <2>3 DEF ProblemsHaveOneLead
<1>4. LeadsDoNotArchiveTheirs'
  BY DEF LeadsDoNotArchiveTheirs, scopeVars
<1>5. OpenScopesAreInUse'
  BY DEF OpenScopesAreInUse, scopeVars
<1>6. ImportComesFirst'
  BY DEF ImportComesFirst, legacyVars
<1>7. LegacyIsKept'
  BY DEF LegacyIsKept, legacyVars
<1> QED
  BY <1>1, <1>2, <1>3, <1>4, <1>5, <1>6, <1>7

LEMMA RememberKeeps ==
  ASSUME MemInv, NEW p \in Leads, NEW k \in Keys, NEW q \in Scopes, NEW end \in Ends,
         Remember(p, k, q, end)
  PROVE  MemInv'
<1> USE DEF Remember, MemInv, MemTypeOK, Doing, Do
<1> DEFINE row == [scope |-> activeScope[p], key |-> k, about |-> q]
<1>a. /\ row \in Rows /\ row.scope = activeScope[p] /\ row.about \in met[p]
      /\ AtWork(p) /\ Store(row, end)
  BY DEF Rows, LeadsAreInScopes, AtWork
<1>b. memories' \in SUBSET Rows /\ \A r \in memories' : r \in memories \/ r = row
  BY <1>a, StoreKeeps
<1> HIDE DEF row
<1>1. MemTypeOK'
  BY <1>b, MemoryAssumption DEF Charge, scopeVars, legacyVars, sessionVars
<1>2. LeadsAreInScopes'
  BY DEF LeadsAreInScopes, AtWork, sessionVars
<1>3. ProblemsHaveOneLead'
  BY <1>a, <1>b, RowKeepsApart
<1>4. LeadsDoNotArchiveTheirs'
  BY DEF LeadsDoNotArchiveTheirs, scopeVars, sessionVars
<1>5. OpenScopesAreInUse'
  BY DEF OpenScopesAreInUse, scopeVars, sessionVars
<1>6. ImportComesFirst'
  BY DEF ImportComesFirst, legacyVars
<1>7. LegacyIsKept'
  BY DEF LegacyIsKept, legacyVars
<1> QED
  BY <1>1, <1>2, <1>3, <1>4, <1>5, <1>6, <1>7

LEMMA ReadForPromotionKeeps ==
  ASSUME MemInv, NEW p \in Leads, NEW m \in memories, ReadForPromotion(p, m)
  PROVE  MemInv'
<1> USE DEF ReadForPromotion, MemInv, MemTypeOK, Doing, Do
<1>1. MemTypeOK'
  BY MemoryAssumption DEF Points, scopeVars, legacyVars, sessionVars
<1>2. LeadsAreInScopes'
  BY DEF LeadsAreInScopes, AtWork, sessionVars
<1>3. ProblemsHaveOneLead'
  BY DEF ProblemsHaveOneLead, sessionVars
<1>4. LeadsDoNotArchiveTheirs'
  BY DEF LeadsDoNotArchiveTheirs, scopeVars, sessionVars
<1>5. OpenScopesAreInUse'
  BY DEF OpenScopesAreInUse, scopeVars, sessionVars
<1>6. ImportComesFirst'
  BY DEF ImportComesFirst, legacyVars
<1>7. LegacyIsKept'
  BY DEF LegacyIsKept, legacyVars
<1> QED
  BY <1>1, <1>2, <1>3, <1>4, <1>5, <1>6, <1>7

LEMMA PromoteKeeps ==
  ASSUME MemInv, NEW p \in Leads, NEW end \in Ends, Promote(p, end)
  PROVE  MemInv'
<1> USE DEF Promote, MemInv, MemTypeOK, Doing, Do
<1> DEFINE row == [call[p].row EXCEPT !.scope = Global]
<1>a. call[p].row \in Rows /\ row \in Rows /\ Store(row, end)
  BY DEF Points, Rows
<1>b. memories' \in SUBSET Rows /\ (end = "lost" => memories' = memories)
  <2> HIDE DEF row
  <2>1. memories' \in SUBSET Rows
    BY <1>a, StoreKeeps
  <2> QED
    BY <1>a, <2>1 DEF Store, Committed
<1> HIDE DEF row
<1>c. /\ met' \in [Leads -> SUBSET Scopes]
      /\ crossed' \in BOOLEAN
      /\ end = "lost" => met' = met
  <2>1. {m.about : m \in (IF end = "done" THEN {call[p].row} ELSE {})} \subseteq Scopes
    BY <1>a DEF Rows
  <2>2. met' = [met EXCEPT ![p] = @ \cup {m.about : m \in (IF end = "done" THEN {call[p].row} ELSE {})}]
    BY DEF Hears
  <2>3. end = "lost" => {m.about : m \in (IF end = "done" THEN {call[p].row} ELSE {})} = {}
    OBVIOUS
  <2> QED
    BY <2>1, <2>2, <2>3
<1>1. MemTypeOK'
  <2>1. call' \in [Leads -> Points]
    BY DEF Points, Ready
  <2>2. raises' \in 0..MaxRaises
    BY MemoryAssumption DEF Charge
  <2> QED
    BY <1>b, <1>c, <2>1, <2>2 DEF scopeVars, legacyVars
<1>2. LeadsAreInScopes'
  BY DEF LeadsAreInScopes, AtWork, Ready
<1>3. ProblemsHaveOneLead'
  <2>1. CASE end = "lost"
    BY <2>1, <1>b, <1>c DEF ProblemsHaveOneLead, Committed
  <2>2. CASE end # "lost"
    BY <2>2 DEF ProblemsHaveOneLead, Committed
  <2> QED
    BY <2>1, <2>2
<1>4. LeadsDoNotArchiveTheirs'
  BY DEF LeadsDoNotArchiveTheirs, Ready, scopeVars
<1>5. OpenScopesAreInUse'
  BY DEF OpenScopesAreInUse, scopeVars
<1>6. ImportComesFirst'
  BY DEF ImportComesFirst, Ready, legacyVars
<1>7. LegacyIsKept'
  BY DEF LegacyIsKept, legacyVars
<1> QED
  BY <1>1, <1>2, <1>3, <1>4, <1>5, <1>6, <1>7

LEMMA BeginCheckpointKeeps ==
  ASSUME MemInv, NEW p \in Leads, NEW K \in SUBSET Keys, BeginCheckpoint(p, K)
  PROVE  MemInv'
<1> USE DEF BeginCheckpoint, MemInv, MemTypeOK, Doing, Do
<1>1. MemTypeOK'
  BY MemoryAssumption DEF Points, scopeVars, legacyVars, sessionVars
<1>2. LeadsAreInScopes'
  BY DEF LeadsAreInScopes, AtWork, sessionVars
<1>3. ProblemsHaveOneLead'
  BY DEF ProblemsHaveOneLead, sessionVars
<1>4. LeadsDoNotArchiveTheirs'
  BY DEF LeadsDoNotArchiveTheirs, scopeVars, sessionVars
<1>5. OpenScopesAreInUse'
  BY DEF OpenScopesAreInUse, scopeVars, sessionVars
<1>6. ImportComesFirst'
  BY DEF ImportComesFirst, legacyVars
<1>7. LegacyIsKept'
  BY DEF LegacyIsKept, legacyVars
<1> QED
  BY <1>1, <1>2, <1>3, <1>4, <1>5, <1>6, <1>7

LEMMA CheckpointItemKeeps ==
  ASSUME MemInv, NEW p \in Leads, NEW k \in Keys, NEW q \in Scopes, NEW end \in Ends,
         CheckpointItem(p, k, q, end)
  PROVE  MemInv'
<1> USE DEF CheckpointItem, MemInv, MemTypeOK, Doing, Do
<1> DEFINE row == [scope |-> activeScope[p], key |-> k, about |-> q]
<1>a. /\ row \in Rows /\ row.scope = activeScope[p] /\ row.about \in met[p]
      /\ AtWork(p) /\ Store(row, end)
  BY DEF Rows, LeadsAreInScopes, AtWork
<1>b. memories' \in SUBSET Rows /\ \A r \in memories' : r \in memories \/ r = row
  BY <1>a, StoreKeeps
<1> HIDE DEF row
<1>1. MemTypeOK'
  BY <1>b, MemoryAssumption
  DEF Points, Ready, Charge, scopeVars, legacyVars, sessionVars
<1>2. LeadsAreInScopes'
  BY DEF LeadsAreInScopes, AtWork, Ready, sessionVars
<1>3. ProblemsHaveOneLead'
  BY <1>a, <1>b, RowKeepsApart
<1>4. LeadsDoNotArchiveTheirs'
  BY DEF LeadsDoNotArchiveTheirs, Ready, scopeVars, sessionVars
<1>5. OpenScopesAreInUse'
  BY DEF OpenScopesAreInUse, scopeVars, sessionVars
<1>6. ImportComesFirst'
  BY DEF ImportComesFirst, Ready, legacyVars
<1>7. LegacyIsKept'
  BY DEF LegacyIsKept, legacyVars
<1> QED
  BY <1>1, <1>2, <1>3, <1>4, <1>5, <1>6, <1>7

LEMMA ExitKeeps ==
  ASSUME MemInv, NEW p \in Leads, Exit(p)
  PROVE  MemInv'
<1> USE DEF Exit, MemInv, MemTypeOK, Doing, Do
<1>1. MemTypeOK'
  BY MemoryAssumption DEF Points, Off, legacyVars
<1>2. LeadsAreInScopes'
  <2>1. NoScope \notin Scopes
    BY MemoryAssumption DEF NoScope, Scopes
  <2> QED
    BY <2>1 DEF LeadsAreInScopes, AtWork, Off
<1>3. ProblemsHaveOneLead'
  <2>1. NoScope \notin Scopes
    BY MemoryAssumption DEF NoScope, Scopes
  <2> QED
    BY <2>1 DEF ProblemsHaveOneLead
<1>4. LeadsDoNotArchiveTheirs'
  BY MemoryAssumption DEF LeadsDoNotArchiveTheirs, Off, Forsaken, NoScope, Scopes
<1>5. OpenScopesAreInUse'
  BY DEF OpenScopesAreInUse
<1>6. ImportComesFirst'
  BY DEF ImportComesFirst, Off, legacyVars
<1>7. LegacyIsKept'
  BY DEF LegacyIsKept, legacyVars
<1> QED
  BY <1>1, <1>2, <1>3, <1>4, <1>5, <1>6, <1>7

LEMMA MemSteps == MemInv /\ [MemNext]_memVars => MemInv'
<1> SUFFICES ASSUME MemInv, [MemNext]_memVars PROVE MemInv'
  OBVIOUS
<1>1. ASSUME NEW p \in Leads, BeginSession(p) \/ Exit(p) \/ ReadContext(p) \/ Search(p)
      PROVE  MemInv'
  BY <1>1, BeginSessionKeeps, ExitKeeps, ReadContextKeeps, SearchKeeps
<1>2. ASSUME NEW p \in Leads, NEW m \in memories, ReadForPromotion(p, m) PROVE MemInv'
  BY <1>2, ReadForPromotionKeeps
<1>3. ASSUME NEW p \in Leads, NEW K \in SUBSET Keys, BeginCheckpoint(p, K) PROVE MemInv'
  BY <1>3, BeginCheckpointKeeps
<1>4. ASSUME NEW p \in Leads, NEW end \in Ends,
             ImportLegacy(p, end) \/ MarkMigrated(p, end) \/ OpenSession(p, end)
      PROVE  MemInv'
  BY <1>4, ImportLegacyKeeps, MarkMigratedKeeps, OpenSessionKeeps
<1>5. ASSUME NEW p \in Leads, NEW end \in Ends,
             StartScope(p, end) \/ LeaveScope(p, end) \/ Promote(p, end)
      PROVE  MemInv'
  <2>1. CASE StartScope(p, end)
    BY <2>1, FreshIsAbsent, EnterScopeKeeps DEF StartScope, MemInv
  <2> QED
    BY <1>5, <2>1, LeaveScopeKeeps, PromoteKeeps
<1>6. ASSUME NEW p \in Leads, NEW end \in Ends, NEW s \in Scopes, SwitchScope(p, s, end)
      PROVE  MemInv'
  BY <1>6, EnterScopeKeeps DEF SwitchScope
<1>7. ASSUME NEW p \in Leads, NEW end \in Ends, NEW k \in Keys, NEW q \in Scopes,
             Remember(p, k, q, end) \/ CheckpointItem(p, k, q, end)
      PROVE  MemInv'
  BY <1>7, RememberKeeps, CheckpointItemKeeps
<1>8. CASE UNCHANGED memVars
  BY <1>8 DEF memVars, scopeVars, legacyVars, sessionVars, MemInv, MemTypeOK, LeadsAreInScopes,
       ProblemsHaveOneLead, LeadsDoNotArchiveTheirs, OpenScopesAreInUse, ImportComesFirst, LegacyIsKept,
       AtWork, Doing
<1> QED
  BY <1>1, <1>2, <1>3, <1>4, <1>5, <1>6, <1>7, <1>8 DEF MemNext, ScopeStep, RowStep

-----------------------------------------------------------------------------
(* Every variable of the memory stays in its type.                         *)
THEOREM MemoryTypeCorrect == MemSpec => []MemTypeOK
<1>1. MemInv => MemTypeOK
  BY DEF MemInv
<1> QED
  BY <1>1, MemInitially, MemSteps, PTL DEF MemSpec

(* As long as nothing is promoted, searched for across leads or worked on  *)
(* in a shared scope, no two leads come to know of the same problem,       *)
(* whatever their conversations carry from scope to scope and whatever     *)
(* calls raise on the way.                                                 *)
THEOREM ProblemsAreApart == MemSpec => []ProblemsStayApart
<1>1. MemInv => ProblemsStayApart
  BY DEF MemInv, MemTypeOK, ProblemsHaveOneLead, ProblemsStayApart
<1> QED
  BY <1>1, MemInitially, MemSteps, PTL DEF MemSpec

(* Unless a process ended or a call raised half-way, a scope that is open  *)
(* is one a lead is in or goes to, and the scope a lead is in was not      *)
(* archived by itself.                                                     *)
THEOREM ScopesAreFollowed == MemSpec => []ScopesFollowLeads
<1>1. MemInv => OwnScopeStaysOpen
  <2> SUFFICES ASSUME MemInv, NEW p \in Leads, Doing(p, "ready"),
                      scopeState[activeScope[p]] = "archived"
               PROVE  mark[activeScope[p]] # p
    BY DEF OwnScopeStaysOpen
  <2>1. activeScope[p] \in Scopes
    BY DEF MemInv, LeadsAreInScopes, AtWork
  <2> QED
    BY <2>1 DEF MemInv, LeadsDoNotArchiveTheirs
<1>2. MemInv => ScopesFollowLeads
  BY <1>1 DEF MemInv, ScopesFollowLeads
<1> QED
  BY <1>2, MemInitially, MemSteps, PTL DEF MemSpec

(* The text of the legacy file is in the store once the migration is       *)
(* marked, for any number of processes that start together and die or      *)
(* raise between the import and the mark.                                  *)
THEOREM LegacyTextIsKept == MemSpec => []LegacyIsKept
<1>1. MemInv => LegacyIsKept
  BY DEF MemInv
<1> QED
  BY <1>1, MemInitially, MemSteps, PTL DEF MemSpec
=============================================================================
