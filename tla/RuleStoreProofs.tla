-------------------------- MODULE RuleStoreProofs --------------------------
(***************************************************************************)
(* The control plane proved for any handlers, loaders, requests and seeded *)
(* rows: when the cached rule set may be stale (StaleOnlyByOverlap), what  *)
(* a running engine evaluates (NothingSkipped) and that its retention      *)
(* reaches as far as its windows (WindowsCovered).                         *)
(*                                                                         *)
(* The versions carry the argument.  A fill whose query saw the table of   *)
(* today holds the set of today; and a set in the cache has seen no        *)
(* statement since it was stored, unless a handler is still to invalidate  *)
(* or a reply was lost (CacheVersions).                                    *)
(***************************************************************************)
EXTENDS RuleStore, TLAPS, WellFoundedInduction

Row == [label : Labels, node : Nodes, status : Statuses \cup {Active}]

Current == CompileAll(ListActive(rows))

\* A set's retention reaches as far as the windows of its rules.
Covered(s) ==
  \A id \in DOMAIN s.rules : \A c \in s.rules[id].node.conds :
    c.aggregate => Duration(c.window) <= s.maxWindow

AllValid(table) ==
  /\ table \in [DOMAIN table -> Row]
  /\ \A i \in DOMAIN table : ValidateRuleNode(table[i].node)

ActiveIds(table) == {i \in DOMAIN table : table[i].status = Active}

Typed ==
  /\ writes \in Nat
  /\ lost \in Nat
  /\ loader = [l \in Loader |-> loader[l]]
  /\ engine = [pc |-> engine.pc, set |-> engine.set,
               steady |-> engine.steady, touched |-> engine.touched]
  /\ AllValid(rows)

\* What a fill in progress has listed, or what is cached, is from a version so
\* far, and is the current set when that version is the current one.
Listed(e) ==
  /\ e.listed \in Nat
  /\ e.listed <= writes
  /\ e.listed = writes => e.set = Current
  /\ Covered(e.set)

FillVersions == \A l \in Loader : loader[l] \notin {Idle, Missed} => Listed(loader[l])

CacheVersions ==
  cached # NoSet =>
    /\ Listed(cached)
    /\ cached.stored \in Nat
    /\ cached.listed <= cached.stored
    /\ cached.stored <= writes
    /\ writes = cached.stored \/ invalidating # {} \/ lost > cached.stored

\* The engine between its launch and its query, and after it.
EngineLoaded ==
  /\ engine.pc = "query" => /\ engine.steady \subseteq ActiveIds(rows)
                            /\ ActiveIds(rows) \subseteq engine.touched
  /\ engine.pc \in {"patterns", "running"} =>
       /\ engine.steady \subseteq DOMAIN engine.set.rules
       /\ DOMAIN engine.set.rules \subseteq engine.touched
       /\ \A id \in DOMAIN engine.set.rules : ValidateRuleNode(engine.set.rules[id].node)
  /\ engine.set # NoSet => Covered(engine.set)

IInv == Typed /\ FillVersions /\ CacheVersions /\ EngineLoaded

-----------------------------------------------------------------------------
(* Compilation. *)

\* A set of integers with an upper bound has a greatest element.
LEMMA MaxOfBounded ==
  ASSUME NEW S, S \subseteq Int, S # {}, NEW b \in Int, \A x \in S : x <= b
  PROVE  \A x \in S : x <= Max(S)
<1> DEFINE D == {b - x : x \in S}
<1>1. D \subseteq Nat /\ D # {}
  <2>1. PICK x \in S : TRUE
    OBVIOUS
  <2>2. b - x \in D
    OBVIOUS
  <2>3. \A y \in S : b - y \in Nat
    OBVIOUS
  <2> QED
    BY <2>2, <2>3
<1>2. PICK d \in D : \A y \in D : <<y, d>> \notin OpToRel(<, Nat)
  <2> HIDE DEF D
  <2> QED
    BY <1>1, WFMin, NatLessThanWellFounded
<1>3. PICK m \in S : d = b - m
  OBVIOUS
<1>4. ASSUME NEW x \in S PROVE x <= m
  <2>1. b - x \in D /\ b - x \in Nat /\ d \in Nat
    BY <1>1
  <2>2. ~(b - x < d)
    BY <1>2, <2>1 DEF OpToRel
  <2> QED
    BY <1>3, <2>2
<1>5. \E y \in S : \A x \in S : y >= x
  BY <1>4
<1>6. Max(S) \in S /\ \A x \in S : Max(S) >= x
  BY <1>5 DEF Max
<1> QED
  BY <1>6

\* The range of a time.Duration.
LEMMA MinutesType == MaxMinutes \in Int /\ MaxMinutes >= 0
BY SMT DEF MaxMinutes

\* MaxWindowFromKeys over the keys that CollectUniqueAggregateKeys keeps reaches
\* every window, although it keeps one key for each cache key.
LEMMA UniqueKeysSuffice ==
  ASSUME NEW keys, \A k \in keys : Duration(k.window) \in -MaxMinutes..MaxMinutes
  PROVE  \A k \in keys :
           Duration(k.window) <= MaxWindowFromKeys(CollectUniqueAggregateKeys(keys))
<1> DEFINE U == CollectUniqueAggregateKeys(keys)
           S == {0} \cup {Duration(k.window) : k \in U}
<1>1. ASSUME NEW k \in keys PROVE \E u \in U : u.window = k.window
  <2> DEFINE u == CHOOSE j \in keys : CacheKey(j) = CacheKey(k)
  <2>1. u \in keys /\ CacheKey(u) = CacheKey(k)
    OBVIOUS
  <2>2. u \in U
    BY DEF CollectUniqueAggregateKeys
  <2>3. u.window = k.window
    BY <2>1 DEF CacheKey
  <2> QED
    BY <2>2, <2>3
<1>2. U \subseteq keys
  BY DEF CollectUniqueAggregateKeys
<1>3. MaxMinutes \in Int /\ MaxMinutes >= 0
  BY MinutesType
<1>4. \A x \in S : x <= Max(S)
  <2>1. S \subseteq Int /\ S # {} /\ \A x \in S : x <= MaxMinutes
    BY <1>2, <1>3
  <2> HIDE DEF S
  <2> QED
    BY <1>3, <2>1, MaxOfBounded
<1>5. ASSUME NEW k \in keys PROVE Duration(k.window) \in S
  BY <1>1
<1> QED
  BY <1>4, <1>5 DEF MaxWindowFromKeys

\* compileAndCache on the active rows of a table: the set has those rules and no
\* others, their trees, and a retention that covers them.
LEMMA CompiledSet ==
  ASSUME NEW table, AllValid(table), CompileAll(ListActive(table)) # NoSet
  PROVE  LET s == CompileAll(ListActive(table)) IN
           /\ DOMAIN s.rules = ActiveIds(table)
           /\ \A id \in DOMAIN s.rules : ValidateRuleNode(s.rules[id].node)
           /\ Covered(s)
<1> DEFINE active == ListActive(table)
           s == CompileAll(active)
           keys == UNION {CollectAggregateKeys(active[id].node) : id \in DOMAIN active}
<1>1. /\ DOMAIN active = ActiveIds(table)
      /\ \A id \in DOMAIN active : active[id] = table[id] /\ id \in DOMAIN table
  BY DEF ListActive, ActiveIds
<1>2. s = [rules |-> [id \in DOMAIN active |->
                        [label |-> active[id].label, node |-> active[id].node]],
           maxWindow |-> MaxWindowFromKeys(CollectUniqueAggregateKeys(keys))]
  BY DEF CompileAll
<1>3. /\ DOMAIN s.rules = DOMAIN active
      /\ \A id \in DOMAIN active : s.rules[id].node = active[id].node
      /\ s.maxWindow = MaxWindowFromKeys(CollectUniqueAggregateKeys(keys))
  <2> HIDE DEF s, keys, active
  <2> QED
    BY <1>2
<1>4. \A id \in DOMAIN active : active[id].node \in Nodes /\ ValidateRuleNode(active[id].node)
  BY <1>1 DEF AllValid, Row
<1>5. \A k \in keys : Duration(k.window) \in -MaxMinutes..MaxMinutes
  BY <1>4, WindowAssumption DEF CollectAggregateKeys
<1>6. \A k \in keys : Duration(k.window) <= s.maxWindow
  <2>1. \A k \in keys :
          Duration(k.window) <= MaxWindowFromKeys(CollectUniqueAggregateKeys(keys))
    <3> HIDE DEF keys
    <3> QED
      BY <1>5, UniqueKeysSuffice
  <2> QED
    BY <1>3, <2>1
<1>7. ASSUME NEW id \in DOMAIN active, NEW c \in active[id].node.conds, c.aggregate
      PROVE  Duration(c.window) <= s.maxWindow
  <2>1. [field |-> c.field, window |-> c.window] \in keys
    BY <1>7 DEF CollectAggregateKeys
  <2> QED
    BY <1>6, <2>1
<1> QED
  <2> HIDE DEF s, active
  <2>1. Covered(s)
    BY <1>3, <1>7 DEF Covered
  <2> QED
    BY <1>1, <1>3, <1>4, <2>1 DEF s, active

-----------------------------------------------------------------------------
(* The inductive invariant. *)

\* The seeded table, nothing cached, nobody running.
LEMMA InitIInv == Init => IInv
<1> SUFFICES ASSUME Init PROVE IInv
  OBVIOUS
<1>1. AllValid(rows)
  BY SeedAssumption DEF Init, AllValid, Row
<1>2. engine.pc = "down" /\ engine.set = NoSet
  BY DEF Init, Down
<1>3. Typed
  BY <1>1 DEF Init, Typed, Down
<1>4. FillVersions /\ CacheVersions
  BY DEF Init, FillVersions, CacheVersions
<1>5. EngineLoaded
  BY <1>2 DEF EngineLoaded
<1> QED
  BY <1>3, <1>4, <1>5 DEF IInv

\* A statement on the table: the version it makes is newer than any fill, the
\* cache is about to be invalidated or the reply is lost, and an engine between
\* launch and query sees the new table.
LEMMA StatementIInv ==
  ASSUME IInv, AllValid(rows'), NEW h,
         writes' = writes + 1,
         Observe(rows'),
         \/ invalidating' = invalidating \cup {h} /\ UNCHANGED lost
         \/ lost' = writes',
         UNCHANGED <<cached, loader>>
  PROVE  IInv'
<1>1. Typed /\ FillVersions /\ CacheVersions /\ EngineLoaded
  BY DEF IInv
<1>2. writes \in Nat /\ lost \in Nat /\ writes + 1 \in Nat
  BY <1>1 DEF Typed
<1>3. DOMAIN ListActive(rows') = ActiveIds(rows')
  BY DEF ListActive, ActiveIds
<1>4. /\ engine.pc # "query" => engine' = engine
      /\ engine.pc = "query" =>
           engine' = [engine EXCEPT !.steady = @ \cap ActiveIds(rows'),
                                    !.touched = @ \cup ActiveIds(rows')]
  BY <1>3 DEF Observe
<1>5. engine = [pc |-> engine.pc, set |-> engine.set,
                steady |-> engine.steady, touched |-> engine.touched]
  BY <1>1 DEF Typed
<1>6. engine.pc = "query" =>
        engine' = [pc |-> engine.pc, set |-> engine.set,
                   steady |-> engine.steady \cap ActiveIds(rows'),
                   touched |-> engine.touched \cup ActiveIds(rows')]
  BY <1>4, <1>5
<1>7. /\ engine' = [pc |-> engine'.pc, set |-> engine'.set,
                    steady |-> engine'.steady, touched |-> engine'.touched]
      /\ engine'.pc = engine.pc
      /\ engine'.set = engine.set
      /\ engine.pc # "query" => engine'.steady = engine.steady /\ engine'.touched = engine.touched
      /\ engine.pc = "query" => /\ engine'.steady = engine.steady \cap ActiveIds(rows')
                                /\ engine'.touched = engine.touched \cup ActiveIds(rows')
  <2>1. CASE engine.pc = "query"
    BY <1>6, <2>1
  <2>2. CASE engine.pc # "query"
    BY <1>4, <1>5, <2>2
  <2> QED
    BY <2>1, <2>2
<1>8. Typed'
  <2>1. writes' \in Nat /\ lost' \in Nat
    BY <1>2
  <2> QED
    BY <1>1, <1>7, <2>1 DEF Typed
<1>9. ASSUME NEW e, Listed(e)
      PROVE  e.listed \in Nat /\ e.listed <= writes' /\ e.listed # writes' /\ Covered(e.set)
  BY <1>2, <1>9 DEF Listed
<1>10. FillVersions'
  BY <1>1, <1>9 DEF FillVersions, Listed
<1>11. CacheVersions'
  <2> SUFFICES ASSUME cached # NoSet
               PROVE  /\ Listed(cached)'
                      /\ cached.stored \in Nat
                      /\ cached.listed <= cached.stored
                      /\ cached.stored <= writes'
                      /\ invalidating' # {} \/ lost' > cached.stored
    BY DEF CacheVersions
  <2>1. /\ Listed(cached)
        /\ cached.stored \in Nat
        /\ cached.listed <= cached.stored
        /\ cached.stored <= writes
        /\ writes = cached.stored \/ invalidating # {} \/ lost > cached.stored
    BY <1>1 DEF CacheVersions
  <2>2. Listed(cached)'
    BY <1>9, <2>1 DEF Listed
  <2>3. invalidating' # {} \/ lost' > cached.stored
    <3>1. CASE invalidating' = invalidating \cup {h}
      BY <3>1
    <3>2. CASE lost' = writes'
      <4>1. lost' = writes + 1
        BY <3>2
      <4> QED
        BY <1>2, <2>1, <4>1
    <3> QED
      BY <3>1, <3>2
  <2>4. cached.stored <= writes'
    BY <1>2, <2>1
  <2> QED
    BY <2>1, <2>2, <2>3, <2>4
<1>12. EngineLoaded'
  <2>1. engine'.pc = "query" => /\ engine'.steady \subseteq ActiveIds(rows')
                                /\ ActiveIds(rows') \subseteq engine'.touched
    BY <1>7
  <2>2. engine'.pc \in {"patterns", "running"} =>
          /\ engine'.steady \subseteq DOMAIN engine'.set.rules
          /\ DOMAIN engine'.set.rules \subseteq engine'.touched
          /\ \A id \in DOMAIN engine'.set.rules : ValidateRuleNode(engine'.set.rules[id].node)
    BY <1>1, <1>7 DEF EngineLoaded
  <2>3. engine'.set # NoSet => Covered(engine'.set)
    BY <1>1, <1>7 DEF EngineLoaded
  <2> QED
    BY <2>1, <2>2, <2>3 DEF EngineLoaded
<1> QED
  BY <1>8, <1>10, <1>11, <1>12 DEF IInv

\* Create, Update and SetStatus write rows the handlers accept.
LEMMA RuleAdminIInv ==
  ASSUME IInv, NEW h \in Handler, RuleAdmin(h)
  PROVE  IInv'
<1>1. AllValid(rows)
  BY DEF IInv, Typed
<1>2. ASSUME NEW T, Execute(h, T), AllValid(T) PROVE IInv'
  <2>1. /\ rows' = T
        /\ writes' = writes + 1
        /\ Observe(T)
        /\ \/ invalidating' = invalidating \cup {h} /\ UNCHANGED lost
           \/ lost' = writes'
        /\ UNCHANGED <<cached, loader>>
    BY <1>2 DEF Execute
  <2>2. AllValid(rows') /\ Observe(rows')
    BY <1>2, <2>1
  <2> QED
    BY <2>1, <2>2, StatementIInv
<1>3. ASSUME NEW x \in Labels, NEW n \in Nodes, Create(h, x, n) PROVE IInv'
  <2> DEFINE T(id) == [i \in DOMAIN rows \cup {id} |->
                         IF i = id THEN [label |-> x, node |-> n, status |-> Active]
                         ELSE rows[i]]
  <2>1. PICK id \in FreshIds : Execute(h, T(id))
    BY <1>3 DEF Create
  <2>2. ValidateRuleNode(n)
    BY <1>3 DEF Create
  <2>3. [label |-> x, node |-> n, status |-> Active] \in Row
    BY DEF Row
  <2>4. AllValid(T(id))
    BY <1>1, <2>2, <2>3 DEF AllValid
  <2> QED
    BY <1>2, <2>1, <2>4
<1>4. ASSUME NEW id, NEW x \in Labels \cup {Unset}, NEW n \in Nodes \cup {Unset},
             Update(h, id, x, n)
      PROVE  IInv'
  <2> DEFINE T == [rows EXCEPT ![id].label = New(x, @), ![id].node = New(n, @)]
  <2>1. CASE id \in DOMAIN rows
    <3>1. Execute(h, T)
      BY <1>4, <2>1 DEF Update
    <3>2. rows[id] \in Row /\ ValidateRuleNode(rows[id].node)
      BY <1>1, <2>1 DEF AllValid
    <3>3. New(x, rows[id].label) \in Labels /\ New(n, rows[id].node) \in Nodes
      BY <3>2 DEF New, Row
    <3>4. ValidateRuleNode(New(n, rows[id].node))
      BY <1>4, <3>2 DEF New, Update
    <3>5. /\ DOMAIN T = DOMAIN rows
          /\ T[id] = [label |-> New(x, rows[id].label), node |-> New(n, rows[id].node),
                      status |-> rows[id].status]
          /\ \A i \in DOMAIN rows : i # id => T[i] = rows[i]
          /\ T = [i \in DOMAIN T |-> T[i]]
      BY <1>1, <2>1, <3>2 DEF AllValid, Row
    <3>6. T[id] \in Row /\ ValidateRuleNode(T[id].node)
      <4> HIDE DEF T
      <4> QED
        BY <3>2, <3>3, <3>4, <3>5 DEF Row
    <3>7. AllValid(T)
      <4> HIDE DEF T
      <4> QED
        BY <1>1, <3>5, <3>6 DEF AllValid
    <3> QED
      BY <1>2, <3>1, <3>7
  <2>2. CASE id \notin DOMAIN rows
    BY <1>1, <1>2, <1>4, <2>2 DEF Update
  <2> QED
    BY <2>1, <2>2
<1>5. ASSUME NEW id, NEW s \in Statuses, SetStatus(h, id, s) PROVE IInv'
  <2> DEFINE T == [rows EXCEPT ![id].status = s]
  <2>1. CASE id \in DOMAIN rows
    <3>1. Execute(h, T)
      BY <1>5, <2>1 DEF SetStatus
    <3>2. rows[id] \in Row /\ ValidateRuleNode(rows[id].node)
      BY <1>1, <2>1 DEF AllValid
    <3>3. /\ DOMAIN T = DOMAIN rows
          /\ T[id] = [label |-> rows[id].label, node |-> rows[id].node, status |-> s]
          /\ \A i \in DOMAIN rows : i # id => T[i] = rows[i]
          /\ T = [i \in DOMAIN T |-> T[i]]
      BY <1>1, <2>1, <3>2 DEF AllValid, Row
    <3>4. T[id] \in Row /\ ValidateRuleNode(T[id].node)
      <4> HIDE DEF T
      <4> QED
        BY <3>2, <3>3 DEF Row
    <3>5. AllValid(T)
      <4> HIDE DEF T
      <4> QED
        BY <1>1, <3>3, <3>4 DEF AllValid
    <3> QED
      BY <1>2, <3>1, <3>5
  <2>2. CASE id \notin DOMAIN rows
    BY <1>1, <1>2, <1>5, <2>2 DEF SetStatus
  <2> QED
    BY <2>1, <2>2
<1> QED
  BY <1>3, <1>4, <1>5 DEF RuleAdmin, HandleCreate, HandleUpdate, HandleSetStatus

\* invalidateCache empties the cache.
LEMMA InvalidateIInv ==
  ASSUME IInv, NEW h \in Handler, InvalidateCache(h)
  PROVE  IInv'
<1> USE DEF InvalidateCache, engineVars
<1>1. Typed' /\ EngineLoaded'
  BY DEF IInv, Typed, EngineLoaded
<1>2. FillVersions'
  BY DEF IInv, FillVersions, Listed, Current
<1>3. CacheVersions'
  BY DEF CacheVersions
<1> QED
  BY <1>1, <1>2, <1>3 DEF IInv

\* A fill: miss, query and compilation, store.  The set stored comes from the
\* version of its query, whatever happened since.
LEMMA LoaderIInv ==
  ASSUME IInv, NEW l \in Loader, LoaderMiss(l) \/ LoaderQuery(l) \/ LoaderStore(l)
  PROVE  IInv'
<1>1. Typed /\ FillVersions /\ CacheVersions /\ EngineLoaded
  BY DEF IInv
<1>2. UNCHANGED <<rows, writes, invalidating, lost, engine>>
  BY DEF LoaderMiss, LoaderQuery, LoaderStore, engineVars
<1>3. EngineLoaded'
  BY <1>1, <1>2 DEF EngineLoaded
<1>4. Current' = Current /\ \A e : Listed(e) => Listed(e)'
  BY <1>2 DEF Current, Listed
<1>5. /\ loader = [k \in Loader |-> loader[k]]
      /\ writes \in Nat
  BY <1>1 DEF Typed
<1>6. ASSUME NEW v, loader' = [loader EXCEPT ![l] = v],
             v \notin {Idle, Missed} => Listed(v)
      PROVE  Typed' /\ FillVersions'
  <2>1. /\ loader' = [k \in Loader |-> loader'[k]]
        /\ \A k \in Loader : loader'[k] = IF k = l THEN v ELSE loader[k]
    BY <1>5, <1>6
  <2>2. Typed'
    BY <1>1, <1>2, <2>1 DEF Typed
  <2>3. ASSUME NEW k \in Loader, loader'[k] \notin {Idle, Missed} PROVE Listed(loader'[k])
    BY <1>1, <1>6, <2>1, <2>3 DEF FillVersions
  <2> QED
    BY <1>2, <2>2, <2>3 DEF FillVersions, Listed, Current
<1>7. CASE LoaderMiss(l)
  <2>1. Typed' /\ FillVersions'
    BY <1>6, <1>7 DEF LoaderMiss
  <2>2. CacheVersions'
    BY <1>1, <1>2, <1>7 DEF LoaderMiss, CacheVersions
  <2> QED
    BY <1>3, <2>1, <2>2 DEF IInv
<1>8. CASE LoaderQuery(l)
  <2> DEFINE r == [set |-> Current, listed |-> writes]
  <2>1. loader' = [loader EXCEPT ![l] = IF Current = NoSet THEN Idle ELSE r]
    BY <1>8 DEF LoaderQuery, Current
  <2>2. Current # NoSet => Listed(r)
    <3>1. Current # NoSet => Covered(Current)
      BY <1>1, CompiledSet DEF Typed, Current
    <3>2. r.set = Current /\ r.listed = writes
      OBVIOUS
    <3> HIDE DEF r
    <3> QED
      BY <1>5, <3>1, <3>2 DEF Listed
  <2>3. Typed' /\ FillVersions'
    BY <1>6, <2>1, <2>2
  <2>4. CacheVersions'
    BY <1>1, <1>2, <1>4, <1>8 DEF LoaderQuery, CacheVersions, Listed, Current
  <2> QED
    BY <1>3, <2>3, <2>4 DEF IInv
<1>9. CASE LoaderStore(l)
  <2>1. Typed' /\ FillVersions'
    BY <1>6, <1>9 DEF LoaderStore
  <2>2. Listed(loader[l])
    BY <1>1, <1>9 DEF LoaderStore, FillVersions
  <2>3. /\ cached'.set = loader[l].set
        /\ cached'.listed = loader[l].listed
        /\ cached'.stored = writes
    BY <1>9 DEF LoaderStore
  <2>4. Listed(cached')
    BY <2>2, <2>3 DEF Listed
  <2>5. CacheVersions'
    BY <1>2, <1>5, <2>2, <2>3, <2>4 DEF CacheVersions, Listed, Current
  <2> QED
    BY <1>3, <2>1, <2>5 DEF IInv
<1> QED
  BY <1>7, <1>8, <1>9

\* The engine process: launch, rules, patterns, a fatal error, a stop.
LEMMA EngineIInv ==
  ASSUME IInv, EngineLaunch \/ EngineLoadRules \/ EngineLoadPatterns
               \/ EngineFatal \/ EngineStops
  PROVE  IInv'
<1>1. Typed /\ FillVersions /\ CacheVersions /\ EngineLoaded
  BY DEF IInv
<1>2. UNCHANGED <<rows, writes, invalidating, cached, loader, lost>>
  BY DEF EngineLaunch, EngineLoadRules, EngineLoadPatterns, EngineFatal, EngineStops
<1>3. FillVersions' /\ CacheVersions'
  BY <1>1, <1>2 DEF FillVersions, CacheVersions, Listed, Current
<1>4. engine = [pc |-> engine.pc, set |-> engine.set,
                steady |-> engine.steady, touched |-> engine.touched]
  BY <1>1 DEF Typed
<1>5. ASSUME NEW p, NEW s, NEW y, NEW u,
             engine' = [pc |-> p, set |-> s, steady |-> y, touched |-> u]
      PROVE  /\ Typed'
             /\ engine'.pc = p /\ engine'.set = s
             /\ engine'.steady = y /\ engine'.touched = u
  BY <1>1, <1>2, <1>5 DEF Typed
<1>6. ASSUME engine' = Down PROVE IInv'
  <2>1. engine' = [pc |-> "down", set |-> NoSet, steady |-> {}, touched |-> {}]
    BY <1>6 DEF Down
  <2>2. Typed' /\ engine'.pc = "down" /\ engine'.set = NoSet
    BY <1>5, <2>1
  <2>3. EngineLoaded'
    BY <2>2 DEF EngineLoaded
  <2> QED
    BY <1>3, <2>2, <2>3 DEF IInv
<1>7. CASE EngineLaunch
  <2>1. DOMAIN ListActive(rows) = ActiveIds(rows)
    BY DEF ListActive, ActiveIds
  <2>2. engine' = [pc |-> "query", set |-> NoSet,
                   steady |-> ActiveIds(rows), touched |-> ActiveIds(rows)]
    BY <1>7, <2>1 DEF EngineLaunch, Down
  <2>3. /\ Typed' /\ engine'.pc = "query" /\ engine'.set = NoSet
        /\ engine'.steady = ActiveIds(rows) /\ engine'.touched = ActiveIds(rows)
    BY <1>5, <2>2
  <2>4. EngineLoaded'
    BY <1>2, <2>3 DEF EngineLoaded
  <2> QED
    BY <1>3, <2>3, <2>4 DEF IInv
<1>8. CASE EngineLoadRules
  <2>1. CASE Current = NoSet
    BY <1>6, <1>8, <2>1 DEF EngineLoadRules, Current
  <2>2. CASE Current # NoSet
    <3>1. engine.pc = "query" /\ engine' = [engine EXCEPT !.pc = "patterns", !.set = Current]
      BY <1>8, <2>2 DEF EngineLoadRules, Current
    <3>2. engine' = [pc |-> "patterns", set |-> Current,
                     steady |-> engine.steady, touched |-> engine.touched]
      BY <1>4, <3>1
    <3>3. /\ Typed' /\ engine'.pc = "patterns" /\ engine'.set = Current
          /\ engine'.steady = engine.steady /\ engine'.touched = engine.touched
      BY <1>5, <3>2
    <3>4. /\ DOMAIN Current.rules = ActiveIds(rows)
          /\ \A id \in DOMAIN Current.rules : ValidateRuleNode(Current.rules[id].node)
          /\ Covered(Current)
      BY <1>1, <2>2, CompiledSet DEF Typed, Current
    <3>5. EngineLoaded'
      BY <1>1, <3>1, <3>3, <3>4 DEF EngineLoaded
    <3> QED
      BY <1>3, <3>3, <3>5 DEF IInv
  <2> QED
    BY <2>1, <2>2
<1>9. CASE EngineLoadPatterns
  <2>1. CASE \A p \in ActivePatterns : p.decodes /\ p.registrable
    <3>1. engine.pc = "patterns" /\ engine' = [engine EXCEPT !.pc = "running"]
      BY <1>9, <2>1 DEF EngineLoadPatterns
    <3>2. engine' = [pc |-> "running", set |-> engine.set,
                     steady |-> engine.steady, touched |-> engine.touched]
      BY <1>4, <3>1
    <3>3. /\ Typed' /\ engine'.pc = "running" /\ engine'.set = engine.set
          /\ engine'.steady = engine.steady /\ engine'.touched = engine.touched
      BY <1>5, <3>2
    <3>4. EngineLoaded'
      BY <1>1, <3>1, <3>3 DEF EngineLoaded
    <3> QED
      BY <1>3, <3>3, <3>4 DEF IInv
  <2>2. CASE ~\A p \in ActivePatterns : p.decodes /\ p.registrable
    BY <1>6, <1>9, <2>2 DEF EngineLoadPatterns
  <2> QED
    BY <2>1, <2>2
<1>10. CASE EngineFatal \/ EngineStops
  BY <1>6, <1>10 DEF EngineFatal, EngineStops
<1> QED
  BY <1>7, <1>8, <1>9, <1>10

\* The invariant holds throughout.
THEOREM Invariant == Spec => []IInv
<1>1. IInv /\ [Next]_vars => IInv'
  <2> SUFFICES ASSUME IInv, [Next]_vars PROVE IInv'
    OBVIOUS
  <2>1. CASE Next
    BY <2>1, RuleAdminIInv, InvalidateIInv, LoaderIInv, EngineIInv DEF Next
  <2>2. CASE UNCHANGED vars
    BY <2>2 DEF vars, IInv, Typed, FillVersions, CacheVersions, EngineLoaded, Listed, Current
  <2> QED
    BY <2>1, <2>2
<1> QED
  BY InitIInv, <1>1, PTL DEF Spec

-----------------------------------------------------------------------------
(* The properties of the run. *)

\* For any interleaving of requests and fills, the cached set is older than the
\* table only while an invalidation is due, when the change fell between the
\* query and the store of that fill, or when its reply was lost.
THEOREM AlwaysStaleOnlyByOverlap == Spec => []StaleOnlyByOverlap
<1>1. IInv => StaleOnlyByOverlap
  <2> SUFFICES ASSUME IInv, cached # NoSet, cached.set # Current
               PROVE  \/ invalidating # {}
                      \/ cached.stored > cached.listed
                      \/ lost > cached.listed
    BY DEF StaleOnlyByOverlap, Current
  <2>1. /\ cached.listed \in Nat
        /\ cached.listed # writes
        /\ cached.stored \in Nat
        /\ cached.listed <= cached.stored
        /\ writes = cached.stored \/ invalidating # {} \/ lost > cached.stored
    BY DEF IInv, CacheVersions, Listed
  <2>2. lost \in Nat /\ writes \in Nat
    BY DEF IInv, Typed
  <2> QED
    BY <2>1, <2>2
<1> QED
  BY <1>1, Invariant, PTL

\* For any requests during its load, a running engine has every rule that was
\* active throughout, none that never was, and no aggregation that validation
\* refuses.
THEOREM AlwaysNothingSkipped == Spec => []NothingSkipped
<1>1. IInv => NothingSkipped
  BY DEF IInv, EngineLoaded, NothingSkipped
<1> QED
  BY <1>1, Invariant, PTL

\* The retention of every set in use reaches as far as its longest window,
\* although keys are told apart by field and window and counted once.
THEOREM AlwaysWindowsCovered == Spec => []WindowsCovered
<1>1. IInv => WindowsCovered
  BY DEF IInv, EngineLoaded, CacheVersions, Listed, Covered, WindowsCovered
<1> QED
  BY <1>1, Invariant, PTL
=============================================================================
