----------------------------- MODULE RuleStore -----------------------------
(***************************************************************************)
(* The control plane: the rule_strategies table, the HTTP handlers that    *)
(* change it (controller/rule.go, rule_admin.go), the strategy usecase     *)
(* with its in-process cache of the compiled rule set (strategy.go), and   *)
(* an engine process that loads rules and patterns when it starts          *)
(* (cmd/rule-engine-core/main.go) and keeps them until it stops.           *)
(*                                                                         *)
(* A handler is a goroutine: the SQL statement and the invalidation of the *)
(* cache are steps of their own, and so are the query and the store of a   *)
(* cache fill.  Handlers and loaders share one usecase instance, which is  *)
(* what its interface offers; an engine process has an instance of its     *)
(* own, whose cache is empty when the process starts.                      *)
(*                                                                         *)
(* A rule tree is [conds, wellFormed]: its conditions, and whether every   *)
(* node type is known and every NOT has one child.  A condition is         *)
(* [field, aggregate, safe, knownOp, window].                              *)
(***************************************************************************)
EXTENDS Integers, FiniteSets, FiniteSetsExt

CONSTANTS Handler, Loader,  \* goroutines in HTTP handlers, in ListActiveCompiled
          Ids,              \* ids a row may have or a request may name
          Nodes,            \* rule trees of requests and of the seeded rows
          Statuses,         \* status numbers requests carry: nothing restricts them
          Labels,           \* values of the name and description columns
          SeedRows,         \* the rows of the migration
          Patterns,         \* rows of cep_patterns: [id, active, decodes, registrable]
          Unset,            \* a nil field of an update request
          NoWindow,         \* a condition without a window
          Idle, Missed,     \* no fill in progress; one that found nothing cached
          NoSet,            \* no compiled rule set
          MaxWrites,        \* bound: statements on the table
          MaxFaults,        \* bound: failed statements and broken connections
          MaxCrashes        \* bound: engine processes that end

Active == 1   \* RuleStrategyStatusActive

ASSUME BoundsAssumption == {MaxWrites, MaxFaults, MaxCrashes} \subseteq Nat

VARIABLES rows,       \* [id -> [label, node, status]]
          writes,     \* statements executed so far: the table's version
          invalidating, \* handlers between their statement and invalidateCache
          cached,     \* uc.cached: the set, the versions at its query and its store
          loader,     \* [Loader -> Idle, Missed, or the set listed and compiled]
          lost,       \* version of the last statement whose reply was lost
          engine,     \* the engine process
          faults, crashes

vars == <<rows, writes, invalidating, cached, loader, lost, engine, faults, crashes>>
engineVars == <<engine, crashes>>

-----------------------------------------------------------------------------
(* Validation, compilation, windows. *)

\* ValidateRuleNode: aggregate fields name a supported aggregation and an
\* identifier; neither operators nor node types are looked at.
ValidateRuleNode(n) == \A c \in n.conds : c.aggregate => c.safe

Compile(n) == n.wellFormed /\ \A c \in n.conds : c.knownOp

\* TimeWindow.Duration in minutes; a nil window is 0, an unknown unit minutes.
Duration(w) ==
  IF w = NoWindow THEN 0
  ELSE w.value * (CASE w.unit = "hours" -> 60 [] w.unit = "days" -> 1440 [] OTHER -> 1)

MaxMinutes == 153722867   \* what a time.Duration holds: 64-bit nanoseconds

ASSUME WindowAssumption ==
  \A n \in Nodes : \A c \in n.conds : Duration(c.window) \in -MaxMinutes..MaxMinutes

\* The rows of the migration are of the kind the handlers accept.
ASSUME SeedAssumption ==
  /\ SeedRows \in [DOMAIN SeedRows -> [label : Labels, node : Nodes,
                                      status : Statuses \cup {Active}]]
  /\ \A i \in DOMAIN SeedRows : ValidateRuleNode(SeedRows[i].node)

CollectAggregateKeys(n) ==
  {[field |-> c.field, window |-> c.window] : c \in {d \in n.conds : d.aggregate}}

\* The bug of telling keys apart by their field alone.
CacheKey_Bug(k) == k.field

CacheKey(k) == <<k.field, k.window>>

\* CollectUniqueAggregateKeys: one key for each cache key.
CollectUniqueAggregateKeys(keys) ==
  {CHOOSE k \in keys : CacheKey(k) = ck : ck \in {CacheKey(k) : k \in keys}}

MaxWindowFromKeys(keys) == Max({0} \cup {Duration(k.window) : k \in keys})

\* The bug of listing every row.
ListActive_Bug(table) == table

\* repo.List with the status filter.
ListActive(table) == [id \in {i \in DOMAIN table : table[i].status = Active} |-> table[id]]

\* The bug of leaving out the rules that do not compile.
CompileAll_Skip(active) ==
  LET good == {id \in DOMAIN active : Compile(active[id].node)}
  IN [rules |-> [id \in good |-> [label |-> active[id].label, node |-> active[id].node]],
      maxWindow |-> MaxWindowFromKeys(CollectUniqueAggregateKeys(
                      UNION {CollectAggregateKeys(active[id].node) : id \in good}))]

\* The loop of compileAndCache: NoSet when one rule does not compile.
CompileAll(active) ==
  IF \E id \in DOMAIN active : ~Compile(active[id].node) THEN NoSet
  ELSE [rules |-> [id \in DOMAIN active |-> [label |-> active[id].label, node |-> active[id].node]],
        maxWindow |-> MaxWindowFromKeys(CollectUniqueAggregateKeys(
                        UNION {CollectAggregateKeys(active[id].node) : id \in DOMAIN active}))]

-----------------------------------------------------------------------------
Down == [pc |-> "down", set |-> NoSet, steady |-> {}, touched |-> {}]

Init ==
  /\ rows = SeedRows
  /\ writes = 0
  /\ invalidating = {}
  /\ cached = NoSet
  /\ loader = [l \in Loader |-> Idle]
  /\ lost = 0
  /\ engine = Down
  /\ faults = 0
  /\ crashes = 0

-----------------------------------------------------------------------------
(* The handlers.  Parsing and validation look at the request only, so they  *)
(* are one step with the statement; a request that is refused (400 or 500), *)
(* an empty update (200) and the reads change nothing.                      *)

\* Ghost part of a statement: which rules have been active all along, and which
\* at some time, since the engine began to load.
Observe(table) ==
  engine' = IF engine.pc # "query" THEN engine
            ELSE [engine EXCEPT !.steady = @ \cap DOMAIN ListActive(table),
                                !.touched = @ \cup DOMAIN ListActive(table)]

\* The statement is executed and handler h is about to invalidate the cache, or
\* its reply is lost: an error to the caller, who returns before it invalidates.
Execute(h, table) ==
  /\ h \notin invalidating
  /\ writes < MaxWrites
  /\ rows' = table
  /\ writes' = writes + 1
  /\ Observe(table)
  /\ \/ /\ invalidating' = invalidating \cup {h}
        /\ UNCHANGED <<lost, faults>>
     \/ /\ faults < MaxFaults
        /\ faults' = faults + 1
        /\ lost' = writes'
        /\ UNCHANGED invalidating
  /\ UNCHANGED <<cached, loader, crashes>>

\* The serial column: larger than every id given so far (rows are not deleted).
FreshIds == {j \in Ids : \A i \in DOMAIN rows : j > i}

\* Create: validated, active, under a fresh id.
Create(h, label, node) ==
  /\ ValidateRuleNode(node)
  /\ \E id \in FreshIds :
       Execute(h, [i \in DOMAIN rows \cup {id} |->
                     IF i = id THEN [label |-> label, node |-> node, status |-> Active]
                     ELSE rows[i]])

New(value, old) == IF value = Unset THEN old ELSE value

\* Update: the columns the request names; of an unknown id, no row and no error.
Update(h, id, label, node) ==
  /\ node # Unset => ValidateRuleNode(node)
  /\ label # Unset \/ node # Unset
  /\ Execute(h, IF id \in DOMAIN rows
                THEN [rows EXCEPT ![id].label = New(label, @), ![id].node = New(node, @)]
                ELSE rows)

\* The bug of not invalidating after a change of status.
SetStatus_Bug(h, id, status) ==
  /\ writes < MaxWrites
  /\ id \in DOMAIN rows
  /\ rows' = [rows EXCEPT ![id].status = status]
  /\ writes' = writes + 1
  /\ Observe(rows')
  /\ UNCHANGED <<invalidating, cached, loader, lost, faults, crashes>>

\* SetStatus: any status; of an unknown id, no row and no error.
SetStatus(h, id, status) ==
  Execute(h, IF id \in DOMAIN rows THEN [rows EXCEPT ![id].status = status] ELSE rows)

InvalidateCache(h) ==
  /\ h \in invalidating
  /\ cached' = NoSet
  /\ invalidating' = invalidating \ {h}
  /\ UNCHANGED <<rows, writes, loader, lost, engineVars, faults>>

\* The controller's handlers, with any request.
HandleCreate(h) == \E x \in Labels, n \in Nodes : Create(h, x, n)

HandleUpdate(h) ==
  \E id \in Ids, x \in Labels \cup {Unset}, n \in Nodes \cup {Unset} : Update(h, id, x, n)

\* binding:"required" refuses the zero status and nothing else.
HandleSetStatus(h) == \E id \in Ids, s \in Statuses \ {0} : SetStatus(h, id, s)

\* RuleAdminUsecase, which delegates.
RuleAdmin(h) == HandleCreate(h) \/ HandleUpdate(h) \/ HandleSetStatus(h)

-----------------------------------------------------------------------------
(* ListActiveCompiled on the shared instance. *)

\* The load of the pointer finds nil; a hit returns at once.
LoaderMiss(l) ==
  /\ loader[l] = Idle
  /\ cached = NoSet
  /\ loader' = [loader EXCEPT ![l] = Missed]
  /\ UNCHANGED <<rows, writes, invalidating, cached, lost, engineVars, faults>>

\* The query and the compilation; a rule that does not compile ends the call.
LoaderQuery(l) ==
  /\ loader[l] = Missed
  /\ LET set == CompileAll(ListActive(rows)) IN
       loader' = [loader EXCEPT ![l] = IF set = NoSet THEN Idle
                                       ELSE [set |-> set, listed |-> writes]]
  /\ UNCHANGED <<rows, writes, invalidating, cached, lost, engineVars, faults>>

\* The set is stored whatever happened since the query.
LoaderStore(l) ==
  /\ loader[l] \notin {Idle, Missed}
  /\ cached' = [set |-> loader[l].set, listed |-> loader[l].listed, stored |-> writes]
  /\ loader' = [loader EXCEPT ![l] = Idle]
  /\ UNCHANGED <<rows, writes, invalidating, lost, engineVars, faults>>

-----------------------------------------------------------------------------
(* The engine process. *)

\* main up to ListActiveCompiled: its own usecase, with nothing cached.
EngineLaunch ==
  /\ engine.pc = "down"
  /\ engine' = [Down EXCEPT !.pc = "query",
                            !.steady = DOMAIN ListActive(rows),
                            !.touched = DOMAIN ListActive(rows)]
  /\ UNCHANGED <<rows, writes, invalidating, cached, loader, lost, faults, crashes>>

\* ListActiveCompiled: log.Fatal when a rule does not compile.
EngineLoadRules ==
  /\ engine.pc = "query"
  /\ LET set == CompileAll(ListActive(rows)) IN
       engine' = IF set = NoSet THEN Down ELSE [engine EXCEPT !.pc = "patterns", !.set = set]
  /\ UNCHANGED <<rows, writes, invalidating, cached, loader, lost, faults, crashes>>

ActivePatterns == {p \in Patterns : p.active}

\* cep_pattern.ListActive, NewCore and AddPattern: fatal on states that do not
\* decode and on a pattern that AddPattern refuses.
EngineLoadPatterns ==
  /\ engine.pc = "patterns"
  /\ engine' = IF \A p \in ActivePatterns : p.decodes /\ p.registrable
               THEN [engine EXCEPT !.pc = "running"] ELSE Down
  /\ UNCHANGED <<rows, writes, invalidating, cached, loader, lost, faults, crashes>>

\* A query or the connection to the broker fails before the consumer runs.
EngineFatal ==
  /\ engine.pc \in {"query", "patterns"}
  /\ faults < MaxFaults
  /\ engine' = Down
  /\ faults' = faults + 1
  /\ UNCHANGED <<rows, writes, invalidating, cached, loader, lost, crashes>>

\* Run returns, or the process dies.
EngineStops ==
  /\ engine.pc = "running"
  /\ crashes < MaxCrashes
  /\ engine' = Down
  /\ crashes' = crashes + 1
  /\ UNCHANGED <<rows, writes, invalidating, cached, loader, lost, faults>>

Next ==
  \/ \E h \in Handler : RuleAdmin(h) \/ InvalidateCache(h)
  \/ \E l \in Loader : LoaderMiss(l) \/ LoaderQuery(l) \/ LoaderStore(l)
  \/ EngineLaunch \/ EngineLoadRules \/ EngineLoadPatterns \/ EngineFatal \/ EngineStops

Spec == Init /\ [][Next]_vars

\* A supervisor launches the process, which loads or gives up; nothing makes a
\* request, a query of a loader, a failure or a stop happen.
FairSpec ==
  Spec /\ WF_vars(EngineLaunch) /\ WF_vars(EngineLoadRules) /\ WF_vars(EngineLoadPatterns)

-----------------------------------------------------------------------------
(* Properties. *)

\* The cache is "invalidated on rule changes" (strategy.go): a set that is older
\* than the table is cached only while the handler of a change is still on its
\* way to invalidateCache, or because the change came between the query and the
\* store of that very fill, or because the change's reply was lost.
StaleOnlyByOverlap ==
  cached # NoSet /\ cached.set # CompileAll(ListActive(rows)) =>
    \/ invalidating # {}
    \/ cached.stored > cached.listed
    \/ lost > cached.listed

\* compileAndCache fails as a whole rather than leave a rule out: an engine that
\* runs evaluates every rule that was active all through its load, and none
\* that was never active meanwhile.  Nor does any order of requests bring an
\* aggregation into it that computeBucketAggregation would answer with 0.
NothingSkipped ==
  engine.pc = "running" =>
    /\ engine.steady \subseteq DOMAIN engine.set.rules
    /\ DOMAIN engine.set.rules \subseteq engine.touched
    /\ \A id \in DOMAIN engine.set.rules : ValidateRuleNode(engine.set.rules[id].node)

\* MaxWindow bounds how long buckets are kept: it reaches as far as every
\* window of every rule of the set, also when rules look at one field over
\* several windows (RulesExact of Core relies on it).
WindowsCovered ==
  \A s \in ({engine.set} \cup (IF cached = NoSet THEN {} ELSE {cached.set})) \ {NoSet} :
    \A id \in DOMAIN s.rules : \A c \in s.rules[id].node.conds :
      c.aggregate => Duration(c.window) <= s.maxWindow

Loadable ==
  /\ \A id \in DOMAIN rows : rows[id].status = Active => Compile(rows[id].node)
  /\ \A p \in Patterns : p.active => p.decodes /\ p.registrable

\* One active rule that does not compile stops every engine at startup.  It is
\* enough to deactivate or correct it: once what is active stays sound, the
\* engine comes up again and again.
StartsOnceSound == <>[]Loadable => []<>(engine.pc = "running")
=============================================================================
