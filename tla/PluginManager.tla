--------------------------- MODULE PluginManager ---------------------------
(***************************************************************************)
(* cadgenesis.platform.plugins.PluginManager.  load() activates a plugin   *)
(* after those it depends on, each by a load() of its own; there is no     *)
(* lock, and a plugin is in the table before its activate() returns.  The  *)
(* versions of dependencies are compared by load_all() only.               *)
(***************************************************************************)
EXTENDS Integers, Sequences, FiniteSets

CONSTANTS
  Plugins,
  Callers,        \* threads
  Manifests,      \* what a directory may hold: per plugin, its dependencies and whether it suits this version
  MaxScans,       \* bound: calls of discover()
  MaxUnloads      \* bound: calls of unload()

ASSUME PluginsAssumption ==
  /\ IsFiniteSet(Plugins)
  /\ Manifests \subseteq [Plugins -> [deps : SUBSET Plugins, suits : BOOLEAN]]

VARIABLES
  manifests,   \* what discover() last found
  plugins,     \* those in the table, activated or being activated
  stack,       \* of each thread: the load() calls it is in, the innermost first
  needs,       \* ghost: the dependencies each plugin had when it was activated
  gone,        \* ghost: the plugins unloaded or whose activation failed, since each plugin was begun
  scans, unloads

pluginVars == <<manifests, plugins, stack, needs, gone, scans, unloads>>

\* A call of load(): the dependencies it has yet to look at.
Frame(p) == [plugin |-> p, wants |-> manifests[p].deps, left |-> manifests[p].deps, activating |-> FALSE]
InLoad(c, p) == \E i \in DOMAIN stack[c] : stack[c][i].plugin = p

PluginsInit ==
  /\ manifests \in Manifests
  /\ plugins = {}
  /\ stack = [c \in Callers |-> <<>>]
  /\ needs = [p \in Plugins |-> {}] /\ gone = [p \in Plugins |-> {}]
  /\ scans = 1 /\ unloads = 0

Discover ==
  /\ scans < MaxScans /\ scans' = scans + 1
  /\ manifests' \in Manifests
  /\ UNCHANGED <<plugins, stack, needs, gone, unloads>>

\* load(): nothing is done for a plugin that is in the table already, and a version that
\* does not suit raises.
CanBegin(p) == p \notin plugins /\ manifests[p].suits

Begin(c, p, s) ==
  /\ stack' = [stack EXCEPT ![c] = <<Frame(p)>> \o s]
  /\ gone' = IF \E d \in Callers : InLoad(d, p) THEN gone ELSE [gone EXCEPT ![p] = {}]

LoadPlugin(c) ==
  \E p \in Plugins :
    /\ stack[c] = <<>> /\ CanBegin(p)
    /\ Begin(c, p, <<>>)
    /\ UNCHANGED <<manifests, plugins, needs, scans, unloads>>

Raises(c) == stack' = [stack EXCEPT ![c] = <<>>]

\* A dependency that is not in the table is loaded first.  One that cannot be ends the
\* whole load, and so does a circle of them, by the limit of the recursion.
LoadDependency(c) ==
  /\ stack[c] # <<>>
  /\ \E d \in Head(stack[c]).left :
       LET rest == [stack[c] EXCEPT ![1].left = @ \ {d}] IN
       CASE d \in plugins -> stack' = [stack EXCEPT ![c] = rest] /\ UNCHANGED gone
         [] CanBegin(d) /\ ~InLoad(c, d) -> Begin(c, d, rest)
         [] OTHER -> Raises(c) /\ UNCHANGED gone
  /\ UNCHANGED <<manifests, plugins, needs, scans, unloads>>

Enter(c) ==
  LET f == Head(stack[c]) IN
  /\ plugins' = plugins \cup {f.plugin}
  /\ needs' = [needs EXCEPT ![f.plugin] = f.wants]
  /\ stack' = [stack EXCEPT ![c][1].activating = TRUE]
  /\ UNCHANGED <<manifests, gone, scans, unloads>>

\* Mutant of EnterTable: the last dependency is forgotten.
EnterTableAlone(c) ==
  /\ stack[c] # <<>> /\ Cardinality(Head(stack[c]).left) <= 1 /\ ~Head(stack[c]).activating
  /\ Enter(c)

\* The module is imported and the plugin put into the table.
EnterTable(c) ==
  stack[c] # <<>> /\ Head(stack[c]).left = {} /\ ~Head(stack[c]).activating /\ Enter(c)

Activated(c) ==
  /\ stack[c] # <<>> /\ Head(stack[c]).activating
  /\ stack' = [stack EXCEPT ![c] = Tail(@)]
  /\ UNCHANGED <<manifests, plugins, needs, gone, scans, unloads>>

Leaves(p) ==
  /\ plugins' = plugins \ {p}
  /\ gone' = [q \in Plugins |-> IF q = p THEN gone[q] ELSE gone[q] \cup {p}]

\* activate() raises: the plugin leaves the table, and those loaded for it stay.
ActivationFails(c) ==
  /\ stack[c] # <<>> /\ Head(stack[c]).activating
  /\ Leaves(Head(stack[c]).plugin)
  /\ Raises(c)
  /\ UNCHANGED <<manifests, needs, scans, unloads>>

\* unload(), which asks nobody who depends on the plugin.
UnloadPlugin ==
  \E p \in plugins :
    /\ unloads < MaxUnloads /\ unloads' = unloads + 1
    /\ Leaves(p)
    /\ UNCHANGED <<manifests, stack, needs, scans>>

PluginsNext ==
  \/ Discover \/ UnloadPlugin
  \/ \E c \in Callers : LoadPlugin(c) \/ LoadDependency(c) \/ EnterTable(c) \/ Activated(c) \/ ActivationFails(c)

PluginsSpec == PluginsInit /\ [][PluginsNext]_pluginVars

-----------------------------------------------------------------------------
(* Properties                                                              *)

PluginTypeOK ==
  /\ manifests \in Manifests /\ plugins \subseteq Plugins
  /\ needs \in [Plugins -> SUBSET Plugins] /\ gone \in [Plugins -> SUBSET Plugins]
  /\ \A c \in Callers : Len(stack[c]) <= Cardinality(Plugins)

\* A plugin in the table has every plugin it depends on beside it, except for those that
\* were unloaded or failed to activate since its load() began: another thread's load may
\* have taken a plugin for loaded while that was still being activated.
DependenciesBeside == \A p \in plugins : needs[p] \subseteq plugins \cup gone[p]
=============================================================================
