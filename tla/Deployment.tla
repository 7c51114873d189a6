----------------------------- MODULE Deployment -----------------------------
(***************************************************************************)
(* Installing and starting: the entry point installs a batch of modules    *)
(* with all they depend on (ModuleInstaller, AddonLoader, MigrationRunner) *)
(* and then starts the server, which loads what is installed. A module is  *)
(* migrated, recorded and given its data in separate transactions; the     *)
(* process may end between any two, and starts from nothing.               *)
(***************************************************************************)
EXTENDS Integers, Sequences, FiniteSets, SequencesExt

CONSTANTS
  Addons,              \* modules, each with one model
  Depends,             \* module -> modules its manifest names
  EntryPoint,          \* the batch, in order
  Declares(_, _),      \* module, version of the code -> column -> type
  Versions             \* versions of the code

VARIABLES
  code,       \* version of the code that is deployed
  tables,     \* module -> column -> type; no columns, no table
  installed,  \* ir_module: versions of the modules recorded as installed
  seeded,     \* module -> version whose data were seeded, 0 before
  process     \* the process: down, installing or up

deploymentVars == <<code, tables, installed, seeded, process>>

NoColumns == << >>
Down == [op |-> "down"]
ASSUME DeploymentAssumption ==
  /\ Versions \subseteq Nat \ {0} /\ IsFiniteSet(Addons) /\ Depends \in [Addons -> SUBSET Addons]
  /\ EntryPoint \in Seq(Addons)
  /\ \A m \in Addons, v \in Versions : DOMAIN Declares(m, v) # {}

DeploymentInit ==
  /\ code \in Versions
  /\ tables = [m \in Addons |-> NoColumns]
  /\ installed = << >> /\ seeded = [m \in Addons |-> 0]
  /\ process = Down
-----------------------------------------------------------------------------
\* resolve_order: a module after all it depends on.
Closed(S) == \A m \in S : Depends[m] \subseteq S
Closure(m) == {d \in Addons : \A S \in SUBSET Addons : m \in S /\ Closed(S) => d \in S}
Orders(m) ==
  {order \in SetToSeqs(Closure(m)) :
     \A i, j \in DOMAIN order : order[j] \in Depends[order[i]] => j < i}

\* install for each name of the batch in turn; what this run has been through is
\* skipped, and nothing else.
SkipRecorded(m) == m \in process.through \/ m \in DOMAIN installed
Skip(m) == m \in process.through
Start(batch) ==
  /\ process = Down
  /\ process' = [op |-> "next", batch |-> batch, order |-> <<>>, through |-> {}, migrated |-> {}, serves |-> batch = EntryPoint]
  /\ UNCHANGED <<code, tables, installed, seeded>>
Install ==
  /\ process.op = "next" /\ process.order = <<>> /\ process.batch # <<>>
  /\ \E order \in Orders(Head(process.batch)) :
       process' = [process EXCEPT !.batch = Tail(@), !.order = order]
  /\ UNCHANGED <<code, tables, installed, seeded>>
InstallSingle ==
  LET m == Head(process.order)
  IN /\ process.op = "next" /\ process.order # <<>>
     /\ process' = IF Skip(m) THEN [process EXCEPT !.order = Tail(@)] ELSE [process EXCEPT !.op = "migrate"]
     /\ UNCHANGED <<code, tables, installed, seeded>>

\* The columns a table lacks are added; the ones it has are kept.
AddColumns(table, declared) ==
  [c \in DOMAIN table \cup DOMAIN declared |-> IF c \in DOMAIN table THEN table[c] ELSE declared[c]]

\* MigrationRunner.install: the table is made, or given the columns it lacks; a
\* column of another type ends the installation.
Migrate ==
  LET m == Head(process.order)
      declared == Declares(m, code)
      conflict == \E c \in DOMAIN declared \cap DOMAIN tables[m] : declared[c] # tables[m][c]
  IN /\ process.op = "migrate"
     /\ tables' = IF conflict THEN tables ELSE [tables EXCEPT ![m] = AddColumns(@, declared)]
     /\ process' = IF conflict THEN Down
                   ELSE [process EXCEPT !.op = "record", !.migrated = @ \cup {m}]
     /\ UNCHANGED <<code, installed, seeded>>
Record ==
  /\ process.op = "record"
  /\ LET m == Head(process.order)
     IN installed' = [d \in DOMAIN installed \cup {m} |-> IF d = m THEN code ELSE installed[d]]
  /\ process' = [process EXCEPT !.op = "seed"]
  /\ UNCHANGED <<code, tables, seeded>>
\* post_install: data that are there already are left alone.
PostInstall ==
  LET m == Head(process.order)
  IN /\ process.op = "seed"
     /\ seeded' = [seeded EXCEPT ![m] = code]
     /\ process' = [process EXCEPT !.op = "next", !.order = Tail(@), !.through = @ \cup {m}]
     /\ UNCHANGED <<code, tables, installed>>

\* The batch is through: a batch by hand ends, after the entry point's the server
\* loads the modules that are recorded.
LoadInstalled ==
  /\ process.op = "next" /\ process.order = <<>> /\ process.batch = <<>>
  /\ process' = IF process.serves THEN [op |-> "up", models |-> DOMAIN installed] ELSE Down
  /\ UNCHANGED <<code, tables, installed, seeded>>
ProcessEnds == process # Down /\ process' = Down /\ UNCHANGED <<code, tables, installed, seeded>>
Deploy(v) == process = Down /\ v > code /\ code' = v /\ UNCHANGED <<tables, installed, seeded, process>>

DeploymentNext ==
  \/ Start(EntryPoint) \/ \E m \in Addons : Start(<<m>>)
  \/ Install \/ InstallSingle \/ Migrate \/ Record \/ PostInstall \/ LoadInstalled \/ ProcessEnds
  \/ \E v \in Versions : Deploy(v)
DeploymentSpec == DeploymentInit /\ [][DeploymentNext]_deploymentVars
-----------------------------------------------------------------------------
\* Whatever ended early before: a module that is recorded as installed has its table,
\* and all it depends on is installed and was given its data; and when the server is
\* up, all of its batch is there as the deployed code declares it, with its data.
ServesComplete ==
  /\ \A m \in DOMAIN installed :
       /\ tables[m] # NoColumns
       /\ \A d \in Closure(m) \ {m} : d \in DOMAIN installed /\ seeded[d] # 0
  /\ process.op = "up" =>
       \A i \in DOMAIN EntryPoint : \A m \in Closure(EntryPoint[i]) :
         /\ m \in process.models
         /\ seeded[m] = code
         /\ \A c \in DOMAIN Declares(m, code) : c \in DOMAIN tables[m] /\ tables[m][c] = Declares(m, code)[c]
=============================================================================
