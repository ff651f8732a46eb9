-------------------------- MODULE Generate_proofs --------------------------
(* Proofs about Generate, for every configuration and every number of runs. *)
EXTENDS GenerateInv, TableSelection_proofs, TLAPS

LEMMA KeysOfClient ==
    ASSUME NEW c, NEW batches, NEW key \in PipelineKeys(c, batches)
    PROVE  key[1] = c
    BY DEF PipelineKeys, PipelineKey

LEMMA InitInv == Init => IInv
<1> SUFFICES ASSUME Init PROVE IInv
  OBVIOUS
<1>1. RunShape /\ Phases
  BY DEF Init, RunShape, Phases, NoRun, Steps, Writing
<1>2. DOMAIN bundle = {} /\ Pipelines = {}
  BY DEF Init, Pipelines
<1>3. SchemaFirst /\ NamesNoted
  BY <1>2 DEF Init, SchemaFirst, NamesNoted, NoRun, InLoop
<1>4. NamesRegistered /\ ClientsCovered
  BY <1>2 DEF Init, NamesRegistered, ClientsCovered, NoRun, NoRegistry, Unwritten, Writing
<1> QED
  BY <1>1, <1>3, <1>4 DEF IInv

LEMMA StartKeeps ==
    ASSUME IInv, NEW client \in Clients \cup {NoClient}, NEW split, NEW target,
                 NEW clean \in BOOLEAN, NEW stdout \in BOOLEAN,
                 Start(client, split, target, clean, stdout)
    PROVE  IInv'
<1>1. RunShape'
  BY DEF IInv, RunShape, Start, Covered, NoRun
<1>2. Phases'
  BY DEF Phases, Start, NoRun, Steps, Writing
<1>3. SchemaFirst'
  BY DEF IInv, SchemaFirst, Start, fileVars, historyVars, InLoop
<1>4. NamesNoted'
  BY DEF NamesNoted, Start, NoRun, Writing, FullRun, Unwritten
<1>5. NamesRegistered'
  BY DEF IInv, NamesRegistered, Start, fileVars, historyVars, Pipelines, Writing
<1>6. ClientsCovered'
  BY DEF IInv, ClientsCovered, Start, fileVars, historyVars, Covered, Writing, FullRun,
      Full, Unwritten
<1> QED
  BY <1>1, <1>2, <1>3, <1>4, <1>5, <1>6 DEF IInv

LEMMA RemoveBundlesKeeps ==
    ASSUME IInv, RemoveBundles
    PROVE  IInv'
<1>1. RunShape'
  BY DEF IInv, RunShape, RemoveBundles
<1>2. Phases'
  BY DEF IInv, Phases, RemoveBundles, Steps, Writing, InLoop
<1>3. SchemaFirst'
  BY DEF IInv, SchemaFirst, RemoveBundles, ToRemove, Restrict, Full, InLoop
<1>4. NamesNoted'
  BY DEF IInv, NamesNoted, RemoveBundles, ToRemove, Restrict, Pipelines, FullRun, Full, InLoop,
      Unwritten
<1>5. NamesRegistered'
  BY DEF IInv, Phases, NamesRegistered, RemoveBundles, Writing
<1>6. ClientsCovered'
  BY DEF IInv, Phases, ClientsCovered, RemoveBundles, ToRemove, Restrict, Writing, FullRun, Full,
      InLoop, Unwritten
<1> QED
  BY <1>1, <1>2, <1>3, <1>4, <1>5, <1>6 DEF IInv

LEMMA RemoveSchemasKeeps ==
    ASSUME IInv, RemoveSchemas
    PROVE  IInv'
<1>1. RunShape'
  BY DEF IInv, RunShape, RemoveSchemas, historyVars
<1>2. Phases'
  BY DEF IInv, Phases, RemoveSchemas, historyVars, Steps, Writing, Full, InLoop
<1>3. SchemaFirst'
  <2>1. /\ pc = "schemas" /\ pc' \in {"registry", "variables"} /\ run' = run /\ bundle' = bundle
        /\ refers' = refers /\ undeleted' = undeleted /\ rekeyed' = rekeyed
    BY DEF RemoveSchemas, historyVars
  <2>2. /\ DOMAIN schemaYml \ ToRemove(DOMAIN schemaYml) \subseteq DOMAIN schemaYml'
        /\ \A c \in DOMAIN schemaYml' : c \in DOMAIN schemaYml => schemaYml'[c] = schemaYml[c]
    BY DEF RemoveSchemas, ToRemove, Restrict
  <2>3. ASSUME NEW c \in DOMAIN bundle \ (undeleted \cup rekeyed)
        PROVE  c \in DOMAIN schemaYml' /\ refers[c].client = schemaYml'[c]
    <3>1. c \in DOMAIN schemaYml /\ refers[c].client = schemaYml[c]
      BY DEF IInv, SchemaFirst
    <3>2. c \notin ToRemove(DOMAIN schemaYml)
      BY <2>1 DEF IInv, SchemaFirst, ToRemove
    <3> QED
      BY <2>2, <3>1, <3>2
  <2>4. metaYml' \in BOOLEAN /\ (~Full => metaYml' = metaYml)
    <3>1. PICK metaStays \in {metaYml, metaYml /\ ~Full} : metaYml' = metaStays
      BY DEF RemoveSchemas
    <3>2. metaYml \in BOOLEAN
      BY DEF IInv, SchemaFirst
    <3> QED
      BY <3>1, <3>2
  <2>5. DOMAIN bundle \ undeleted # {} => metaYml'
    BY <2>1, <2>4 DEF IInv, SchemaFirst, ToRemove
  <2> QED
    BY <2>1, <2>3, <2>4, <2>5 DEF IInv, SchemaFirst, InLoop
<1>4. NamesNoted'
  BY DEF IInv, NamesNoted, RemoveSchemas, historyVars, Pipelines, Writing, FullRun, Full, InLoop,
      Unwritten
<1>5. NamesRegistered'
  BY DEF IInv, NamesRegistered, RemoveSchemas, historyVars, Pipelines, Writing
<1>6. ClientsCovered'
  BY DEF IInv, ClientsCovered, RemoveSchemas, historyVars, Writing, FullRun, Full, Unwritten
<1> QED
  BY <1>1, <1>2, <1>3, <1>4, <1>5, <1>6 DEF IInv

LEMMA RemoveRegistryKeeps ==
    ASSUME IInv, RemoveRegistry
    PROVE  IInv'
<1>1. RunShape'
  BY DEF IInv, RunShape, RemoveRegistry, historyVars
<1>2. Phases'
  BY DEF IInv, Phases, RemoveRegistry, historyVars, Steps, Writing, Full, InLoop
<1>3. SchemaFirst'
  BY DEF IInv, SchemaFirst, RemoveRegistry, historyVars, InLoop
<1>4. NamesNoted'
  BY DEF IInv, NamesNoted, RemoveRegistry, historyVars, Pipelines, Writing, FullRun, Full, InLoop,
      Unwritten
<1>5. NamesRegistered'
  BY DEF IInv, Phases, NamesRegistered, RemoveRegistry, historyVars, Writing
<1>6. ClientsCovered'
  BY DEF IInv, ClientsCovered, RemoveRegistry, historyVars, Writing, FullRun, Full, Unwritten
<1> QED
  BY <1>1, <1>2, <1>3, <1>4, <1>5, <1>6 DEF IInv

LEMMA RemoveStaleDirsKeeps ==
    ASSUME IInv, RemoveStaleDirs
    PROVE  IInv'
<1>1. RunShape'
  BY DEF IInv, RunShape, RemoveStaleDirs, historyVars
<1>2. Phases'
  BY DEF IInv, Phases, RemoveStaleDirs, historyVars, Steps, Writing, InLoop
<1>3. SchemaFirst'
  BY DEF IInv, SchemaFirst, RemoveStaleDirs, historyVars, InLoop
<1>4. NamesNoted'
  BY DEF IInv, NamesNoted, RemoveStaleDirs, historyVars, Pipelines, Writing, FullRun, Full, InLoop,
      Unwritten
<1>5. NamesRegistered'
  BY DEF IInv, NamesRegistered, RemoveStaleDirs, historyVars, Pipelines, Writing
<1>6. ClientsCovered'
  BY DEF IInv, ClientsCovered, RemoveStaleDirs, historyVars, Writing, FullRun, Full, Unwritten
<1> QED
  BY <1>1, <1>2, <1>3, <1>4, <1>5, <1>6 DEF IInv

LEMMA ResolveVariablesKeeps ==
    ASSUME IInv, ResolveVariables
    PROVE  IInv'
<1>1. RunShape'
  <2>1. CASE config.variables
    BY <2>1 DEF IInv, RunShape, ResolveVariables, historyVars
  <2>2. CASE ~config.variables
    <3>1. run' = NoRun /\ edited' = edited
      BY <2>2 DEF ResolveVariables, historyVars
    <3> QED
      BY <3>1 DEF IInv, RunShape, NoRun
  <2> QED
    BY <2>1, <2>2
<1>2. Phases'
  <2>1. CASE config.variables
    BY <2>1 DEF IInv, Phases, ResolveVariables, historyVars, Steps, Writing, InLoop
  <2>2. CASE ~config.variables
    <3>1. pc' = "idle" /\ run' = NoRun
      BY <2>2 DEF ResolveVariables
    <3> QED
      BY <3>1 DEF Phases, NoRun, Steps, Writing
  <2> QED
    BY <2>1, <2>2
<1>3. SchemaFirst'
  BY DEF IInv, SchemaFirst, ResolveVariables, fileVars, historyVars, InLoop
<1>4. NamesNoted'
  BY DEF IInv, NamesNoted, ResolveVariables, fileVars, historyVars, NoRun, Pipelines, Writing,
      FullRun, Full, InLoop, Unwritten
<1>5. NamesRegistered'
  BY DEF IInv, Phases, NamesRegistered, ResolveVariables, fileVars, historyVars, Pipelines
<1>6. ClientsCovered'
  <2>1. CASE config.variables
    BY <2>1 DEF IInv, ClientsCovered, ResolveVariables, fileVars, historyVars, Writing, FullRun,
        Full, Unwritten
  <2>2. CASE ~config.variables
    <3>1. /\ pc = "variables" /\ pc' = "idle" /\ run' = NoRun
          /\ bundle' = bundle /\ last' = last /\ edited' = edited /\ config' = config
          /\ undeleted' = undeleted
      BY <2>2 DEF ResolveVariables, fileVars, historyVars
    <3> QED
      BY <3>1 DEF IInv, Phases, ClientsCovered, NoRun, Full, Writing, FullRun, Unwritten
  <2> QED
    BY <2>1, <2>2
<1> QED
  BY <1>1, <1>2, <1>3, <1>4, <1>5, <1>6 DEF IInv

LEMMA WriteSharedKeeps ==
    ASSUME IInv, WriteShared
    PROVE  IInv'
<1>1. RunShape'
  BY DEF IInv, RunShape, WriteShared, historyVars
<1>2. Phases'
  BY DEF IInv, Phases, WriteShared, historyVars, Steps, Writing, InLoop
<1>3. SchemaFirst'
  BY DEF IInv, SchemaFirst, WriteShared, historyVars
<1>4. NamesNoted'
  BY DEF IInv, NamesNoted, WriteShared, historyVars, Pipelines, Writing, FullRun, Full, InLoop,
      Unwritten
<1>5. NamesRegistered'
  BY DEF IInv, NamesRegistered, WriteShared, historyVars, Pipelines, Writing
<1>6. ClientsCovered'
  BY DEF IInv, ClientsCovered, WriteShared, historyVars, Writing, FullRun, Full, Unwritten
<1> QED
  BY <1>1, <1>2, <1>3, <1>4, <1>5, <1>6 DEF IInv

LEMMA ResolveClientKeeps ==
    ASSUME IInv, NEW c \in Clients, ResolveClient(c)
    PROVE  IInv'
<1>1. RunShape'
  BY DEF IInv, RunShape, ResolveClient, historyVars
<1>2. Phases'
  BY DEF IInv, Phases, ResolveClient, historyVars, Steps, Writing, InLoop
<1>3. SchemaFirst'
  BY DEF IInv, SchemaFirst, ResolveClient, fileVars, historyVars, InLoop
<1>4. NamesNoted'
  BY DEF IInv, NamesNoted, ResolveClient, fileVars, historyVars, Pipelines, Writing, FullRun, Full,
      InLoop, Unwritten
<1>5. NamesRegistered'
  BY DEF IInv, NamesRegistered, ResolveClient, fileVars, historyVars, Pipelines, Writing
<1>6. ClientsCovered'
  <2> DEFINE ok == LoadsOverrides(c) /\ Resolve(run.catalog, config.overrides[c]).ok
             left == run.left \ {c}
  <2>1. /\ run'.left = left /\ run'.clients = run.clients /\ run'.client = run.client
        /\ run'.stdout = run.stdout /\ run'.clean = run.clean
        /\ ok => run'.errors = run.errors
        /\ ~ok => run'.errors
    BY DEF IInv, RunShape, NoRun, ResolveClient
  <2>2. CASE ok /\ ~run.stdout
    <3>1. pc = "next" /\ pc' = "schema" /\ run'.current = c
      BY <2>2 DEF ResolveClient
    <3> QED
      BY <2>1, <2>2, <3>1 DEF IInv, ClientsCovered, ResolveClient, fileVars, historyVars, Writing,
          FullRun, Full, Unwritten
  <2>3. CASE ~(ok /\ ~run.stdout)
    <3>1. pc = "next" /\ pc' = "next"
      BY <2>3 DEF ResolveClient
    <3> QED
      BY <2>1, <2>3, <3>1 DEF IInv, ClientsCovered, ResolveClient, fileVars, historyVars, Writing,
          FullRun, Full, Unwritten
  <2> QED
    BY <2>2, <2>3
<1> QED
  BY <1>1, <1>2, <1>3, <1>4, <1>5, <1>6 DEF IInv

LEMMA WriteSchemaKeeps ==
    ASSUME IInv, WriteSchema
    PROVE  IInv'
<1>1. RunShape'
  BY DEF IInv, RunShape, WriteSchema
<1>2. Phases'
  BY DEF IInv, Phases, WriteSchema, Steps, Writing, InLoop
<1>3. SchemaFirst'
  BY DEF IInv, SchemaFirst, WriteSchema, Put, InLoop
<1>4. NamesNoted'
  BY DEF IInv, NamesNoted, WriteSchema, Pipelines, Writing, FullRun, Full, InLoop,
      Unwritten
<1>5. NamesRegistered'
  BY DEF IInv, NamesRegistered, WriteSchema, Pipelines, Writing
<1>6. ClientsCovered'
  BY DEF IInv, ClientsCovered, WriteSchema, Writing, FullRun, Full, Unwritten
<1> QED
  BY <1>1, <1>2, <1>3, <1>4, <1>5, <1>6 DEF IInv

LEMMA WriteBundleKeeps ==
    ASSUME IInv, WriteBundle
    PROVE  IInv'
<1>1. RunShape'
  BY DEF IInv, RunShape, WriteBundle
<1>2. Phases'
  BY DEF IInv, Phases, WriteBundle, Steps, Writing, InLoop
<1>3. SchemaFirst'
  BY DEF IInv, Phases, SchemaFirst, WriteBundle, Put, InLoop
<1>4. NamesNoted'
  <2> DEFINE batches == SplitTables(run.tables, run.split)
             new == PipelineKeys(run.current, batches)
  <2>1. /\ run'.names = run.names \cup new
        /\ run'.left = run.left /\ run'.client = run.client /\ run'.clean = run.clean
        /\ run'.stdout = run.stdout
        /\ pc = "bundle" /\ pc' = "script"
    BY DEF WriteBundle
  <2>2. run.current \notin run.left /\ \A key \in run.names : key[1] # run.current
    BY <2>1 DEF IInv, NamesNoted, Unwritten
  <2>3. /\ DOMAIN bundle' = DOMAIN bundle \cup {run.current}
        /\ bundle'[run.current] = batches
        /\ \A d \in DOMAIN bundle \ {run.current} : bundle'[d] = bundle[d]
    BY DEF WriteBundle, Put
  <2>4. new \subseteq Pipelines'
    BY <2>3 DEF Pipelines
  <2>5. run.names \subseteq Pipelines'
    <3> SUFFICES ASSUME NEW key \in run.names PROVE key \in Pipelines'
      OBVIOUS
    <3>1. PICK d \in DOMAIN bundle : key \in PipelineKeys(d, bundle[d])
      BY DEF IInv, NamesNoted, Pipelines
    <3>2. d # run.current
      BY <2>2, <3>1, KeysOfClient
    <3> QED
      BY <2>3, <3>1, <3>2 DEF Pipelines
  <2>6. Pipelines' \subseteq Pipelines \cup new
    BY <2>3 DEF Pipelines
  <2>7. \A key \in new : key[1] = run.current
    BY KeysOfClient
  <2>8. FullRun => FullRun /\ pc # "bundles"
    BY <2>1
  <2>9. FullRun' => FullRun
    BY <2>1 DEF FullRun, Full, Writing
  <2>10. undeleted' = undeleted \ {run.current}
    BY DEF WriteBundle
  <2>11. \A key \in run'.names : key[1] \notin run'.left \cup undeleted'
    BY <2>1, <2>2, <2>7, <2>10 DEF IInv, NamesNoted
  <2>12. ASSUME FullRun', NEW c \in DOMAIN bundle' \ undeleted'
         PROVE  PipelineKeys(c, bundle'[c]) \subseteq run'.names
    BY <2>1, <2>3, <2>8, <2>9, <2>10, <2>12 DEF IInv, NamesNoted
  <2> QED
    BY <2>1, <2>4, <2>5, <2>11, <2>12 DEF NamesNoted, InLoop, Unwritten
<1>5. NamesRegistered'
  BY DEF IInv, Phases, NamesRegistered, WriteBundle, Writing
<1>6. ClientsCovered'
  BY DEF IInv, Phases, NamesNoted, ClientsCovered, WriteBundle, Put, Writing,
      FullRun, Full, Unwritten
<1> QED
  BY <1>1, <1>2, <1>3, <1>4, <1>5, <1>6 DEF IInv

LEMMA WriteScriptKeeps ==
    ASSUME IInv, WriteScript
    PROVE  IInv'
<1>1. RunShape'
  BY DEF IInv, RunShape, WriteScript, NoRun
<1>2. Phases'
  BY DEF IInv, RunShape, Phases, WriteScript, NoRun, Steps, Writing, InLoop
<1>3. SchemaFirst'
  BY DEF IInv, Phases, SchemaFirst, WriteScript, InLoop
<1>4. NamesNoted'
  <2>1. /\ run'.names = run.names /\ run'.left = run.left /\ run'.client = run.client
        /\ run'.clean = run.clean /\ run'.stdout = run.stdout
        /\ pc = "script" /\ pc' \in {"script", "next"}
        /\ bundle' = bundle
    BY DEF IInv, RunShape, NoRun, WriteScript
  <2>2. Pipelines' = Pipelines
    BY <2>1 DEF Pipelines
  <2>3. undeleted' = undeleted
    BY DEF WriteScript
  <2> QED
    BY <2>1, <2>2, <2>3 DEF IInv, NamesNoted, InLoop, Unwritten, FullRun, Full, Writing
<1>5. NamesRegistered'
  BY DEF IInv, Phases, NamesRegistered, WriteScript, Writing
<1>6. ClientsCovered'
  BY DEF IInv, RunShape, ClientsCovered, WriteScript, NoRun, Writing, FullRun, Full,
      Unwritten
<1> QED
  BY <1>1, <1>2, <1>3, <1>4, <1>5, <1>6 DEF IInv

LEMMA FinishKeeps ==
    ASSUME IInv, Finish
    PROVE  IInv'
<1>1. RunShape'
  BY DEF IInv, RunShape, Finish, NoRun
<1>2. Phases'
  BY DEF Phases, Finish, NoRun, Steps, Writing
<1>3. SchemaFirst'
  BY DEF IInv, SchemaFirst, Finish, InLoop
<1>4. NamesNoted'
  BY DEF NamesNoted, Finish, NoRun, FullRun
<1>5. NamesRegistered'
  BY DEF IInv, NamesNoted, NamesRegistered, Finish, NewRegistry, Pipelines, Writing,
      FullRun
<1>6. ClientsCovered'
  BY DEF IInv, ClientsCovered, Finish, NoRun, Writing, FullRun, Unwritten
<1> QED
  BY <1>1, <1>2, <1>3, <1>4, <1>5, <1>6 DEF IInv

LEMMA AbortKeeps ==
    ASSUME IInv, Abort
    PROVE  IInv'
<1>1. RunShape'
  BY DEF IInv, RunShape, Abort, historyVars, NoRun
<1>2. Phases'
  BY DEF Phases, Abort, NoRun, Steps, Writing
<1>3. SchemaFirst'
  BY DEF IInv, SchemaFirst, Abort, fileVars, historyVars, InLoop
<1>4. NamesNoted'
  BY DEF NamesNoted, Abort, NoRun, FullRun
<1>5. NamesRegistered'
  BY DEF IInv, Phases, NamesRegistered, Abort, fileVars, historyVars, Pipelines
<1>6. ClientsCovered'
  BY DEF IInv, Phases, ClientsCovered, Abort, fileVars, historyVars, NoRun, Writing,
      FullRun, Unwritten
<1> QED
  BY <1>1, <1>2, <1>3, <1>4, <1>5, <1>6 DEF IInv

LEMMA EditKeeps ==
    ASSUME IInv, Edit
    PROVE  IInv'
<1>1. RunShape'
  BY DEF IInv, RunShape, Edit
<1>2. Phases'
  BY DEF IInv, Phases, Edit, Writing, Full, InLoop
<1>3. SchemaFirst'
  BY DEF IInv, SchemaFirst, Edit, fileVars, historyVars, ToRemove, Full, InLoop
<1>4. NamesNoted'
  BY DEF IInv, NamesNoted, Edit, fileVars, historyVars, Pipelines, Writing, FullRun, Full, InLoop,
      Unwritten
<1>5. NamesRegistered'
  BY DEF IInv, NamesRegistered, Edit, fileVars, historyVars, Pipelines, Writing
<1>6. ClientsCovered'
  BY DEF IInv, ClientsCovered, Edit, fileVars, historyVars, Writing, FullRun, Full, Unwritten
<1> QED
  BY <1>1, <1>2, <1>3, <1>4, <1>5, <1>6 DEF IInv

LEMMA StepInv == IInv /\ [Next]_vars => IInv'
<1> SUFFICES ASSUME IInv, [Next]_vars PROVE IInv'
  OBVIOUS
<1>1. CASE UNCHANGED vars
  BY <1>1 DEF IInv, RunShape, Phases, SchemaFirst, NamesNoted, NamesRegistered,
      ClientsCovered, Writing, FullRun, Full, InLoop, ToRemove, Unwritten, Pipelines, vars,
      fileVars, historyVars
<1>2. CASE \E client \in Clients \cup {NoClient}, clean, stdout \in BOOLEAN :
               \E split, target : Start(client, split, target, clean, stdout)
  BY <1>2, StartKeeps
<1>3. CASE \E c \in Clients : ResolveClient(c)
  BY <1>3, ResolveClientKeeps
<1>4. CASE RemoveBundles \/ RemoveSchemas \/ RemoveRegistry \/ RemoveStaleDirs
  BY <1>4, RemoveBundlesKeeps, RemoveSchemasKeeps, RemoveRegistryKeeps, RemoveStaleDirsKeeps
<1>5. CASE ResolveVariables \/ WriteShared \/ WriteSchema \/ WriteBundle \/ WriteScript
  BY <1>5, ResolveVariablesKeeps, WriteSharedKeeps, WriteSchemaKeeps, WriteBundleKeeps,
     WriteScriptKeeps
<1>6. CASE Finish \/ Abort \/ Edit
  BY <1>6, FinishKeeps, AbortKeeps, EditKeeps
<1> QED
  BY <1>1, <1>2, <1>3, <1>4, <1>5, <1>6 DEF Next

LEMMA AlwaysInv == Spec => []IInv
    BY InitInv, StepInv, PTL DEF Spec

-----------------------------------------------------------------------------

\* Whichever run is interrupted where, and whatever suffix each was told, the tree defines
\* the schema resources that a pipeline file made for the metadata schema's usual name
\* refers to, unless the file could not be removed or its client's schema has been written
\* under another key since (the order of the clean and of the writes in _cmd_generate).
THEOREM SchemasAlwaysThere == Spec => []SchemaOutlivesBundle
<1>1. IInv => SchemaOutlivesBundle
  BY DEF IInv, SchemaFirst, SchemaOutlivesBundle, DependsOn, Schemas
<1> QED
  BY <1>1, AlwaysInv, PTL

\* The registry a finished run leaves names only pipelines of the bundle
\* (write_pipeline_name_registry after the loop).
THEOREM NamesAreDeployed == Spec => []RegisteredExists
<1>1. IInv => RegisteredExists
  BY DEF IInv, NamesRegistered, RegisteredExists, Writing
<1> QED
  BY <1>1, AlwaysInv, PTL

\* After a full run with a clean the registry names all of them, except those in files
\* that _unlink_generated could not remove.
THEOREM AllAreRegistered == Spec => []FullRunRegistersAll
<1>1. IInv => FullRunRegistersAll
  BY DEF IInv, NamesRegistered, FullRunRegistersAll, Writing
<1> QED
  BY <1>1, AlwaysInv, PTL

\* A full run with a clean that exits with 0, with no file of the configuration edited
\* since it began, leaves pipelines of exactly the active clients, except for files that
\* _unlink_generated could not remove.
THEOREM SuccessCoversClients == Spec => []SuccessIsComplete
<1>1. IInv => SuccessIsComplete
  BY DEF IInv, ClientsCovered, SuccessIsComplete, Writing
<1> QED
  BY <1>1, AlwaysInv, PTL

-----------------------------------------------------------------------------
(* What the files contain *)

LEMMA ConfigTyped ==
    ASSUME FilesTyped
    PROVE  /\ config.active \subseteq Clients /\ IsCatalog(config.catalog)
           /\ \A c \in Clients : config.overrides[c] \in OverrideSets
    BY GenerateAssumption DEF FilesTyped

LEMMA ScriptKindsListed ==
    /\ Len(ScriptKinds) = 4
    /\ \A i \in 1..4 : ScriptKinds[i] \in ToSet(ScriptKinds)
    /\ \A k \in ToSet(ScriptKinds) : \E i \in 1..4 : k = ScriptKinds[i]
    /\ \A i, j \in 1..4 : i # j => ScriptKinds[i] # ScriptKinds[j]
    BY DEF ScriptKinds, ToSet

LEMMA NoRunTyped ==
    ASSUME run' = NoRun, pc' = "idle"
    PROVE  RunTyped'
<1>1. DOMAIN NoRun.catalog = {}
  BY DEF NoRun
<1>2. IsCatalog(run'.catalog)
  BY <1>1, FS_EmptySet DEF NoRun, IsCatalog
<1> QED
  BY <1>2, ScriptKindsListed DEF RunTyped, NoRun, InHand

LEMMA InitContent == Init => ContentInv
<1> SUFFICES ASSUME Init PROVE ContentInv
  OBVIOUS
<1>1. DOMAIN bundle = {}
  BY DEF Init
<1>2. RunTyped
  <2>1. DOMAIN NoRun.catalog = {}
    BY DEF NoRun
  <2>2. IsCatalog(run.catalog)
    BY <2>1, FS_EmptySet DEF Init, NoRun, IsCatalog
  <2> QED
    BY <2>2, ScriptKindsListed DEF Init, RunTyped, NoRun, InHand
<1>3. FilesTyped
  <2>1. \A k \in DOMAIN scripts : DOMAIN scripts[k] = {}
    BY DEF Init
  <2> QED
    BY <1>1, <2>1, GenerateAssumption DEF Init, FilesTyped, NoRegistry
<1>4. SplitFiles /\ ScriptsFollow /\ MadeFromFiles
  BY <1>1 DEF Init, SplitFiles, ScriptsFollow, MadeFromFiles, Writing, FullRun, Fresh
<1> QED
  BY <1>2, <1>3, <1>4 DEF ContentInv

\* What a step that leaves the files alone keeps.
LEMMA SplitFilesKept ==
    ASSUME SplitFiles, UNCHANGED bundle
    PROVE  SplitFiles'
    BY DEF SplitFiles

LEMMA ScriptsKept ==
    ASSUME ScriptsFollow, UNCHANGED <<bundle, scripts, torn, undeleted>>,
           pc' # "script" \/ UNCHANGED <<pc, run>>
    PROVE  ScriptsFollow'
    BY DEF ScriptsFollow, Lists, TablesOf

LEMMA StartKeepsContent ==
    ASSUME IInv, ContentInv, NEW client \in Clients \cup {NoClient},
           NEW split, NEW target, NEW clean \in BOOLEAN, NEW stdout \in BOOLEAN,
           Start(client, split, target, clean, stdout)
    PROVE  ContentInv'
<1>1. RunTyped'
  <2>1. Covered(client) \subseteq Clients /\ IsCatalog(config.catalog)
    BY ConfigTyped DEF ContentInv, Covered
  <2> QED
    BY <2>1, ScriptKindsListed DEF Start, RunTyped, NoRun, InHand
<1>2. FilesTyped'
  BY DEF ContentInv, FilesTyped, Start, fileVars, historyVars
<1>3. SplitFiles'
  BY SplitFilesKept DEF ContentInv, Start, fileVars, historyVars
<1>4. ScriptsFollow'
  BY ScriptsKept DEF ContentInv, Start, fileVars, historyVars
<1>5. MadeFromFiles'
  BY DEF ContentInv, MadeFromFiles, Fresh, Writing, FullRun, InHand, Ready,
      LoadsOverrides, Resolved, Start, fileVars, historyVars
<1> QED
  BY <1>1, <1>2, <1>3, <1>4, <1>5 DEF ContentInv

LEMMA ResolveClientKeepsContent ==
    ASSUME IInv, ContentInv, NEW c \in Clients, ResolveClient(c)
    PROVE  ContentInv'
<1> DEFINE res == Resolve(run.catalog, config.overrides[c])
           ok == LoadsOverrides(c) /\ res.ok
           left == run.left \ {c}
<1>1. IsCatalog(run.catalog) /\ config.overrides[c] \in OverrideSets
  BY ConfigTyped DEF ContentInv, RunTyped
<1>2. res.ok => TableMap(res.tables)
  BY <1>1, ResolveType
<1>3. /\ run'.left = left /\ run'.clients = run.clients /\ run'.client = run.client
      /\ run'.catalog = run.catalog /\ run'.stdout = run.stdout /\ run'.clean = run.clean
      /\ run'.names = run.names /\ run'.script = run.script
      /\ pc = "next" /\ c \in run.left
  BY DEF ResolveClient
<1>4. CASE ok /\ ~run.stdout
  <2>1. pc' = "schema" /\ run'.current = c /\ run'.tables = res.tables
    BY <1>4 DEF ResolveClient
  <2> HIDE DEF res
  <2>2. RunTyped'
    BY <1>2, <1>3, <1>4, <2>1, GenerateAssumption DEF ContentInv, RunTyped
  <2>3. FilesTyped'
    BY DEF ContentInv, FilesTyped, ResolveClient, fileVars, historyVars
  <2>4. SplitFiles'
    BY SplitFilesKept DEF ContentInv, ResolveClient, fileVars, historyVars
  <2>5. ScriptsFollow'
    BY <2>1, ScriptsKept DEF ContentInv, ResolveClient, fileVars, historyVars
  <2>6. MadeFromFiles'
    <3>1. /\ config' = config /\ bundle' = bundle /\ last' = last /\ edited' = edited
          /\ undeleted' = undeleted
      BY DEF ResolveClient, fileVars, historyVars
    <3> QED
      BY <1>3, <1>4, <2>1, <3>1 DEF ContentInv, MadeFromFiles, Fresh, Writing, FullRun,
          Full, Ready, LoadsOverrides, Resolved, res
  <2> QED
    BY <2>2, <2>3, <2>4, <2>5, <2>6 DEF ContentInv
<1>5. CASE ~(ok /\ ~run.stdout)
  <2>1. pc' = "next" /\ run'.current = NoClient
    BY <1>5 DEF ResolveClient
  <2> HIDE DEF res
  <2>2. RunTyped'
    BY <1>3, <2>1 DEF ContentInv, RunTyped, InHand
  <2>3. FilesTyped'
    BY DEF ContentInv, FilesTyped, ResolveClient, fileVars, historyVars
  <2>4. SplitFiles'
    BY SplitFilesKept DEF ContentInv, ResolveClient, fileVars, historyVars
  <2>5. ScriptsFollow'
    BY <2>1, ScriptsKept DEF ContentInv, ResolveClient, fileVars, historyVars
  <2>6. MadeFromFiles'
    <3>1. /\ config' = config /\ bundle' = bundle /\ last' = last /\ edited' = edited
          /\ undeleted' = undeleted
      BY DEF ResolveClient, fileVars, historyVars
    <3> QED
      BY <1>3, <2>1, <3>1 DEF ContentInv, MadeFromFiles, Fresh, Writing, FullRun, Full,
          InHand, Ready, LoadsOverrides, Resolved
  <2> QED
    BY <2>2, <2>3, <2>4, <2>5, <2>6 DEF ContentInv
<1> QED
  BY <1>4, <1>5

LEMMA WriteBundleKeepsContent ==
    ASSUME IInv, ContentInv, WriteBundle
    PROVE  ContentInv'
<1> DEFINE batches == SplitTables(run.tables, run.split)
<1>1. /\ run.current \in Clients /\ TableMap(run.tables)
      /\ pc = "bundle" /\ pc' = "script"
  BY DEF ContentInv, RunTyped, InHand, WriteBundle
<1>2. Partition(run.tables, batches)
  BY <1>1, SplitIsPartition
<1>3. /\ run'.names = run.names \cup PipelineKeys(run.current, batches)
      /\ run'.script = 1 /\ run'.left = run.left /\ run'.clients = run.clients
      /\ run'.client = run.client /\ run'.current = run.current
      /\ run'.tables = run.tables /\ run'.catalog = run.catalog
      /\ run'.stdout = run.stdout /\ run'.clean = run.clean
      /\ torn' = torn \cup {run.current} /\ undeleted' = undeleted \ {run.current}
  BY DEF WriteBundle
<1>4. /\ DOMAIN bundle' = DOMAIN bundle \cup {run.current}
      /\ bundle'[run.current] = batches
      /\ \A d \in DOMAIN bundle \ {run.current} : bundle'[d] = bundle[d]
  BY DEF WriteBundle, Put
<1> HIDE DEF batches
<1>5. DOMAIN batches \subseteq Nat /\ TablesOf(batches) = DOMAIN run.tables
  BY <1>2 DEF Partition, TablesOf
<1>6. RunTyped'
  <2>1. PipelineKeys(run.current, batches) \subseteq Clients \X Nat
    BY <1>1, <1>5 DEF PipelineKeys, PipelineKey
  <2> QED
    BY <1>1, <1>3, <2>1, ScriptKindsListed DEF ContentInv, RunTyped, InHand
<1>7. FilesTyped'
  BY <1>1, <1>3, <1>4 DEF ContentInv, FilesTyped, WriteBundle
<1>8. SplitFiles'
  BY <1>2, <1>4 DEF ContentInv, SplitFiles, Partition
<1>9. ScriptsFollow'
  BY <1>1, <1>3, <1>4, <1>5 DEF ContentInv, ScriptsFollow, Lists, WriteBundle
<1>10. MadeFromFiles'
  BY <1>1, <1>3, <1>4, <1>5 DEF IInv, Phases, ContentInv, MadeFromFiles, Fresh, Writing,
      FullRun, Full, InHand, Ready, LoadsOverrides, Resolved, WriteBundle
<1> QED
  BY <1>6, <1>7, <1>8, <1>9, <1>10 DEF ContentInv

LEMMA WriteScriptKeepsContent ==
    ASSUME IInv, ContentInv, WriteScript
    PROVE  ContentInv'
<1> DEFINE kind == ScriptKinds[run.script]
<1>1. /\ run.current \in Clients /\ TableMap(run.tables) /\ pc = "script"
      /\ run.script \in 1..4 /\ kind \in DOMAIN scripts
      /\ DOMAIN scripts = ToSet(ScriptKinds)
  BY ScriptKindsListed DEF ContentInv, RunTyped, FilesTyped, InHand, WriteScript
<1>2. /\ DOMAIN scripts' = DOMAIN scripts
      /\ scripts'[kind] = Put(scripts[kind], run.current, DOMAIN run.tables)
      /\ \A k \in DOMAIN scripts \ {kind} : scripts'[k] = scripts[k]
  BY <1>1 DEF WriteScript, TableList
<1>3. /\ run.current \in DOMAIN scripts'[kind]
      /\ scripts'[kind][run.current] = DOMAIN run.tables
      /\ DOMAIN scripts'[kind] = DOMAIN scripts[kind] \cup {run.current}
      /\ \A d \in DOMAIN scripts[kind] \ {run.current} : scripts'[kind][d] = scripts[kind][d]
  BY <1>2 DEF Put
<1>4. /\ run'.names = run.names /\ run'.left = run.left /\ run'.clients = run.clients
      /\ run'.client = run.client /\ run'.catalog = run.catalog
      /\ run'.stdout = run.stdout /\ run'.clean = run.clean
      /\ config' = config /\ bundle' = bundle /\ last' = last /\ edited' = edited
      /\ undeleted' = undeleted
  BY DEF IInv, RunShape, NoRun, WriteScript
<1>5. \/ /\ run.script < 4 /\ run'.script = run.script + 1 /\ pc' = pc /\ torn' = torn
         /\ run'.current = run.current /\ run'.tables = run.tables
      \/ /\ run.script = 4 /\ run'.script = 1 /\ pc' = "next" /\ torn' = torn \ {run.current}
         /\ run'.current = NoClient
  <2>1. CASE run.script < 4
    BY <2>1, ScriptKindsListed DEF IInv, RunShape, NoRun, WriteScript
  <2>2. CASE ~(run.script < 4)
    <3>1. run' = [run EXCEPT !.current = NoClient, !.tables = <<>>, !.script = 1]
          /\ pc' = "next" /\ torn' = torn \ {run.current}
      BY <2>2, ScriptKindsListed DEF WriteScript
    <3> QED
      BY <1>1, <2>2, <3>1 DEF NoRun
  <2> QED
    BY <2>1, <2>2
<1>6. FilesTyped'
  <2>1. \A k \in DOMAIN scripts' : DOMAIN scripts'[k] \subseteq Clients
    BY <1>1, <1>2, <1>3 DEF ContentInv, FilesTyped
  <2> QED
    BY <1>2, <1>4, <1>5, <2>1 DEF ContentInv, FilesTyped, WriteScript
<1> HIDE DEF kind
<1>7. RunTyped'
  BY <1>1, <1>4, <1>5, ScriptKindsListed DEF ContentInv, RunTyped, InHand
<1>8. SplitFiles'
  BY <1>4 DEF ContentInv, SplitFiles
<1>9. ScriptsFollow'
  <2> DEFINE Written(k) == /\ run.current \in DOMAIN scripts'[k]
                           /\ scripts'[k][run.current] = DOMAIN run.tables
  <2>1. ASSUME NEW d \in DOMAIN bundle \ (torn \cup undeleted), d # run.current,
               NEW k \in DOMAIN scripts
        PROVE  d \in DOMAIN scripts'[k] /\ scripts'[k][d] = TablesOf(bundle[d])
    BY <1>2, <1>3, <2>1 DEF ContentInv, ScriptsFollow, Lists
  <2>2. \A i \in 1..(run.script - 1) : Written(ScriptKinds[i])
    <3>1. \A i \in 1..(run.script - 1) :
             /\ ScriptKinds[i] \in DOMAIN scripts \ {kind}
             /\ Lists(ScriptKinds[i], run.current, DOMAIN run.tables)
      BY <1>1, ScriptKindsListed DEF ContentInv, ScriptsFollow, kind
    <3> QED
      BY <1>2, <3>1 DEF Lists
  <2>3. \A i \in 1..run.script : Written(ScriptKinds[i])
    <3>1. \A i \in 1..run.script : i \in 1..(run.script - 1) \/ i = run.script
      BY <1>1
    <3> QED
      BY <1>3, <2>2, <3>1 DEF kind
  <2>4. run.current \in (DOMAIN bundle \cap torn) \ undeleted
        /\ TablesOf(bundle[run.current]) = DOMAIN run.tables
    BY <1>1 DEF ContentInv, ScriptsFollow
  <2>5. CASE run.script < 4
    <3>1. /\ run'.script = run.script + 1 /\ pc' = pc /\ torn' = torn
          /\ run'.current = run.current /\ run'.tables = run.tables
      BY <1>5, <2>5
    <3>2. run'.script - 1 = run.script
      BY <1>1, <3>1
    <3> QED
      BY <1>2, <1>4, <2>1, <2>3, <2>4, <3>1, <3>2 DEF ScriptsFollow, Lists
  <2>6. CASE run.script = 4
    <3>1. pc' = "next" /\ torn' = torn \ {run.current}
      BY <1>5, <2>6
    <3>2. \A k \in DOMAIN scripts : Written(k)
      BY <1>1, <2>3, <2>6, ScriptKindsListed
    <3>3. ASSUME NEW d \in DOMAIN bundle \ (torn' \cup undeleted), NEW k \in DOMAIN scripts
          PROVE  d \in DOMAIN scripts'[k] /\ scripts'[k][d] = TablesOf(bundle[d])
      BY <2>1, <2>4, <3>1, <3>2
    <3> QED
      BY <1>2, <1>4, <3>1, <3>3 DEF ScriptsFollow, Lists
  <2> QED
    BY <1>1, <2>5, <2>6
<1>10. MadeFromFiles'
  BY <1>1, <1>4, <1>5 DEF ContentInv, MadeFromFiles, Fresh, Writing, FullRun, Full,
      InHand, Ready, LoadsOverrides, Resolved
<1> QED
  BY <1>6, <1>7, <1>8, <1>9, <1>10 DEF ContentInv

LEMMA RemoveBundlesKeepsContent ==
    ASSUME IInv, ContentInv, RemoveBundles
    PROVE  ContentInv'
<1>1. RunTyped'
  BY DEF ContentInv, RunTyped, InHand, RemoveBundles
<1>2. FilesTyped'
  BY GenerateAssumption DEF ContentInv, FilesTyped, ToRemove, Unlink, Restrict, RemoveBundles
<1>3. SplitFiles'
  <2>1. DOMAIN bundle' \subseteq DOMAIN bundle /\ \A c \in DOMAIN bundle' : bundle'[c] = bundle[c]
    BY DEF RemoveBundles, ToRemove, Restrict
  <2> QED
    BY <2>1 DEF ContentInv, SplitFiles
<1>4. ScriptsFollow'
  <2>1. DOMAIN bundle' \subseteq DOMAIN bundle /\ \A c \in DOMAIN bundle' : bundle'[c] = bundle[c]
    BY DEF RemoveBundles, ToRemove, Restrict
  <2>2. scripts' = scripts /\ torn' = torn /\ pc' # "script"
    BY DEF RemoveBundles
  <2>3. DOMAIN bundle' \cap undeleted \subseteq undeleted'
    BY DEF RemoveBundles, ToRemove, Restrict
  <2>4. ASSUME NEW c \in DOMAIN bundle' \ (torn \cup undeleted'), NEW k \in DOMAIN scripts
        PROVE  c \in DOMAIN scripts[k] /\ scripts[k][c] = TablesOf(bundle'[c])
    BY <2>1, <2>3 DEF ContentInv, ScriptsFollow, Lists
  <2> QED
    BY <2>2, <2>4 DEF ScriptsFollow, Lists
<1>5. MadeFromFiles'
  BY DEF IInv, Phases, ContentInv, MadeFromFiles, Fresh, Writing, FullRun, Full, InHand,
      ToRemove, Restrict, RemoveBundles
<1> QED
  BY <1>1, <1>2, <1>3, <1>4, <1>5 DEF ContentInv

LEMMA RemoveSchemasKeepsContent ==
    ASSUME IInv, ContentInv, RemoveSchemas
    PROVE  ContentInv'
<1>1. RunTyped'
  BY DEF ContentInv, RunTyped, InHand, RemoveSchemas, historyVars
<1>2. FilesTyped'
  BY GenerateAssumption DEF ContentInv, FilesTyped, ToRemove, Unlink, Restrict,
     RemoveSchemas, historyVars
<1>3. SplitFiles'
  BY SplitFilesKept DEF ContentInv, RemoveSchemas, historyVars
<1>4. ScriptsFollow'
  BY ScriptsKept DEF ContentInv, RemoveSchemas, historyVars
<1>5. MadeFromFiles'
  BY DEF ContentInv, MadeFromFiles, Fresh, Writing, FullRun, Full, InHand, Ready,
      LoadsOverrides, Resolved, historyVars, RemoveSchemas
<1> QED
  BY <1>1, <1>2, <1>3, <1>4, <1>5 DEF ContentInv

LEMMA RemoveRegistryKeepsContent ==
    ASSUME IInv, ContentInv, RemoveRegistry
    PROVE  ContentInv'
<1>1. RunTyped'
  BY DEF ContentInv, RunTyped, InHand, RemoveRegistry, historyVars
<1>2. FilesTyped'
  <2>1. registry' \in {registry, NoRegistry} /\ faults' \in 0..MaxFaults
    BY GenerateAssumption DEF ContentInv, FilesTyped, Unlink, RemoveRegistry
  <2>2. /\ DOMAIN registry' = DOMAIN NoRegistry
        /\ registry'.written \in BOOLEAN /\ registry'.names \subseteq Clients \X Nat
    <3>1. CASE registry' = registry
      BY <3>1 DEF ContentInv, FilesTyped
    <3>2. CASE registry' = NoRegistry
      BY <3>2 DEF NoRegistry
    <3> QED
      BY <2>1, <3>1, <3>2
  <2> QED
    BY <2>1, <2>2 DEF ContentInv, FilesTyped, RemoveRegistry, historyVars
<1>3. SplitFiles'
  BY SplitFilesKept DEF ContentInv, RemoveRegistry, historyVars
<1>4. ScriptsFollow'
  BY ScriptsKept DEF ContentInv, RemoveRegistry, historyVars
<1>5. MadeFromFiles'
  BY DEF ContentInv, MadeFromFiles, Fresh, Writing, FullRun, Full, InHand, Ready,
      LoadsOverrides, Resolved, historyVars, RemoveRegistry
<1> QED
  BY <1>1, <1>2, <1>3, <1>4, <1>5 DEF ContentInv

LEMMA RemoveStaleDirsKeepsContent ==
    ASSUME IInv, ContentInv, RemoveStaleDirs
    PROVE  ContentInv'
<1>1. RunTyped'
  BY DEF ContentInv, RunTyped, InHand, RemoveStaleDirs, historyVars
<1>2. FilesTyped'
  BY DEF ContentInv, FilesTyped, Restrict, RemoveStaleDirs, historyVars
<1>3. SplitFiles'
  BY DEF ContentInv, SplitFiles, RemoveStaleDirs, historyVars
<1>4. ScriptsFollow'
  <2>1. DOMAIN bundle \ undeleted \subseteq {}
    BY DEF IInv, Phases, ClientsCovered, RemoveStaleDirs, historyVars, FullRun, Writing, InLoop
  <2> QED
    BY <2>1 DEF ScriptsFollow, RemoveStaleDirs, historyVars
<1>5. MadeFromFiles'
  BY DEF ContentInv, MadeFromFiles, Fresh, Writing, FullRun, Full, InHand, Ready,
      LoadsOverrides, Resolved, historyVars, RemoveStaleDirs
<1> QED
  BY <1>1, <1>2, <1>3, <1>4, <1>5 DEF ContentInv

LEMMA ResolveVariablesKeepsContent ==
    ASSUME IInv, ContentInv, ResolveVariables
    PROVE  ContentInv'
<1>1. RunTyped'
  <2>1. CASE config.variables
    BY <2>1 DEF ContentInv, RunTyped, InHand, ResolveVariables
  <2>2. CASE ~config.variables
    BY <2>2, NoRunTyped DEF ResolveVariables
  <2> QED
    BY <2>1, <2>2
<1>2. FilesTyped'
  BY DEF ContentInv, FilesTyped, fileVars, historyVars, ResolveVariables
<1>3. SplitFiles'
  BY SplitFilesKept DEF ContentInv, ResolveVariables, fileVars, historyVars
<1>4. ScriptsFollow'
  BY ScriptsKept DEF ContentInv, ResolveVariables, fileVars, historyVars
<1>5. MadeFromFiles'
  BY DEF IInv, Phases, ContentInv, MadeFromFiles, Fresh, Writing, FullRun, Full, InHand,
      Ready, LoadsOverrides, Resolved, fileVars, historyVars, ResolveVariables
<1> QED
  BY <1>1, <1>2, <1>3, <1>4, <1>5 DEF ContentInv

LEMMA WriteSharedKeepsContent ==
    ASSUME IInv, ContentInv, WriteShared
    PROVE  ContentInv'
<1>1. RunTyped'
  BY DEF ContentInv, RunTyped, InHand, WriteShared, historyVars
<1>2. FilesTyped'
  BY DEF ContentInv, FilesTyped, WriteShared, historyVars
<1>3. SplitFiles'
  BY SplitFilesKept DEF ContentInv, WriteShared, historyVars
<1>4. ScriptsFollow'
  BY ScriptsKept DEF ContentInv, WriteShared, historyVars
<1>5. MadeFromFiles'
  BY DEF ContentInv, MadeFromFiles, Fresh, Writing, FullRun, Full, InHand, Ready,
      LoadsOverrides, Resolved, historyVars, WriteShared
<1> QED
  BY <1>1, <1>2, <1>3, <1>4, <1>5 DEF ContentInv

LEMMA WriteSchemaKeepsContent ==
    ASSUME IInv, ContentInv, WriteSchema
    PROVE  ContentInv'
<1>1. RunTyped'
  BY DEF ContentInv, RunTyped, InHand, WriteSchema
<1>2. FilesTyped'
  BY DEF ContentInv, RunTyped, FilesTyped, Put, InHand, WriteSchema
<1>3. SplitFiles'
  BY SplitFilesKept DEF ContentInv, WriteSchema
<1>4. ScriptsFollow'
  BY ScriptsKept DEF ContentInv, WriteSchema
<1>5. MadeFromFiles'
  BY DEF ContentInv, MadeFromFiles, Fresh, Writing, FullRun, Full, InHand, Ready,
      LoadsOverrides, Resolved, WriteSchema
<1> QED
  BY <1>1, <1>2, <1>3, <1>4, <1>5 DEF ContentInv

LEMMA FinishKeepsContent ==
    ASSUME IInv, ContentInv, Finish
    PROVE  ContentInv'
<1>1. RunTyped'
  BY NoRunTyped DEF Finish
<1>2. FilesTyped'
  BY DEF ContentInv, RunTyped, FilesTyped, Finish, NoRegistry, NewRegistry
<1>3. SplitFiles'
  BY SplitFilesKept DEF ContentInv, Finish
<1>4. ScriptsFollow'
  BY ScriptsKept DEF ContentInv, Finish
<1>5. MadeFromFiles'
  BY DEF ContentInv, MadeFromFiles, Fresh, Writing, FullRun, Ready, LoadsOverrides,
      Resolved, Finish
<1> QED
  BY <1>1, <1>2, <1>3, <1>4, <1>5 DEF ContentInv

LEMMA AbortKeepsContent ==
    ASSUME IInv, ContentInv, Abort
    PROVE  ContentInv'
<1>1. RunTyped'
  BY NoRunTyped DEF Abort
<1>2. FilesTyped'
  BY GenerateAssumption DEF ContentInv, FilesTyped, Abort, fileVars, historyVars
<1>3. SplitFiles'
  BY SplitFilesKept DEF ContentInv, Abort, fileVars, historyVars
<1>4. ScriptsFollow'
  BY ScriptsKept DEF ContentInv, Abort, fileVars, historyVars
<1>5. MadeFromFiles'
  BY DEF IInv, Phases, ContentInv, MadeFromFiles, Fresh, Writing, FullRun, Ready,
      LoadsOverrides, Resolved, fileVars, historyVars, Abort
<1> QED
  BY <1>1, <1>2, <1>3, <1>4, <1>5 DEF ContentInv

LEMMA EditKeepsContent ==
    ASSUME IInv, ContentInv, Edit
    PROVE  ContentInv'
<1>1. RunTyped'
  BY DEF ContentInv, RunTyped, InHand, Edit
<1>2. FilesTyped'
  BY GenerateAssumption DEF ContentInv, FilesTyped, Edit, fileVars, historyVars
<1>3. SplitFiles'
  BY SplitFilesKept DEF ContentInv, Edit, fileVars, historyVars
<1>4. ScriptsFollow'
  BY ScriptsKept DEF ContentInv, Edit, fileVars, historyVars
<1>5. MadeFromFiles'
  BY DEF MadeFromFiles, Edit
<1> QED
  BY <1>1, <1>2, <1>3, <1>4, <1>5 DEF ContentInv

LEMMA StepContent == IInv /\ ContentInv /\ [Next]_vars => ContentInv'
<1> SUFFICES ASSUME IInv, ContentInv, [Next]_vars PROVE ContentInv'
  OBVIOUS
<1>1. CASE UNCHANGED vars
  <2>1. /\ config' = config /\ pc' = pc /\ run' = run /\ bundle' = bundle
        /\ schemaYml' = schemaYml /\ registry' = registry /\ scripts' = scripts
        /\ last' = last /\ edited' = edited /\ torn' = torn
        /\ undeleted' = undeleted /\ rekeyed' = rekeyed
        /\ edits' = edits /\ faults' = faults
    BY <1>1 DEF vars, fileVars, historyVars
  <2>2. RunTyped' /\ FilesTyped'
    BY <2>1 DEF ContentInv, RunTyped, FilesTyped, InHand
  <2>3. SplitFiles' /\ ScriptsFollow'
    BY <2>1 DEF ContentInv, SplitFiles, ScriptsFollow, Lists
  <2>4. MadeFromFiles'
    BY <2>1 DEF ContentInv, MadeFromFiles, Fresh, InHand, Writing, FullRun, Full, Ready,
        LoadsOverrides, Resolved
  <2> QED
    BY <2>2, <2>3, <2>4 DEF ContentInv
<1>2. CASE \E client \in Clients \cup {NoClient}, clean, stdout \in BOOLEAN :
               \E split, target : Start(client, split, target, clean, stdout)
  BY <1>2, StartKeepsContent
<1>3. CASE \E c \in Clients : ResolveClient(c)
  BY <1>3, ResolveClientKeepsContent
<1>4. CASE RemoveBundles \/ RemoveSchemas \/ RemoveRegistry \/ RemoveStaleDirs
  BY <1>4, RemoveBundlesKeepsContent, RemoveSchemasKeepsContent, RemoveRegistryKeepsContent,
     RemoveStaleDirsKeepsContent
<1>5. CASE ResolveVariables \/ WriteShared \/ WriteSchema \/ WriteBundle \/ WriteScript
  BY <1>5, ResolveVariablesKeepsContent, WriteSharedKeepsContent, WriteSchemaKeepsContent,
     WriteBundleKeepsContent, WriteScriptKeepsContent
<1>6. CASE Finish \/ Abort \/ Edit
  BY <1>6, FinishKeepsContent, AbortKeepsContent, EditKeepsContent
<1> QED
  BY <1>1, <1>2, <1>3, <1>4, <1>5, <1>6 DEF Next

LEMMA AlwaysContent == Spec => [](IInv /\ ContentInv)
    BY InitInv, StepInv, InitContent, StepContent, PTL DEF Spec

-----------------------------------------------------------------------------

\* Every reachable state of the command and of the tree is well typed.
THEOREM GenerateTypeCorrect == Spec => []TypeOK
<1>1. IInv /\ ContentInv => TypeOK
  BY DEF IInv, Phases, SchemaFirst, ContentInv, RunTyped, FilesTyped, TypeOK
<1> QED
  BY <1>1, AlwaysContent, PTL

\* No table is in two pipelines of a client and no pipeline is empty, whichever runs have
\* written the files (split_tables_for_pipelines).
THEOREM PipelinesNeverShare == Spec => []PipelinesDisjoint
<1>1. IInv /\ ContentInv => PipelinesDisjoint
  BY DEF ContentInv, SplitFiles, PipelinesDisjoint
<1> QED
  BY <1>1, AlwaysContent, PTL

\* The SQL scripts of a client list what its pipelines ingest, unless a run was cut short
\* between them or could not remove the pipelines' file (write_bundle_pipeline_yaml and the
\* writers of the scripts, from one resolution).
THEOREM ScriptsListWhatIsIngested == Spec => []ScriptsMatchPipelines
<1>1. IInv /\ ContentInv => ScriptsMatchPipelines
  BY DEF ContentInv, ScriptsFollow, Lists, ScriptsMatchPipelines
<1> QED
  BY <1>1, AlwaysContent, PTL

\* For every client and after every edit, the resolution is what the files declare: the
\* tables, their rows, their types as far as a row states one, and when it refuses
\* (resolve_effective_tables).
THEOREM ResolutionIsAsDeclared == Spec => []ResolvedAsDeclared
<1>1. IInv /\ ContentInv => ResolvedAsDeclared
  BY ConfigTyped, ResolutionFollowsFiles DEF ContentInv, ResolvedAsDeclared
<1> QED
  BY <1>1, AlwaysContent, PTL

\* The contexts of a registered client, whose own pipelines are among those that match
\* its name, amount to its tables.
LEMMA WatchedTables ==
    ASSUME NEW c \in Clients, NEW key \in RegisteredKeys, key[1] = c
    PROVE  Watched(c) = DOMAIN Resolved(c).tables
<1> DEFINE T(d) == DOMAIN Resolve(config.catalog, config.overrides[d]).tables
           own == [key |-> key, client |-> c, tables |-> T(c)]
<1>1. c \in RegisteredClients /\ key \in KeysFor(c)
  BY GenerateAssumption DEF RegisteredClients, KeysFor
<1>2. own \in Contexts /\ own.client = c /\ own.tables = T(c)
  BY <1>1 DEF Contexts
<1>3. ASSUME NEW ctx \in Contexts, ctx.client = c PROVE ctx.tables = T(c)
  <2>1. PICK d \in RegisteredClients : \E k \in KeysFor(d) :
           ctx = [key |-> k, client |-> d, tables |-> T(d)]
    BY DEF Contexts
  <2> HIDE DEF T
  <2>2. ctx.client = d /\ ctx.tables = T(d)
    BY <2>1
  <2> QED
    BY <1>3, <2>2
<1> HIDE DEF T, own
<1>4. Watched(c) = T(c)
  BY <1>2, <1>3 DEF Watched
<1> QED
  BY <1>4 DEF T, Resolved

\* After a full run, and until the files are edited, the recon job resolves each
\* registered client again to exactly the tables its pipelines ingest
\* (_cmd_generate against run_ingestion_recon.py).
THEOREM ReconWatchesWhatIsIngested == Spec => []WatchesWhatIsIngested
<1>1. ASSUME IInv, ContentInv, pc = "idle", last \in {"full", "complete"}, ~edited,
             NEW c \in RegisteredClients
      PROVE  Ready(c) /\ Watched(c) = TablesOf(bundle[c])
  <2>1. PICK key \in RegisteredKeys : key[1] = c
    BY DEF RegisteredClients
  <2>2. key \in Pipelines
    BY <1>1 DEF IInv, NamesRegistered, Writing, RegisteredKeys
  <2>3. PICK d \in DOMAIN bundle : key \in PipelineKeys(d, bundle[d])
    BY <2>2 DEF Pipelines
  <2>4. c \in DOMAIN bundle \ undeleted /\ c \in Clients
    BY <2>1, <2>3, KeysOfClient, <1>1 DEF IInv, NamesRegistered, Writing, RegisteredKeys,
        ContentInv, FilesTyped
  <2>5. Ready(c) /\ TablesOf(bundle[c]) = DOMAIN Resolved(c).tables
    BY <1>1, <2>4 DEF ContentInv, MadeFromFiles, Fresh, Writing
  <2> QED
    BY <2>1, <2>4, <2>5, WatchedTables
<1>2. IInv /\ ContentInv => WatchesWhatIsIngested
  BY <1>1 DEF WatchesWhatIsIngested
<1> QED
  BY <1>2, AlwaysContent, PTL

=============================================================================
